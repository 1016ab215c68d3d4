--------------------------- MODULE Allocation_proofs ---------------------------
(***************************************************************************)
(* What is kept, shown and told of the allocation, proved for every host   *)
(* and any number of calls.                                                *)
(***************************************************************************)
EXTENDS Allocation, TLAPS

-----------------------------------------------------------------------------
(***************************************************************************)
(* Rounding, the default and the slider                                    *)
(***************************************************************************)
\* A whole number of units, half of one away at most, and no less than a whole one below.
LEMMA RoundedIs ==
    ASSUME NEW n \in Nat
    PROVE  /\ Rounded(n, 4) \in Nat /\ Rounded(n, 4) % 4 = 0
           /\ Rounded(n, 4) <= n + 2 /\ n <= Rounded(n, 4) + 2
           /\ n >= 4 => Rounded(n, 4) >= 4
           /\ n >= 20 => Rounded(n, 4) >= 20
           /\ Rounded(n, 8) \in Nat /\ Rounded(n, 8) % 8 = 0
           /\ Rounded(n, 8) <= n + 4 /\ n <= Rounded(n, 8) + 4
  BY DEF Rounded

\* Every host has more than the least there is to give; a CPU is whole.
LEMMA HostIs ==
    ASSUME host \in Hosts
    PROVE  /\ host.total \in Nat /\ Floor \in {4, 20} /\ host.total >= Floor
           /\ host.program \in {"gui", "cli"}
           /\ host.kind = "cpu" => host.total % 4 = 0 /\ Floor = 4
<1>1. PICK k \in DOMAIN Capacities : host \in [program: {"gui", "cli"}, kind: {k}, total: Capacities[k]]
  BY DEF Hosts
<1>2. host.kind = k /\ host.total \in Capacities[k] /\ host.program \in {"gui", "cli"}
  BY <1>1
<1>3. k \in {"cpu", "memory", "storage"}
  BY DEF Capacities
<1>4. CASE k = "cpu"
  BY <1>2, <1>4, AllocationAssumption DEF Capacities, Floor
<1>5. CASE k = "memory"
  BY <1>2, <1>5, AllocationAssumption DEF Capacities, Floor
<1>6. CASE k = "storage"
  BY <1>2, <1>6, AllocationAssumption DEF Capacities, Floor
<1> QED BY <1>3, <1>4, <1>5, <1>6

\* The default fits, is never less than the least, and is near the half.
LEMMA DefaultIs ==
    ASSUME host \in Hosts
    PROVE  /\ default_allocation \in Nat /\ default_allocation >= Floor
           /\ default_allocation <= host.total
           /\ default_allocation = Floor \/ Distance(2 * default_allocation, host.total) <= 4
<1>1. /\ host.total \in Nat /\ Floor \in {4, 20} /\ host.total >= Floor
      /\ host.kind = "cpu" => host.total % 4 = 0 /\ Floor = 4
  BY HostIs
<1>2. CASE host.kind = "cpu"
  <2> DEFINE t == host.total
  <2>1. default_allocation = IF 4 * ((t \div 4) \div 2) < 4 THEN 4 ELSE 4 * ((t \div 4) \div 2)
    BY <1>1, <1>2 DEF default_allocation, AtLeast
  <2> HIDE DEF t
  <2> QED BY <1>1, <1>2, <2>1 DEF Distance, t
<1>3. CASE host.kind # "cpu"
  <2> DEFINE r == Rounded(host.total, 8)
  <2>1. r \in Nat /\ r % 8 = 0 /\ r <= host.total + 4 /\ host.total <= r + 4
    BY <1>1, RoundedIs
  <2>2. default_allocation = IF r \div 2 < Floor THEN Floor ELSE r \div 2
    BY <1>3 DEF default_allocation, AtLeast
  <2> HIDE DEF r
  <2> QED BY <1>1, <2>1, <2>2 DEF Distance
<1> QED BY <1>2, <1>3

\* A slider comes to stand on a stop, and no stop is nearer.
LEMMA SnapIs ==
    ASSUME host \in Hosts, NEW n \in Nat, NEW max \in Nat
    PROVE  /\ Snap(n, max) \in Stops(max)
           /\ \A t \in Stops(max) : Distance(Snap(n, max), n) <= Distance(t, n)
<1>1. Floor \in {4, 20}
  BY HostIs
<1> DEFINE f == Floor
           top == f * (AtLeast(max, f) \div f)
           low == f * (n \div f)
           s == IF n < f THEN f ELSE IF n >= top THEN top ELSE
                IF 2 * (n - low) >= f THEN low + f ELSE low
<1>2. s \in Stops(max)
  BY <1>1 DEF Stops, AtLeast
<1>3. ASSUME NEW t \in Stops(max) 
      PROVE Distance(s, n) < Distance(t, n) \/ (Distance(s, n) = Distance(t, n) /\ s >= t)
  BY <1>1 DEF Stops, AtLeast, Distance
<1>4. \A t \in Stops(max) : Distance(s, n) < Distance(t, n) \/ (Distance(s, n) = Distance(t, n) /\ s >= t)
  BY <1>3
<1> HIDE DEF s
<1>5. \E u \in Stops(max) : \A t \in Stops(max) :
         Distance(u, n) < Distance(t, n) \/ (Distance(u, n) = Distance(t, n) /\ u >= t)
  BY <1>2, <1>4
<1> DEFINE u == Snap(n, max)
<1>6. /\ u \in Stops(max)
      /\ \A t \in Stops(max) : Distance(u, n) < Distance(t, n) \/ (Distance(u, n) = Distance(t, n) /\ u >= t)
  BY <1>5 DEF Snap
<1>7. \A t \in Stops(max) : t \in Nat /\ Distance(t, n) \in Nat
  BY <1>1 DEF Stops, Distance
<1> HIDE DEF u
<1>8. \A t \in Stops(max) : Distance(u, n) <= Distance(t, n)
  BY <1>6, <1>7
<1> QED
  BY <1>6, <1>8 DEF u

-----------------------------------------------------------------------------
(***************************************************************************)
(* The parts of the invariant                                              *)
(***************************************************************************)
\* TypeOK, one variable at a time.
Pages == [max: Amounts, slider: Amounts, loaded: BOOLEAN, touched: BOOLEAN,
          busy: BOOLEAN, locked: BOOLEAN]
Answers == [amount: Amounts \cup {None}, exists: BOOLEAN]
Jobs == [step: {"idle", "update", "create", "answer"}, want: Amounts \cup {None}, here: BOOLEAN]
TypeInv ==
    /\ host \in Hosts
    /\ saved \in Amounts \cup {None}
    /\ cloud \in Amounts \cup {None}
    /\ vm \in Amounts \cup {None}
    /\ chosen \in BOOLEAN
    /\ lost \in BOOLEAN
    /\ page \in Pages
    /\ page.slider \in Stops(page.max)
    /\ status \in Answers
    /\ call \in [Calls -> Jobs]

\* Until an allocation is saved nothing has happened.
NothingYet ==
    saved = None => /\ cloud = None /\ vm = None /\ page = FreshPage /\ status = NoStatus
                    /\ \A c \in Calls : call[c] = CallIdle

\* The CLI has no page.
CliHasNoPage ==
    host.program = "cli" => /\ ~page.loaded /\ ~page.locked
                            /\ status = NoStatus
                            /\ \A c \in Calls : ~call[c].here

\* The slider ends at its minimum, or at the capacity that is shown.
PageIsOfHost == page.max \in {Floor, Shown}

DefaultIsKept == saved # None /\ ~chosen => saved = default_allocation

\* What a Setup is asked for fits as well as what is saved or used.
Limit == host.total + (IF host.program = "gui" /\ chosen THEN 2 ELSE 0)
EverythingFits == saved <= Limit /\ vm <= Limit /\ \A c \in Calls : call[c].want <= Limit

\* Unless an update was lost, it is on its way or has arrived.
Updating(c) == call[c].step = "update"
CloudIsTold ==
    ~lost => /\ \A c \in Calls : Updating(c) => call[c].want = saved
             /\ \A c, d \in Calls : Updating(c) /\ Updating(d) => c = d
             /\ cloud # None /\ (\A c \in Calls : ~Updating(c)) => cloud = saved

\* The answer that a page waits for is still true, unless it is busy.
StatusIsSaved == status # NoStatus /\ ~page.busy => status.amount = saved

Inv == /\ TypeInv
       /\ NothingYet
       /\ CliHasNoPage
       /\ PageIsOfHost
       /\ DefaultIsKept
       /\ EverythingFits
       /\ CloudIsTold
       /\ StatusIsSaved
       /\ SliderShowsSaved

-----------------------------------------------------------------------------
(***************************************************************************)
(* The host never changes, and all that is only of it neither              *)
(***************************************************************************)
\* No action has to do with the host.
LEMMA HostIsKept == [Next]_vars => host' = host
  BY DEF Next, vars, Login, StatusRead, StatusArrives, MoveSlider, Teardown, CliLogin,
         ClickSetup, Update, UpdateFails, CreateVM, Answer, CliChooses

\* With the host stay the stops, the default and the types.
LEMMA HostStays ==
    ASSUME host' = host
    PROVE  /\ Floor' = Floor /\ Shown' = Shown
           /\ default_allocation' = default_allocation
           /\ Amounts' = Amounts /\ Pages' = Pages /\ Answers' = Answers /\ Jobs' = Jobs
           /\ Stops(Shown)' = Stops(Shown)
           /\ FreshPage' = FreshPage
<1>1. Floor' = Floor /\ Shown' = Shown
  BY DEF Floor, Shown
<1>2. Amounts' = Amounts
  BY <1>1 DEF Amounts
<1>3. Pages' = Pages /\ Answers' = Answers /\ Jobs' = Jobs
  BY <1>2 DEF Pages, Answers, Jobs
<1>4. Stops(Shown)' = Stops(Shown)
  BY <1>1 DEF Stops
<1>5. default_allocation' = default_allocation
  BY <1>1 DEF default_allocation
<1>6. FreshPage' = FreshPage
  BY <1>1 DEF FreshPage
<1> QED
  BY <1>1, <1>2, <1>3, <1>4, <1>5, <1>6

\* What is shown is enough for the slider, and half a unit too much at most.
LEMMA ShownIs ==
    ASSUME host \in Hosts
    PROVE  /\ Shown \in Amounts /\ AtLeast(Shown, Floor) = Shown
           /\ Shown <= host.total + 2
<1>1. host.total \in Nat /\ Floor \in {4, 20} /\ host.total >= Floor
  BY HostIs
<1>2. /\ Shown \in Nat /\ Shown <= host.total + 2
      /\ host.total >= 4 => Shown >= 4
      /\ host.total >= 20 => Shown >= 20
  BY <1>1, RoundedIs DEF Shown
<1> QED
  BY <1>1, <1>2 DEF Amounts, AtLeast

\* A slider stands between the least and its end.
LEMMA StopIs ==
    ASSUME host \in Hosts, NEW max \in Amounts, NEW n \in Stops(max)
    PROVE  n \in Amounts /\ n <= max
  BY HostIs DEF Stops, Amounts, AtLeast

\* The default is an amount, and so is what is saved where there was none.
LEMMA DefaultedIs ==
    ASSUME TypeInv
    PROVE  /\ Defaulted \in Amounts
           /\ saved # None => Defaulted = saved
           /\ saved = None => Defaulted = default_allocation
           /\ None \notin Amounts
           /\ Status \in Answers /\ Status.amount = Defaulted
<1>1. default_allocation \in Amounts /\ None \notin Amounts
  BY DefaultIs, HostIs DEF TypeInv, Amounts, None
<1>2. Defaulted \in Amounts
  BY <1>1 DEF Defaulted, TypeInv
<1>3. (vm # None) \in BOOLEAN
  OBVIOUS
<1>4. Status \in Answers /\ Status.amount = Defaulted
  BY <1>2, <1>3 DEF Status, Answers
<1> QED
  BY <1>1, <1>2, <1>4 DEF Defaulted

\* What renderCluster makes of a page.
LEMMA RenderedIs ==
    ASSUME host \in Hosts, NEW p \in Pages, NEW s \in Answers
    PROVE  LET r == Rendered(p, s)
           IN  /\ r \in Pages
               /\ r.max = Shown /\ r.slider \in Stops(r.max)
               /\ r.touched = p.touched /\ r.busy = p.busy
               /\ r.loaded /\ r.locked = s.exists
               /\ ~p.touched => \A t \in Stops(Shown) : Distance(r.slider, s.amount) <= Distance(t, s.amount)
<1> DEFINE r == Rendered(p, s)
           n == IF p.touched THEN p.slider ELSE s.amount
<1>1. n \in Nat
  BY DEF Pages, Answers, Amounts, None
<1>2. Shown \in Amounts /\ Shown \in Nat
  BY ShownIs DEF Amounts
<1> DEFINE u == Snap(n, Shown)
<1>3. u \in Stops(Shown) /\ \A t \in Stops(Shown) : Distance(u, n) <= Distance(t, n)
  BY <1>1, <1>2, SnapIs
<1>4. u \in Amounts
  BY <1>2, <1>3, StopIs
<1>5. r = [max |-> Shown, slider |-> u, loaded |-> TRUE, touched |-> p.touched,
           busy |-> p.busy, locked |-> s.exists]
  <2>1. p = [max |-> p.max, slider |-> p.slider, loaded |-> p.loaded, touched |-> p.touched,
             busy |-> p.busy, locked |-> p.locked]
    BY DEF Pages
  <2>2. r = [p EXCEPT !.max = Shown, !.slider = u, !.loaded = TRUE, !.locked = s.exists]
    BY DEF Rendered
  <2> HIDE DEF r, u
  <2> QED
    BY <2>1, <2>2
<1>6. p.touched \in BOOLEAN /\ p.busy \in BOOLEAN /\ s.exists \in BOOLEAN
  BY DEF Pages, Answers
<1> HIDE DEF u
<1>7. r \in Pages
  BY <1>2, <1>4, <1>5, <1>6 DEF Pages
<1>8. ~p.touched => n = s.amount
  OBVIOUS
<1> HIDE DEF r, n
<1> QED
  BY <1>3, <1>5, <1>7, <1>8 DEF r

-----------------------------------------------------------------------------
(***************************************************************************)
(* Types                                                                   *)
(***************************************************************************)
\* A fresh page's slider stands on the only stop there is.
LEMMA FreshPageIs ==
    ASSUME host \in Hosts
    PROVE  FreshPage \in Pages /\ FreshPage.slider \in Stops(FreshPage.max) /\ NoStatus \in Answers
  BY HostIs DEF FreshPage, NoStatus, Pages, Answers, Amounts, Stops, AtLeast, None

\* What a step has to show of a page and of the amounts.
LEMMA TypeIsKept ==
    ASSUME host' = host, host \in Hosts,
           saved' \in Amounts \cup {None}, cloud' \in Amounts \cup {None},
           vm' \in Amounts \cup {None}, chosen' \in BOOLEAN, lost' \in BOOLEAN,
           page' \in Pages, page'.slider \in Stops(page'.max),
           status' \in Answers, call' \in [Calls -> Jobs]
    PROVE  TypeInv'
<1>1. Amounts' = Amounts /\ Pages' = Pages /\ Answers' = Answers /\ Jobs' = Jobs /\ Floor' = Floor
  BY HostStays
<1>2. (page.slider \in Stops(page.max))'
  BY <1>1 DEF Stops
<1> QED
  BY <1>1, <1>2 DEF TypeInv

\* After its update a call goes on to the VM, or is over.
LEMMA UpdatedIs ==
    ASSUME TypeInv, NEW c \in Calls, Updated(c), call[c].step = "update"
    PROVE  /\ call' \in [Calls -> Jobs]
           /\ \A d \in Calls : d # c => call'[d] = call[d]
           /\ call'[c].step # "update"
           /\ call'[c].want \in {call[c].want, None}
           /\ call'[c].here => call[c].here
<1>1. call \in [Calls -> Jobs] /\ call[c] \in Jobs
  BY DEF TypeInv
<1> DEFINE v == IF host.program = "gui" THEN [call[c] EXCEPT !.step = "create"] ELSE CallIdle
<1>2. v \in Jobs /\ v.step # "update" /\ v.want \in {call[c].want, None} /\ (v.here => call[c].here)
  BY <1>1 DEF Jobs, CallIdle
<1>3. call' = [call EXCEPT ![c] = v]
  BY DEF Updated
<1> HIDE DEF v
<1> QED
  BY <1>1, <1>2, <1>3

\* The page after a call that answers, and after a teardown.
LEMMA AnswerIs ==
    ASSUME TypeInv, NEW c \in Calls, Answer(c), call[c].here
    PROVE  /\ page' \in Pages /\ page'.slider \in Stops(page'.max)
           /\ page'.max = Shown /\ page'.loaded
           /\ \A t \in Stops(Shown) : Distance(page'.slider, Defaulted) <= Distance(t, Defaulted)
<1> DEFINE p == [page EXCEPT !.touched = FALSE, !.busy = FALSE]
<1>1. p \in Pages /\ ~p.touched
  BY DEF TypeInv, Pages
<1>2. page' = Rendered(p, Status)
  BY DEF Answer
<1> HIDE DEF p
<1> QED
  BY <1>1, <1>2, RenderedIs, DefaultedIs DEF TypeInv

LEMMA TeardownIs ==
    ASSUME TypeInv, Teardown
    PROVE  /\ page' \in Pages /\ page'.slider \in Stops(page'.max)
           /\ page'.max = Shown
           /\ \A t \in Stops(Shown) : Distance(page'.slider, Defaulted) <= Distance(t, Defaulted)
<1> DEFINE p == [page EXCEPT !.touched = FALSE]
           a == [Status EXCEPT !.exists = vm' # None]
<1>1. p \in Pages /\ ~p.touched
  BY DEF TypeInv, Pages
<1>2. (vm' # None) \in BOOLEAN
  OBVIOUS
<1>3. a \in Answers /\ a.amount = Defaulted
  BY <1>2, DefaultedIs DEF Answers
<1>4. page' = Rendered(p, a)
  BY DEF Teardown
<1> HIDE DEF p, a
<1> QED
  BY <1>1, <1>3, <1>4, RenderedIs DEF TypeInv

\* Amounts stay amounts, and sliders on their stops.
LEMMA StepType == TypeInv /\ [Next]_vars => TypeInv'
<1> SUFFICES ASSUME TypeInv, [Next]_vars PROVE TypeInv'
  OBVIOUS
<1>1. host' = host /\ host \in Hosts
  BY HostIsKept DEF TypeInv
<1>2. /\ saved \in Amounts \cup {None} /\ cloud \in Amounts \cup {None} /\ vm \in Amounts \cup {None}
      /\ page \in Pages /\ page.slider \in Stops(page.max)
      /\ status \in Answers /\ call \in [Calls -> Jobs]
  BY DEF TypeInv
<1>3. chosen \in BOOLEAN /\ lost \in BOOLEAN
  BY DEF TypeInv
<1>4. Defaulted \in Amounts /\ Status \in Answers
  BY DefaultedIs
<1>5. FreshPage \in Pages /\ FreshPage.slider \in Stops(FreshPage.max) /\ NoStatus \in Answers
  BY <1>1, FreshPageIs
<1>6. (\E c \in Calls : call[c].step = "update") \in BOOLEAN
  OBVIOUS
<1>7. CASE Login
  <2>1. lost' \in BOOLEAN
    BY <1>7, <1>6 DEF Login
  <2>2. call' \in [Calls -> Jobs]
    BY <1>7, <1>2 DEF Login, Jobs
  <2> QED
    BY <1>7, <1>1, <1>2, <1>3, <1>4, <1>5, <2>1, <2>2, TypeIsKept DEF Login, ensure_allocation_defaults
<1>8. CASE StatusRead
  BY <1>8, <1>1, <1>2, <1>3, <1>4, TypeIsKept DEF StatusRead, ensure_allocation_defaults
<1>9. CASE StatusArrives
  <2>1. page' \in Pages /\ page'.slider \in Stops(page'.max)
    BY <1>9, <1>1, <1>2, RenderedIs DEF StatusArrives
  <2> QED
    BY <1>9, <1>1, <1>2, <1>3, <1>5, <2>1, TypeIsKept DEF StatusArrives
<1>10. CASE MoveSlider
  <2>1. PICK n \in Stops(page.max) : page' = [page EXCEPT !.slider = n, !.touched = TRUE]
    BY <1>10 DEF MoveSlider
  <2>2. page.max \in Amounts /\ n \in Amounts
    BY <1>1, <1>2, StopIs DEF Pages
  <2>3. page' \in Pages /\ page'.slider = n /\ page'.max = page.max
    BY <1>2, <2>1, <2>2 DEF Pages
  <2> QED
    BY <1>10, <1>1, <1>2, <1>3, <2>3, TypeIsKept DEF MoveSlider
<1>11. CASE Teardown
  BY <1>11, <1>1, <1>2, <1>3, TeardownIs, TypeIsKept DEF Teardown
<1>12. CASE CliLogin
  BY <1>12, <1>1, <1>2, <1>3, <1>4, TypeIsKept DEF CliLogin, ensure_allocation_defaults
<1>13. ASSUME NEW c \in Calls, ClickSetup(c) PROVE TypeInv'
  <2>1. lost' \in BOOLEAN /\ chosen' \in BOOLEAN
    BY <1>13, <1>6 DEF ClickSetup
  <2>2. page.slider \in Amounts
    BY <1>2 DEF Pages
  <2>3. call' \in [Calls -> Jobs]
    BY <1>13, <1>2, <2>2 DEF ClickSetup, Jobs
  <2>4. page' \in Pages /\ page'.slider = page.slider /\ page'.max = page.max
    BY <1>13, <1>2 DEF ClickSetup, Pages
  <2> QED
    BY <1>13, <1>1, <1>2, <2>1, <2>2, <2>3, <2>4, TypeIsKept DEF ClickSetup
<1>14. ASSUME NEW c \in Calls, Update(c) PROVE TypeInv'
  <2>1. call' \in [Calls -> Jobs]
    BY <1>14, UpdatedIs DEF Update
  <2>2. cloud' \in Amounts \cup {None}
    BY <1>14, <1>2 DEF Update, Jobs
  <2> QED
    BY <1>14, <1>1, <1>2, <1>3, <2>1, <2>2, TypeIsKept DEF Update
<1>15. ASSUME NEW c \in Calls, UpdateFails(c) PROVE TypeInv'
  <2>1. call' \in [Calls -> Jobs]
    BY <1>15, UpdatedIs DEF UpdateFails
  <2>2. lost' \in BOOLEAN
    BY <1>15 DEF UpdateFails
  <2> QED
    BY <1>15, <1>1, <1>2, <1>3, <2>1, <2>2, TypeIsKept DEF UpdateFails
<1>16. ASSUME NEW c \in Calls, CreateVM(c) PROVE TypeInv'
  <2>1. call' \in [Calls -> Jobs]
    BY <1>16, <1>2 DEF CreateVM, Jobs
  <2>2. vm' \in Amounts \cup {None}
    BY <1>16, <1>2 DEF CreateVM, Jobs
  <2> QED
    BY <1>16, <1>1, <1>2, <1>3, <2>1, <2>2, TypeIsKept DEF CreateVM
<1>17. ASSUME NEW c \in Calls, Answer(c) PROVE TypeInv'
  <2>1. page' \in Pages /\ page'.slider \in Stops(page'.max)
    BY <1>17, <1>2, AnswerIs DEF Answer
  <2>2. call' \in [Calls -> Jobs]
    BY <1>17, <1>2 DEF Answer, CallIdle, Jobs
  <2> QED
    BY <1>17, <1>1, <1>2, <1>3, <2>1, <2>2, TypeIsKept DEF Answer
<1>18. ASSUME NEW c \in Calls, CliChooses(c) PROVE TypeInv'
  <2>1. PICK n \in {Floor - 1, Floor, Floor + 2, default_allocation, host.total, Shown} :
          /\ _validate_allocation(n)
          /\ saved' = n
          /\ call' = [call EXCEPT ![c] = [step |-> "update", want |-> n, here |-> FALSE]]
    BY <1>18 DEF CliChooses
  <2>2. n \in Amounts
    BY <1>1, <2>1, HostIs, DefaultIs, ShownIs DEF Amounts, _validate_allocation
  <2>3. call' \in [Calls -> Jobs]
    BY <1>2, <2>1, <2>2 DEF Jobs
  <2>4. lost' \in BOOLEAN /\ chosen' \in BOOLEAN
    BY <1>18 DEF CliChooses
  <2> QED
    BY <1>18, <1>1, <1>2, <2>1, <2>2, <2>3, <2>4, TypeIsKept DEF CliChooses
<1>19. CASE UNCHANGED vars
  BY <1>19, <1>1, <1>2, <1>3, TypeIsKept DEF vars
<1> QED
  BY <1>7, <1>8, <1>9, <1>10, <1>11, <1>12, <1>13, <1>14, <1>15, <1>16, <1>17, <1>18, <1>19 DEF Next

-----------------------------------------------------------------------------
(***************************************************************************)
(* What is saved                                                           *)
(***************************************************************************)
\* With nothing saved, only a login or a status read can happen; both save the
\* default.
LEMMA FirstStep ==
    ASSUME TypeInv, NothingYet, saved = None, [Next]_vars
    PROVE  \/ UNCHANGED vars
           \/ saved' = default_allocation /\ chosen' = chosen /\ (Login \/ StatusRead \/ CliLogin)
<1>1. /\ cloud = None /\ page = FreshPage /\ status = NoStatus
      /\ \A c \in Calls : call[c] = CallIdle
  BY DEF NothingYet
<1>2. Defaulted = default_allocation
  BY DefaultedIs
<1>3. CASE Login \/ StatusRead \/ CliLogin
  BY <1>2, <1>3 DEF Login, StatusRead, CliLogin, ensure_allocation_defaults
<1>4. ~page.locked /\ status = NoStatus /\ \A c \in Calls : call[c].step = "idle"
  BY <1>1 DEF FreshPage, CallIdle
<1>5. ~StatusArrives /\ ~MoveSlider /\ ~Teardown
  BY <1>1, <1>4 DEF StatusArrives, MoveSlider, Teardown
<1>6. \A c \in Calls : ~ClickSetup(c) /\ ~CliChooses(c)
  BY <1>1 DEF ClickSetup, CliChooses
<1>7. \A c \in Calls : ~Update(c) /\ ~UpdateFails(c) /\ ~CreateVM(c) /\ ~Answer(c)
  BY <1>4 DEF Update, UpdateFails, CreateVM, Answer
<1> QED
  BY <1>3, <1>5, <1>6, <1>7 DEF Next

\* Once saved, an allocation is changed only by somebody's choice.
LEMMA SavedChanges ==
    ASSUME TypeInv, saved # None, [Next]_vars
    PROVE  \/ saved' = saved /\ chosen' = chosen
           \/ /\ chosen' = TRUE
              /\ \/ \E c \in Calls : ClickSetup(c) /\ saved' = page.slider
                 \/ saved' \in Amounts /\ saved' <= host.total
<1>1. Defaulted = saved
  BY DefaultedIs
<1>2. CASE \E c \in Calls : ClickSetup(c)
  BY <1>2 DEF ClickSetup
<1>3. ASSUME NEW c \in Calls, CliChooses(c)
      PROVE  chosen' = TRUE /\ saved' \in Amounts /\ saved' <= host.total
  <2>1. chosen' = TRUE
    BY <1>3 DEF CliChooses
  <2>2. PICK n \in {Floor - 1, Floor, Floor + 2, default_allocation, host.total, Shown} :
           _validate_allocation(n) /\ saved' = n
    BY <1>3 DEF CliChooses
  <2> QED
    BY <2>1, <2>2, HostIs, DefaultIs, ShownIs DEF Amounts, _validate_allocation, TypeInv
<1>4. CASE Login \/ StatusRead \/ CliLogin
  BY <1>1, <1>4 DEF Login, StatusRead, CliLogin, ensure_allocation_defaults
<1>5. CASE StatusArrives \/ MoveSlider \/ Teardown \/ UNCHANGED vars
  BY <1>5 DEF StatusArrives, MoveSlider, Teardown, vars
<1>6. CASE \E c \in Calls : Update(c) \/ UpdateFails(c) \/ CreateVM(c) \/ Answer(c)
  BY <1>6 DEF Update, UpdateFails, CreateVM, Answer
<1> QED
  BY <1>2, <1>3, <1>4, <1>5, <1>6 DEF Next

\* What is saved is never lost.
LEMMA StepNothing == TypeInv /\ NothingYet /\ [Next]_vars => NothingYet'
<1> SUFFICES ASSUME TypeInv, NothingYet, [Next]_vars PROVE NothingYet'
  OBVIOUS
<1>1. None \notin Amounts /\ default_allocation # None
  BY DefaultedIs, DefaultIs, HostIs DEF TypeInv, None
<1>2. page.slider \in Amounts
  BY DEF TypeInv, Pages
<1>3. CASE saved = None
  <2>1. CASE UNCHANGED vars
    BY <2>1, HostStays DEF NothingYet, vars, NoStatus, CallIdle
  <2>2. CASE saved' = default_allocation
    <3>1. saved' # None
      BY <1>1, <2>2
    <3> QED
      BY <3>1 DEF NothingYet
  <2> QED
    BY <1>3, <2>1, <2>2, FirstStep
<1>4. CASE saved # None
  <2>1. saved' # None
    BY <1>1, <1>2, <1>4, SavedChanges
  <2> QED
    BY <2>1 DEF NothingYet
<1> QED
  BY <1>3, <1>4

\* Only a choice changes what is saved.
LEMMA StepDefault == TypeInv /\ NothingYet /\ DefaultIsKept /\ [Next]_vars => DefaultIsKept'
<1> SUFFICES ASSUME TypeInv, NothingYet, DefaultIsKept, [Next]_vars, saved' # None, ~chosen'
             PROVE  saved' = default_allocation'
  BY DEF DefaultIsKept
<1>1. default_allocation' = default_allocation
  BY HostIsKept, HostStays
<1>2. CASE saved = None
  BY <1>1, <1>2, FirstStep DEF vars
<1>3. CASE saved # None
  BY <1>1, <1>3, SavedChanges DEF DefaultIsKept
<1> QED
  BY <1>2, <1>3

-----------------------------------------------------------------------------
(***************************************************************************)
(* The CLI's page, and where a slider ends                                 *)
(***************************************************************************)
\* The CLI never gets a page.
LEMMA StepCli == TypeInv /\ CliHasNoPage /\ [Next]_vars => CliHasNoPage'
<1> SUFFICES ASSUME TypeInv, CliHasNoPage, [Next]_vars, host'.program = "cli"
             PROVE  /\ ~page'.loaded /\ ~page'.locked /\ status' = NoStatus
                    /\ \A c \in Calls : ~call'[c].here
  BY DEF CliHasNoPage, NoStatus
<1>1. host.program = "cli" /\ host.program # "gui"
  BY HostIsKept
<1>2. /\ ~page.loaded /\ ~page.locked /\ status = NoStatus
      /\ \A c \in Calls : ~call[c].here
  BY <1>1 DEF CliHasNoPage
<1>3. call \in [Calls -> Jobs]
  BY DEF TypeInv
<1>4. ~Login /\ ~StatusRead /\ ~StatusArrives /\ ~MoveSlider /\ ~Teardown /\ \A c \in Calls : ~ClickSetup(c)
  BY <1>1, <1>2 DEF Login, StatusRead, StatusArrives, MoveSlider, Teardown, ClickSetup
<1>5. CASE CliLogin \/ UNCHANGED vars
  BY <1>2, <1>5 DEF CliLogin, vars
<1>6. ASSUME NEW c \in Calls, Update(c) \/ UpdateFails(c)
      PROVE  page' = page /\ status' = status /\ \A d \in Calls : ~call'[d].here
  BY <1>2, <1>6, UpdatedIs DEF Update, UpdateFails
<1>7. ASSUME NEW c \in Calls, CreateVM(c) \/ Answer(c)
      PROVE  page' = page /\ status' = status /\ \A d \in Calls : ~call'[d].here
  BY <1>2, <1>3, <1>7 DEF CreateVM, Answer, CallIdle, Jobs
<1>8. ASSUME NEW c \in Calls, CliChooses(c)
      PROVE  page' = page /\ status' = status /\ \A d \in Calls : ~call'[d].here
  BY <1>2, <1>3, <1>8 DEF CliChooses
<1> QED
  BY <1>2, <1>4, <1>5, <1>6, <1>7, <1>8 DEF Next

\* Only a status sets a slider's end, to the capacity that is shown.
LEMMA StepMax == TypeInv /\ PageIsOfHost /\ [Next]_vars => PageIsOfHost'
<1> SUFFICES ASSUME TypeInv, PageIsOfHost, [Next]_vars PROVE page'.max \in {Floor, Shown}
  BY HostIsKept, HostStays DEF PageIsOfHost
<1>1. page.max \in {Floor, Shown}
  BY DEF PageIsOfHost
<1>2. page \in Pages /\ status \in Answers
  BY DEF TypeInv
<1>3. host \in Hosts
  BY DEF TypeInv
<1>4. CASE Login
  BY <1>4 DEF Login, FreshPage
<1>5. CASE StatusArrives
  BY <1>5, <1>2, <1>3, RenderedIs DEF StatusArrives
<1>6. CASE MoveSlider
  BY <1>6, <1>1, <1>2 DEF MoveSlider, Pages
<1>7. CASE Teardown
  BY <1>7, TeardownIs
<1>8. ASSUME NEW c \in Calls, Answer(c) PROVE page'.max \in {Floor, Shown}
  BY <1>8, <1>1, AnswerIs DEF Answer
<1>9. ASSUME NEW c \in Calls, ClickSetup(c) PROVE page'.max \in {Floor, Shown}
  BY <1>9, <1>1, <1>2 DEF ClickSetup, Pages
<1>10. CASE StatusRead \/ CliLogin \/ UNCHANGED vars
  BY <1>10, <1>1 DEF StatusRead, CliLogin, vars
<1>11. CASE \E c \in Calls : Update(c) \/ UpdateFails(c) \/ CreateVM(c) \/ CliChooses(c)
  BY <1>11, <1>1 DEF Update, UpdateFails, CreateVM, CliChooses
<1> QED
  BY <1>4, <1>5, <1>6, <1>7, <1>8, <1>9, <1>10, <1>11 DEF Next

-----------------------------------------------------------------------------
(***************************************************************************)
(* What is saved, asked for and used fits                                  *)
(***************************************************************************)
\* Somebody who has chosen once has chosen.
LEMMA OnceChosen ==
    ASSUME TypeInv, [Next]_vars
    PROVE  chosen => chosen'
<1>1. CASE Login \/ StatusRead \/ StatusArrives \/ MoveSlider \/ Teardown \/ CliLogin \/ UNCHANGED vars
  BY <1>1 DEF Login, StatusRead, StatusArrives, MoveSlider, Teardown, CliLogin, vars
<1>2. CASE \E c \in Calls : Update(c) \/ UpdateFails(c) \/ CreateVM(c) \/ Answer(c)
  BY <1>2 DEF Update, UpdateFails, CreateVM, Answer
<1>3. CASE \E c \in Calls : ClickSetup(c) \/ CliChooses(c)
  BY <1>3 DEF ClickSetup, CliChooses
<1> QED
  BY <1>1, <1>2, <1>3 DEF Next

\* The limit is a number, at least the capacity, and never gets lower.
LEMMA LimitIs ==
    ASSUME TypeInv, [Next]_vars
    PROVE  /\ Limit \in Nat /\ Limit >= host.total
           /\ Limit' \in Nat /\ Limit' >= host.total
           /\ Limit' >= Limit
           /\ host.program = "gui" /\ chosen' => Limit' = host.total + 2
  BY HostIs, HostIsKept, OnceChosen DEF TypeInv, Limit

\* A slider ends half a unit above the capacity at most; the CLI checks.
LEMMA StepFits == TypeInv /\ NothingYet /\ PageIsOfHost /\ EverythingFits /\ [Next]_vars => EverythingFits'
<1> SUFFICES ASSUME TypeInv, NothingYet, PageIsOfHost, EverythingFits, [Next]_vars
             PROVE  EverythingFits'
  OBVIOUS
<1> DEFINE l == Limit
           m == Limit'
<1>1. /\ host \in Hosts /\ host.total \in Nat /\ host' = host
      /\ saved \in Nat /\ vm \in Nat /\ saved' \in Nat
      /\ call \in [Calls -> Jobs]
      /\ \A j \in Jobs : j.want \in Nat
      /\ TypeInv'
  BY HostIs, HostIsKept, StepType DEF TypeInv, Amounts, Jobs, None
<1>2. /\ l \in Nat /\ m \in Nat /\ m >= l /\ m >= host.total
      /\ host.program = "gui" /\ chosen' => m = host.total + 2
  BY LimitIs
<1>3. saved <= l /\ vm <= l /\ \A c \in Calls : call[c].want <= l
  BY DEF EverythingFits
<1> HIDE DEF l, m
<1>4. saved <= m /\ vm <= m /\ \A c \in Calls : call[c].want <= m /\ None <= m
  BY <1>1, <1>2, <1>3 DEF None
<1>5. page.slider \in Nat /\ page.slider <= host.total + 2
  <2>1. page.max \in Amounts /\ page.slider \in Stops(page.max)
    BY DEF TypeInv, Pages
  <2>2. page.slider \in Amounts /\ page.slider <= page.max
    BY <1>1, <2>1, StopIs
  <2>3. page.max <= host.total + 2
    BY <1>1, HostIs, ShownIs DEF PageIsOfHost
  <2> QED
    BY <1>1, <2>1, <2>2, <2>3 DEF Amounts
<1>6. saved' <= m
  <2>1. CASE saved = None
    BY <1>1, <1>2, <1>4, <2>1, FirstStep, DefaultIs DEF vars
  <2>2. ASSUME NEW c \in Calls, ClickSetup(c) PROVE saved' <= m
    BY <1>1, <1>2, <1>5, <2>2 DEF ClickSetup
  <2>3. CASE saved # None
    <3>1. saved' = saved \/ saved' <= host.total \/ \E c \in Calls : ClickSetup(c)
      BY <2>3, SavedChanges
    <3> QED
      BY <1>1, <1>2, <1>4, <2>2, <3>1
  <2> QED
    BY <2>1, <2>3
<1>7. vm' <= m /\ \A c \in Calls : call'[c].want <= m
  <2>1. CASE Login
    BY <2>1, <1>1, <1>4 DEF Login, Jobs
  <2>2. CASE Teardown
    BY <2>2, <1>2, <1>4 DEF Teardown, None
  <2>3. CASE StatusRead \/ StatusArrives \/ MoveSlider \/ CliLogin \/ UNCHANGED vars
    BY <2>3, <1>4 DEF StatusRead, StatusArrives, MoveSlider, CliLogin, vars
  <2>4. ASSUME NEW c \in Calls, ClickSetup(c) PROVE vm' <= m /\ \A d \in Calls : call'[d].want <= m
    <3>1. vm' = vm /\ call' = [call EXCEPT ![c] = [step |-> "update", want |-> page.slider, here |-> TRUE]]
      BY <2>4 DEF ClickSetup
    <3>2. page.slider <= m
      BY <2>4, <1>1, <1>2, <1>5 DEF ClickSetup
    <3> QED
      BY <1>1, <1>4, <3>1, <3>2
  <2>5. ASSUME NEW c \in Calls, Update(c) \/ UpdateFails(c) PROVE vm' <= m /\ \A d \in Calls : call'[d].want <= m
    <3>1. vm' = vm /\ Updated(c) /\ call[c].step = "update"
      BY <2>5 DEF Update, UpdateFails
    <3> QED
      BY <1>4, <3>1, UpdatedIs
  <2>6. ASSUME NEW c \in Calls, CreateVM(c) PROVE vm' <= m /\ \A d \in Calls : call'[d].want <= m
    BY <2>6, <1>1, <1>4 DEF CreateVM, Jobs
  <2>7. ASSUME NEW c \in Calls, Answer(c) PROVE vm' <= m /\ \A d \in Calls : call'[d].want <= m
    BY <2>7, <1>1, <1>4 DEF Answer, CallIdle
  <2>8. ASSUME NEW c \in Calls, CliChooses(c) PROVE vm' <= m /\ \A d \in Calls : call'[d].want <= m
    <3>1. vm' = vm /\ call' = [call EXCEPT ![c] = [step |-> "update", want |-> saved', here |-> FALSE]]
      BY <2>8 DEF CliChooses
    <3> QED
      BY <1>1, <1>4, <1>6, <3>1
  <2> QED
    BY <2>1, <2>2, <2>3, <2>4, <2>5, <2>6, <2>7, <2>8 DEF Next
<1> QED
  BY <1>6, <1>7 DEF EverythingFits, m

-----------------------------------------------------------------------------
(***************************************************************************)
(* What Cloud is told                                                      *)
(***************************************************************************)
\* An update carries what was saved last, or another one is on its way.
LEMMA StepCloud == TypeInv /\ NothingYet /\ CloudIsTold /\ [Next]_vars => CloudIsTold'
<1> SUFFICES ASSUME TypeInv, NothingYet, CloudIsTold, [Next]_vars, ~lost'
             PROVE  /\ \A c \in Calls : Updating(c)' => call'[c].want = saved'
                    /\ \A c, d \in Calls : Updating(c)' /\ Updating(d)' => c = d
                    /\ cloud' # None /\ (\A c \in Calls : ~Updating(c)') => cloud' = saved'
  BY DEF CloudIsTold, None
<1>1. call \in [Calls -> Jobs]
  BY DEF TypeInv
<1>2. cloud # None => saved # None
  BY DEF NothingYet
<1>3. saved # None => Defaulted = saved
  BY DefaultedIs
<1>4. saved = None => \A c \in Calls : ~Updating(c)
  BY DEF NothingYet, Updating, CallIdle
<1>5. CASE Login
  <2>1. \A c \in Calls : ~Updating(c)
    BY <1>5 DEF Login, Updating
  <2>2. \A c \in Calls : call'[c].step = call[c].step
    BY <1>5, <1>1 DEF Login, Jobs
  <2>3. cloud' = saved'
    BY <1>5 DEF Login, ensure_allocation_defaults
  <2> QED
    BY <2>1, <2>2, <2>3 DEF Updating
<1>6. ASSUME NEW c \in Calls, ClickSetup(c)
      PROVE  /\ \A e \in Calls : Updating(e)' => call'[e].want = saved'
             /\ \A d, e \in Calls : Updating(d)' /\ Updating(e)' => d = e
             /\ ~(\A e \in Calls : ~Updating(e)')
  <2>1. \A d \in Calls : ~Updating(d)
    BY <1>6 DEF ClickSetup, Updating
  <2>2. call' = [call EXCEPT ![c] = [step |-> "update", want |-> saved', here |-> TRUE]]
    BY <1>6 DEF ClickSetup
  <2> QED
    BY <1>1, <2>1, <2>2 DEF Updating
<1>7. ASSUME NEW c \in Calls, CliChooses(c)
      PROVE  /\ \A e \in Calls : Updating(e)' => call'[e].want = saved'
             /\ \A d, e \in Calls : Updating(d)' /\ Updating(e)' => d = e
             /\ ~(\A e \in Calls : ~Updating(e)')
  <2>1. \A d \in Calls : ~Updating(d)
    BY <1>7 DEF CliChooses, Updating, CallIdle
  <2>2. call' = [call EXCEPT ![c] = [step |-> "update", want |-> saved', here |-> FALSE]]
    BY <1>7 DEF CliChooses
  <2> QED
    BY <1>1, <2>1, <2>2 DEF Updating
<1>8. ASSUME NEW c \in Calls, UpdateFails(c) PROVE FALSE
  BY <1>8 DEF UpdateFails
<1>9. CASE ~lost
  <2>1. /\ \A c \in Calls : Updating(c) => call[c].want = saved
        /\ \A c, d \in Calls : Updating(c) /\ Updating(d) => c = d
        /\ cloud # None /\ (\A c \in Calls : ~Updating(c)) => cloud = saved
    BY <1>9 DEF CloudIsTold
  <2>2. CASE StatusRead
    BY <2>1, <2>2, <1>2, <1>3 DEF StatusRead, ensure_allocation_defaults, Updating
  <2>3. CASE CliLogin
    BY <2>1, <2>3, <1>3, <1>4 DEF CliLogin, ensure_allocation_defaults, Updating
  <2>4. CASE StatusArrives \/ MoveSlider \/ Teardown \/ UNCHANGED vars
    BY <2>1, <2>4 DEF StatusArrives, MoveSlider, Teardown, vars, Updating
  <2>5. ASSUME NEW c \in Calls, Update(c)
        PROVE  cloud' = saved' /\ \A e \in Calls : ~Updating(e)'
    <3>1. cloud' = call[c].want /\ saved' = saved /\ Updated(c) /\ Updating(c) /\ call[c].step = "update"
      BY <2>5 DEF Update, Updating
    <3> QED
      BY <2>1, <3>1, UpdatedIs DEF Updating
  <2>6. ASSUME NEW c \in Calls, CreateVM(c) \/ Answer(c)
        PROVE  /\ cloud' = cloud /\ saved' = saved /\ ~Updating(c) /\ ~Updating(c)'
               /\ \A e \in Calls : e # c => call'[e] = call[e]
    BY <1>1, <2>6 DEF CreateVM, Answer, CallIdle, Updating, Jobs
  <2>7. ASSUME NEW c \in Calls, CreateVM(c) \/ Answer(c)
        PROVE  /\ \A e \in Calls : Updating(e)' => call'[e].want = saved'
               /\ \A d, e \in Calls : Updating(d)' /\ Updating(e)' => d = e
               /\ cloud' # None /\ (\A e \in Calls : ~Updating(e)') => cloud' = saved'
    BY <2>1, <2>6, <2>7 DEF Updating
  <2> QED
    BY <2>2, <2>3, <2>4, <2>5, <2>7, <1>5, <1>6, <1>7, <1>8 DEF Next
<1>10. CASE lost
  <2>1. ~(StatusRead \/ StatusArrives \/ MoveSlider \/ Teardown \/ CliLogin \/ UNCHANGED vars)
    BY <1>10 DEF StatusRead, StatusArrives, MoveSlider, Teardown, CliLogin, vars
  <2>2. \A c \in Calls : ~(Update(c) \/ CreateVM(c) \/ Answer(c))
    BY <1>10 DEF Update, CreateVM, Answer
  <2> QED
    BY <2>1, <2>2, <1>5, <1>6, <1>7, <1>8 DEF Next
<1> QED
  BY <1>9, <1>10

-----------------------------------------------------------------------------
(***************************************************************************)
(* What the slider shows                                                   *)
(***************************************************************************)
\* While an answer is on its way only a Setup saves, and the page is busy then.
LEMMA StepStatus == TypeInv /\ CliHasNoPage /\ StatusIsSaved /\ [Next]_vars => StatusIsSaved'
<1> SUFFICES ASSUME TypeInv, CliHasNoPage, StatusIsSaved, [Next]_vars,
                    status' # NoStatus, ~page'.busy
             PROVE  status'.amount = saved'
  BY DEF StatusIsSaved, NoStatus
<1>1. status # NoStatus /\ ~page.busy => status.amount = saved
  BY DEF StatusIsSaved
<1>2. page \in Pages
  BY DEF TypeInv
<1>3. ~Login /\ ~StatusArrives
  BY DEF Login, StatusArrives
<1>4. CASE StatusRead
  BY <1>4, DefaultedIs DEF StatusRead, ensure_allocation_defaults
<1>5. ~CliLogin /\ \A c \in Calls : ~CliChooses(c)
  <2>1. host.program = "cli" => status = NoStatus
    BY DEF CliHasNoPage
  <2> QED
    BY <2>1 DEF CliLogin, CliChooses
<1>6. \A c \in Calls : ~ClickSetup(c)
  BY <1>2 DEF ClickSetup, Pages
<1>7. CASE MoveSlider
  BY <1>1, <1>2, <1>7 DEF MoveSlider, Pages
<1>8. ~Teardown /\ \A c \in Calls : ~Answer(c)
  BY DEF Teardown, Answer
<1>9. CASE UNCHANGED vars
  BY <1>1, <1>9 DEF vars
<1>10. CASE \E c \in Calls : Update(c) \/ UpdateFails(c) \/ CreateVM(c)
  BY <1>1, <1>10 DEF Update, UpdateFails, CreateVM
<1> QED
  BY <1>3, <1>4, <1>5, <1>6, <1>7, <1>8, <1>9, <1>10 DEF Next

\* The page is rendered with what is saved.
LEMMA StepSlider ==
    TypeInv /\ NothingYet /\ CliHasNoPage /\ StatusIsSaved /\ SliderShowsSaved /\ [Next]_vars
        => SliderShowsSaved'
<1> SUFFICES ASSUME TypeInv, NothingYet, CliHasNoPage, StatusIsSaved, SliderShowsSaved, [Next]_vars,
                    page'.loaded, ~page'.touched, ~page'.busy,
                    NEW t \in Stops(Shown)
             PROVE  Distance(page'.slider, saved') <= Distance(t, saved')
  BY HostIsKept, HostStays DEF SliderShowsSaved
<1>1. page.loaded /\ ~page.touched /\ ~page.busy => Distance(page.slider, saved) <= Distance(t, saved)
  BY DEF SliderShowsSaved
<1>2. page \in Pages /\ host \in Hosts /\ status \in Answers /\ Defaulted \in Amounts
  BY DefaultedIs DEF TypeInv
<1>3. saved # None => Defaulted = saved
  BY DefaultedIs
<1>4. saved = None => ~page.loaded /\ ~page.locked /\ status = NoStatus /\ \A c \in Calls : call[c] = CallIdle
  BY DEF NothingYet, FreshPage
<1>5. ~Login
  <2>1. Login => page' = FreshPage
    BY DEF Login
  <2>2. ~FreshPage.loaded
    BY DEF FreshPage
  <2> QED
    BY <2>1, <2>2
<1>6. CASE StatusRead
  BY <1>6 DEF StatusRead
<1>7. CASE StatusArrives
  <2>1. page' = Rendered(page, status) /\ saved' = saved /\ status # NoStatus
    BY <1>7 DEF StatusArrives
  <2>2. ~page.touched /\ ~page.busy
    BY <1>2, <2>1, RenderedIs
  <2>3. status.amount = saved
    BY <2>1, <2>2 DEF StatusIsSaved
  <2> QED
    BY <1>2, <2>1, <2>2, <2>3, RenderedIs
<1>8. ~MoveSlider
  BY <1>2 DEF MoveSlider, Pages
<1>9. CASE Teardown
  <2>1. saved' = saved /\ Defaulted = saved
    BY <1>3, <1>4, <1>9 DEF Teardown
  <2> QED
    BY <1>9, <2>1, TeardownIs
<1>10. \A c \in Calls : ~ClickSetup(c)
  BY <1>2 DEF ClickSetup, Pages
<1>11. ASSUME NEW c \in Calls, Answer(c)
       PROVE  Distance(page'.slider, saved') <= Distance(t, saved')
  <2>1. saved' = saved /\ Defaulted = saved
    BY <1>3, <1>4, <1>11 DEF Answer, CallIdle
  <2>2. CASE call[c].here
    BY <1>11, <2>1, <2>2, AnswerIs
  <2>3. CASE ~call[c].here
    BY <1>1, <1>11, <2>1, <2>3 DEF Answer
  <2> QED
    BY <2>2, <2>3
<1>12. CASE CliLogin
  BY <1>12 DEF CliLogin, CliHasNoPage
<1>13. \A c \in Calls : ~CliChooses(c)
  BY DEF CliChooses, CliHasNoPage
<1>14. CASE UNCHANGED vars
  BY <1>1, <1>14 DEF vars
<1>15. CASE \E c \in Calls : Update(c) \/ UpdateFails(c) \/ CreateVM(c)
  BY <1>1, <1>15 DEF Update, UpdateFails, CreateVM
<1> QED
  BY <1>5, <1>6, <1>7, <1>8, <1>9, <1>10, <1>11, <1>12, <1>13, <1>14, <1>15 DEF Next

-----------------------------------------------------------------------------
(***************************************************************************)
(* The theorems                                                            *)
(***************************************************************************)
\* Nothing is saved at first.
LEMMA InitInv == Init => Inv
<1> SUFFICES ASSUME Init PROVE Inv
  OBVIOUS
<1>1. /\ host \in Hosts /\ saved = None /\ cloud = None /\ vm = None /\ ~chosen
      /\ page = FreshPage /\ status = NoStatus /\ call = [c \in Calls |-> CallIdle]
  BY DEF Init
<1>2. chosen \in BOOLEAN /\ lost \in BOOLEAN
  BY DEF Init
<1>3. FreshPage \in Pages /\ FreshPage.slider \in Stops(FreshPage.max) /\ NoStatus \in Answers
  BY <1>1, FreshPageIs
<1>4. CallIdle \in Jobs /\ CallIdle.want = None /\ CallIdle.step = "idle" /\ ~CallIdle.here
  BY DEF CallIdle, Jobs
<1>5. TypeInv
  BY <1>1, <1>2, <1>3, <1>4 DEF TypeInv
<1>6. NothingYet /\ DefaultIsKept /\ StatusIsSaved
  BY <1>1 DEF NothingYet, DefaultIsKept, StatusIsSaved
<1>7. CliHasNoPage /\ PageIsOfHost /\ SliderShowsSaved
  BY <1>1, <1>4 DEF CliHasNoPage, PageIsOfHost, SliderShowsSaved, FreshPage
<1>8. EverythingFits
  <2>1. Limit \in Nat /\ None <= Limit
    BY <1>1, HostIs DEF Limit, None
  <2> QED
    BY <1>1, <1>4, <2>1 DEF EverythingFits
<1>9. CloudIsTold
  BY <1>1, <1>4 DEF CloudIsTold, Updating
<1> QED
  BY <1>5, <1>6, <1>7, <1>8, <1>9 DEF Inv

\* The invariant is inductive.
LEMMA Invariant == Spec => []Inv
<1>1. Inv /\ [Next]_vars => Inv'
  BY StepType, StepNothing, StepCli, StepMax, StepDefault, StepFits, StepCloud, StepStatus,
     StepSlider DEF Inv
<1> QED
  BY InitInv, <1>1, PTL DEF Spec

(* Nothing that is chosen, kept, sent or used is ever less than the sliders'
   minimum, and a slider never stands between two of its stops. *)
THEOREM TypeCorrect == Spec => []TypeOK
<1>1. Inv => TypeOK
  BY DEF Inv, TypeInv, TypeOK, Pages, Answers, Jobs
<1> QED
  BY Invariant, <1>1, PTL

(* device_info.py:23-31: until somebody chooses, every computer keeps the whole
   number nearest to the half of what was detected, or the least there is. *)
THEOREM DefaultIsNearHalf == Spec => []DefaultIsHalf
<1>1. Inv => DefaultIsHalf
  BY DefaultIs DEF Inv, TypeInv, DefaultIsKept, DefaultIsHalf
<1> QED
  BY Invariant, <1>1, PTL

(* cli.py:115-124, api.py:92-93: what is saved and what the VM was created with
   fits every computer; a slider alone can exceed it, by half a GB. *)
THEOREM Fits == Spec => []AllocationFits
<1>1. Inv => AllocationFits
  BY DEF Inv, EverythingFits, Limit, AllocationFits
<1> QED
  BY Invariant, <1>1, PTL

(* app.js:65-84, 126-129: a loaded page that nobody touched shows the stop nearest
   to the saved allocation, whatever calls ran, answered and were left behind. *)
THEOREM SliderIsRight == Spec => []SliderShowsSaved
<1>1. Inv => SliderShowsSaved
  BY DEF Inv
<1> QED
  BY Invariant, <1>1, PTL

(* api.py:99-114, cli.py:145-156: when no update was lost, and none is on its way,
   Cloud has what is saved. *)
THEOREM CloudIsRight == Spec => []CloudKnowsSaved
<1>1. Inv => CloudKnowsSaved
  BY DEF Inv, CloudIsTold, Updating, CloudKnowsSaved
<1> QED
  BY Invariant, <1>1, PTL

=============================================================================
