---------------------------- MODULE Reliability ----------------------------
(***************************************************************************)
(* The availability objective of a monitor.  Its error budget is computed  *)
(* twice: by the worker, which opens and closes an incident after a check, *)
(* and by the API for the page of objectives.  Meanwhile time passes, the  *)
(* objective is edited and old checks are removed.  The public page counts *)
(* the same checks.                                                        *)
(***************************************************************************)
EXTENDS Integers, FiniteSetsExt

CONSTANTS
  Targets,           \* objectives in hundredths of a per cent, 9000..10000
  Windows,           \* windows of an objective, in days
  MinChecks,         \* 5 in the code
  Retention,         \* EVENT_RETENTION_HOURS, in days
  StatusLimit,       \* 200 in the code: the checks the public page reads
  PageLimit,         \* checks of this monitor among the 20 000 the other page reads
  Earlier,           \* how many healthy checks there may be at first
  MaxDays, MaxChecks, MaxDown, MaxObjectives   \* bounds

ASSUME ReliabilityAssumption ==
  /\ Targets \subseteq 9000..10000 /\ Targets # {}
  /\ Windows \subseteq Nat \ {0} /\ Windows # {}
  /\ MinChecks \in Nat /\ Retention \in Nat \ {0}
  /\ StatusLimit \in Nat /\ PageLimit \in Nat
  /\ Earlier \subseteq Nat
  /\ MaxDays \in Nat /\ MaxChecks \in Nat /\ MaxDown \in Nat /\ MaxObjectives \in Nat

VARIABLES
  today,
  recorded,    \* per day: the checks that were healthy and those that were not
  keptFrom,    \* the first day whose checks are still there
  objective,   \* the monitor's target and window
  probing,     \* the objective as the worker read it before the check under way
  breachOpen,  \* whether an incident of the budget is open
  judged,      \* nothing has happened since the worker judged, by the objective there is
  edits

reliabilityVars ==
  <<today, recorded, keptFrom, objective, probing, breachOpen, judged, edits>>

Days == 0..MaxDays
NoProbe == [target |-> 0, window |-> 0]
NoChecks == [healthy |-> 0, failed |-> 0]

ReliabilityInit ==
  /\ today = 0 /\ keptFrom = 0
  /\ \E n \in Earlier : recorded = [[d \in Days |-> NoChecks] EXCEPT ![0].healthy = n]
  /\ objective \in [target : Targets, window : Windows]
  /\ probing = NoProbe /\ breachOpen = FALSE /\ judged = FALSE /\ edits = 0

-----------------------------------------------------------------------------
(* What a query counts.                                                    *)

Total(checks, days) ==
  [kind \in {"healthy", "failed"} |-> MapThenSumSet(LAMBDA d : checks[d][kind], days)]
Checks(found) == found.healthy + found.failed
InWindow(window) == {d \in Days : d <= today /\ d > today - window}
Query(checks, window) == Total(checks, {d \in InWindow(window) : d >= keptFrom})

(* A budget of n checks and 99.90 % is n / 1000 of a check, here times ten *)
(* thousand.  The failures may use it up exactly.                          *)
Budget(found, target) == Checks(found) * (10000 - target)
UsedUp(found, target) == 10000 * found.failed = Budget(found, target)

(* Worker and page compute it in double precision, the worker from the     *)
(* objective divided by 10000, the page from one divided by 100 twice.     *)
(* Each division is rounded, to a multiple of 2^-53 below 1 and of 2^-46   *)
(* below 128; what that adds is here in units of 2^-53 / 10000.  (2^53 and *)
(* 2^46 leave 992 and 7664 when divided by 10000, 128 is 2^53 / 2^46.)     *)
Rounded(rest, unit) == IF 2 * rest < unit THEN -rest ELSE unit - rest
WorkerError(target) == Rounded((target * 992) % 10000, 10000)
PageError(target) ==
  LET percent == target * 7664
      first == Rounded(percent % 100, 100)
      multiple == ((percent + first) \div 100) % 100
  IN  128 * first + 100 * Rounded((128 * multiple) % 100, 100)

(* The computed budget is more than the failures.  The error is too small  *)
(* to matter unless they use it up: then the budget is computed as a       *)
(* larger number if it lies more than half way to the next one, and those  *)
(* near 2^k are 2^(k-52) apart.                                            *)
Digits == 14                      \* MaxDown < 2^Digits
Left(found, target, error) ==
  IF UsedUp(found, target)
  THEN \E k \in 0..Digits - 1 :
         /\ 2^k <= found.failed /\ found.failed < 2^(k + 1)
         /\ -error * Checks(found) > 10000 * 2^k
  ELSE 10000 * found.failed < Budget(found, target)

(* The verdict of the API for a page, at_risk being one kind of healthy    *)
(* here, ...                                                               *)
SloStatus(found, target) ==
  IF Checks(found) < MinChecks THEN "no_data"
  ELSE IF Left(found, target, PageError(target)) THEN "healthy"
  ELSE "breached"

(* ... and that of the worker.                                             *)
Breached(found, target) ==
  found.failed > 0 /\ ~Left(found, target, WorkerError(target))

(* With fewer checks the incident stays as it is.                          *)
JudgeOnce(found, target) ==
  IF Checks(found) < MinChecks THEN breachOpen ELSE breachOpen \/ Breached(found, target)
Judge(found, target) ==
  IF Checks(found) < MinChecks THEN breachOpen ELSE Breached(found, target)

(* The page is asked for a window of its own, and possibly for another     *)
(* target.  It reads the latest checks up to its limit: here any, if there *)
(* are more.                                                               *)
Own == 0
ReadByPage(window) ==
  LET all == Query(recorded, window)
  IN  IF Checks(all) <= PageLimit THEN {all}
      ELSE {found \in [healthy : 0..all.healthy, failed : 0..all.failed] :
              Checks(found) = PageLimit}
OnPage(window, given) ==
  {SloStatus(found, IF given = Own THEN objective.target ELSE given) :
     found \in ReadByPage(window)}

-----------------------------------------------------------------------------
ProbeStarts ==
  /\ probing = NoProbe
  /\ Checks(Total(recorded, Days)) < MaxChecks
  /\ probing' = objective
  /\ UNCHANGED <<today, recorded, keptFrom, objective, breachOpen, judged, edits>>

(* One transaction: the check is inserted, then the window is counted.     *)
ProbeEnds(outcome) ==
  /\ probing # NoProbe
  /\ outcome = "failed" => Total(recorded, Days).failed < MaxDown
  /\ LET now == [recorded EXCEPT ![today][outcome] = @ + 1]
     IN  /\ recorded' = now
         /\ breachOpen' = Judge(Query(now, probing.window), probing.target)
  /\ judged' = (probing = objective)
  /\ probing' = NoProbe
  /\ UNCHANGED <<today, keptFrom, objective, edits>>

(* A check that did not come to its end records nothing.                   *)
ProbeLost ==
  /\ probing # NoProbe /\ probing' = NoProbe
  /\ UNCHANGED <<today, recorded, keptFrom, objective, breachOpen, judged, edits>>

EditObjective(new) ==
  /\ new # objective /\ edits < MaxObjectives
  /\ objective' = new /\ edits' = edits + 1 /\ judged' = FALSE
  /\ UNCHANGED <<today, recorded, keptFrom, probing, breachOpen>>

DayPasses ==
  /\ today < MaxDays
  /\ today' = today + 1 /\ judged' = FALSE
  /\ UNCHANGED <<recorded, keptFrom, objective, probing, breachOpen, edits>>

(* cleanupExpiredData removes checks by the age of payloads.               *)
ChecksExpire ==
  /\ keptFrom <= today - Retention
  /\ keptFrom' = today - Retention + 1 /\ judged' = FALSE
  /\ UNCHANGED <<today, recorded, objective, probing, breachOpen, edits>>

ReliabilityNext ==
  \/ ProbeStarts \/ ProbeLost \/ DayPasses \/ ChecksExpire
  \/ \E outcome \in {"healthy", "failed"} : ProbeEnds(outcome)
  \/ \E target \in Targets, window \in Windows :
       EditObjective([target |-> target, window |-> window])

ReliabilitySpec == ReliabilityInit /\ [][ReliabilityNext]_reliabilityVars

-----------------------------------------------------------------------------
(* Properties.                                                             *)

(* The incident of the worker and the verdict of the page agree: once the  *)
(* worker judged with the objective there is, on enough checks, a page     *)
(* that is asked for its window and reads all of it calls the budget       *)
(* breached exactly when the incident is open.  Not so without a failure   *)
(* (BreachNeedsFailure), where the failures use the budget up exactly      *)
(* (ExhaustedOpens) and for another window (WindowOfObjective).            *)
Counted == Query(recorded, objective.window)
Comparable ==
  judged /\ Counted.failed > 0 /\ MinChecks <= Checks(Counted) /\ Checks(Counted) <= PageLimit
VerdictsAgree ==
  Comparable /\ ~UsedUp(Counted, objective.target) =>
    \A status \in OnPage(objective.window, Own) : breachOpen <=> status = "breached"

(* When a monitor exhausts its budget there is an incident: does not hold  *)
(* where the failures use it up exactly.  Of 99.90 % and 1000 checks the   *)
(* worker's budget is 1.0000000000000009, the page's 0.9999999999999.      *)
ExhaustedOpens ==
  Comparable /\ "breached" \in OnPage(objective.window, Own) => breachOpen

(* The page's verdict is about the objective's window: does not hold, it   *)
(* is about the window the page is asked for, first seven days.            *)
DefaultWindow == 7
WindowOfObjective ==
  judged /\ Checks(Counted) >= MinChecks
      /\ "breached" \in OnPage(DefaultWindow, Own)
      /\ Query(recorded, DefaultWindow).failed > 0
      /\ ~UsedUp(Query(recorded, DefaultWindow), objective.target)
    => breachOpen

(* A breach means that recorded failures exhausted the budget: does not    *)
(* hold for an objective of 100 %, whose budget is nothing from the start. *)
BreachNeedsFailure ==
  "breached" \in OnPage(objective.window, Own) => Counted.failed > 0

(* The verdict rests on every check of the window: does not hold, checks   *)
(* are removed by the retention of payloads, three days unless configured. *)
WholeWindow ==
  judged => Counted = Total(recorded, InWindow(objective.window))

(* The public page shows the latest checks of a day: does not hold, it     *)
(* reads the first StatusLimit of them, and an interval of five minutes    *)
(* makes 288.                                                              *)
OnPublicPage(found) == Min({StatusLimit, Checks(found)})
LatestShown == Checks(Query(recorded, 1)) = OnPublicPage(Query(recorded, 1))
=============================================================================
