----------------------------- MODULE Scheduler -----------------------------
(***************************************************************************)
(* run_scheduler, the rows of ScanSchedule, the daily report and the two    *)
(* forms that edit what it reads.  A pass takes the time once, sends the    *)
(* daily report when it is due, fetches the due schedules and scans them    *)
(* one after the other from the objects it fetched.  An exception from a    *)
(* scan or from a report is caught nowhere: the process ends and its        *)
(* supervisor starts it again.  Accounts are numbered in the order of their *)
(* names, the order of the schedule query.  Time is a counter; NULL in      *)
(* next_run_at is 0, which is due at any time.                              *)
(***************************************************************************)
EXTENDS Integers, FiniteSets

CONSTANTS
  Schedulers,        \* run_scheduler processes
  NumAccounts,       \* the accounts that exist initially
  Scheduled,         \* those that have a schedule initially
  Broken,            \* those whose scan raises out of run_scan_pipeline
  Deletable,         \* those an owner may delete
  Intervals,         \* the choices of interval_minutes
  DefaultInterval,   \* its default
  Endpoints,         \* active webhook endpoints that receive the daily report
  AIKey,             \* the stored key of the AI provider that writes the report
  MayNotDecrypt,     \* what is stored encrypted and may not decrypt (the key has changed)
  ReportHours,       \* the choices of daily_report_hour
  DayLength,         \* hours of a day
  MaxTime,           \* bound: last tick of the clock
  MaxEdits,          \* bound: number of forms submitted
  MaxCrashes         \* bound: number of scheduler crashes

Accounts == 1..NumAccounts
Times    == 0..MaxTime
Day(t)   == t \div DayLength
Hour(t)  == t % DayLength
Days     == 0..Day(MaxTime)

ASSUME SchedulerAssumption ==
  /\ NumAccounts \in Nat /\ MaxTime \in Nat /\ MaxEdits \in Nat /\ MaxCrashes \in Nat
  /\ DayLength \in Nat \ {0}
  /\ Scheduled \subseteq Accounts /\ Broken \subseteq Accounts
  /\ Deletable \subseteq Accounts
  /\ Intervals \subseteq Nat \ {0}
  /\ DefaultInterval \in Intervals
  /\ AIKey \notin Endpoints
  /\ MayNotDecrypt \subseteq Endpoints \cup {AIKey}
  /\ ReportHours \subseteq 0..(DayLength - 1)

VARIABLES
  time,
  \* the database
  accounts,   \* the rows of CloudAccount
  sched,      \* the row of ScanSchedule of each account, or NoRow
  settings,   \* the row of GlobalSettings: daily_report_enabled, _hour, last_..._date
  unreadable, \* the endpoints whose URL does not decrypt, AIKey when it does not
  \* the scheduler processes
  pc,         \* where each process is
  passNow,    \* the "now" of its pass
  pending,    \* the endpoints its report has yet to be sent to
  queue,      \* the schedule objects of its pass still to be scanned, by account name
  \* the web processes
  schedForm,      \* the row object a schedule form is about to save, or NoForm
  settingsForm,   \* the row object the settings form is about to save, or NoForm
  \* history
  edits,       \* forms submitted
  crashes,     \* scheduler crashes
  restUntil,   \* when the last mark_ran of an account, not edited since, said to scan again
  owed,        \* accounts whose schedule was saved as enabled and not scanned since
  attempted,   \* endpoints and days for which the report was posted, delivered or not
  delivered,   \* how often an endpoint got the report of a day; 2 is "twice or more"
  interrupted, \* days whose report was cut short or sent by two, or whose stamp was overwritten
  overtaken    \* overtaken[p]: accounts another process marked as run since p fetched its pass

dbVars      == <<accounts, sched, settings, unreadable>>
processVars == <<pc, passNow, pending, queue>>
formVars    == <<schedForm, settingsForm>>
history     == <<edits, crashes, restUntil, owed, attempted, delivered, interrupted, overtaken>>
vars        == <<time, dbVars, processVars, formVars, history>>

Rows     == [enabled : BOOLEAN, interval : Intervals, next : Nat]
NoRow    == [enabled |-> FALSE, interval |-> DefaultInterval, next |-> -1]
NewRow   == [enabled |-> TRUE, interval |-> DefaultInterval, next |-> 0]
NoForm   == [account |-> 0]
NoDay    == -1
Settings == [enabled : BOOLEAN, hour : ReportHours, last : Days \cup {NoDay}]

HasRow(a) == sched[a] # NoRow

\* is_due
IsDue(row, now) == row.enabled /\ row.next <= now

Init ==
  /\ time = 0
  /\ accounts = Accounts
  /\ sched = [a \in Accounts |-> IF a \in Scheduled THEN NewRow ELSE NoRow]
  /\ settings \in [enabled : BOOLEAN, hour : ReportHours, last : {NoDay}]
  /\ unreadable \in SUBSET MayNotDecrypt
  /\ pc = [p \in Schedulers |-> "off"]
  /\ passNow = [p \in Schedulers |-> 0]
  /\ pending = [p \in Schedulers |-> {}]
  /\ queue = [p \in Schedulers |-> {}]
  /\ schedForm = NoForm
  /\ settingsForm = NoForm
  /\ edits = 0
  /\ crashes = 0
  /\ restUntil = [a \in Accounts |-> 0]
  /\ owed = {}
  /\ attempted = {}
  /\ delivered = [e \in Endpoints |-> [d \in Days |-> 0]]
  /\ interrupted = {}
  /\ overtaken = [p \in Schedulers |-> {}]

Tick ==
  /\ time < MaxTime
  /\ time' = time + 1
  /\ UNCHANGED <<dbVars, processVars, formVars, history>>

-----------------------------------------------------------------------------
(* The web processes *)

\* account_schedule_update, get_or_create: a new row is enabled and due at once.
SubmitSchedule(a) ==
  /\ edits < MaxEdits
  /\ edits' = edits + 1
  /\ schedForm = NoForm
  /\ a \in accounts
  /\ sched' = IF HasRow(a) THEN sched
              ELSE [sched EXCEPT ![a] = NewRow]
  /\ schedForm' = [account |-> a, next |-> sched'[a].next]
  /\ UNCHANGED <<time, accounts, settings, unreadable, processVars, settingsForm, crashes, restUntil,
                 owed, attempted, delivered, interrupted, overtaken>>

\* ... and schedule.save(), every column: an enabled schedule becomes due now.  The
\* save fails on its foreign key when the account has gone.
SaveSchedule(enabled, interval) ==
  LET a == schedForm.account IN
  /\ schedForm # NoForm
  /\ schedForm' = NoForm
  /\ IF a \in accounts
     THEN /\ sched' = [sched EXCEPT ![a] =
                         [enabled  |-> enabled,
                          interval |-> interval,
                          next     |-> IF enabled THEN time ELSE schedForm.next]]
          /\ restUntil' = [restUntil EXCEPT ![a] = 0]
          /\ owed' = IF enabled THEN owed \cup {a} ELSE owed \ {a}
     ELSE UNCHANGED <<sched, restUntil, owed>>
  /\ UNCHANGED <<time, accounts, settings, unreadable, processVars, settingsForm, edits, crashes,
                 attempted, delivered, interrupted, overtaken>>

\* settings_view loads the row ...
SubmitSettings ==
  /\ edits < MaxEdits
  /\ edits' = edits + 1
  /\ settingsForm = NoForm
  /\ settingsForm' = [account |-> 0, last |-> settings.last]
  /\ UNCHANGED <<time, dbVars, processVars, schedForm, crashes, restUntil, owed, attempted,
                 delivered, interrupted, overtaken>>

\* Mutant: the form does not check the range of the hour.
SaveSettingsUnchecked(enabled, hour) ==
  /\ settingsForm # NoForm
  /\ settingsForm' = NoForm
  /\ settings' = [enabled |-> enabled, hour |-> hour + DayLength, last |-> settingsForm.last]
  /\ UNCHANGED <<time, accounts, sched, unreadable, processVars, schedForm, edits, crashes,
                 restUntil, owed, attempted, delivered, interrupted, overtaken>>

\* ... and saves every column of it, last_daily_report_date as it was loaded.
SaveSettings(enabled, hour) ==
  /\ settingsForm # NoForm
  /\ settingsForm' = NoForm
  /\ settings' = [enabled |-> enabled, hour |-> hour, last |-> settingsForm.last]
  /\ interrupted' = IF settingsForm.last # settings.last
                    THEN interrupted \cup {settings.last} ELSE interrupted
  /\ UNCHANGED <<time, accounts, sched, unreadable, processVars, schedForm, edits, crashes, restUntil,
                 owed, attempted, delivered, overtaken>>

\* The schedule goes with its account.
DeleteAccount(a) ==
  /\ a \in accounts \cap Deletable
  /\ accounts' = accounts \ {a}
  /\ sched' = [sched EXCEPT ![a] = NoRow]
  /\ owed' = owed \ {a}
  /\ UNCHANGED <<time, settings, unreadable, processVars, formVars, edits, crashes, restUntil,
                 attempted, delivered, interrupted, overtaken>>

-----------------------------------------------------------------------------
(* run_scheduler *)

Goto(p, from, to) == pc[p] = from /\ pc' = [pc EXCEPT ![p] = to]

\* The process ends and its memory is gone; a report it was sending is cut short.
Die(p) ==
  /\ pc' = [pc EXCEPT ![p] = "off"]
  /\ passNow' = [passNow EXCEPT ![p] = 0]
  /\ pending' = [pending EXCEPT ![p] = {}]
  /\ queue' = [queue EXCEPT ![p] = {}]
  /\ interrupted' = IF pc[p] = "report" THEN interrupted \cup {Day(passNow[p])}
                    ELSE interrupted

Start(p) ==
  /\ Goto(p, "off", "begin")
  /\ UNCHANGED <<time, dbVars, passNow, pending, queue, formVars, history>>

Wake(p) ==
  /\ Goto(p, "sleep", "begin")
  /\ UNCHANGED <<time, dbVars, passNow, pending, queue, formVars, history>>

\* Mutant: last_daily_report_date is not looked at.
ReportDueEveryPass(t) ==
  /\ settings.enabled
  /\ Hour(t) >= settings.hour

\* maybe_generate_daily_report's three early returns.
ReportDue(t) ==
  /\ settings.enabled
  /\ Hour(t) >= settings.hour
  /\ settings.last # Day(t)

\* now is taken, the report's conditions are checked and its briefing is generated.
PassBegins(p) ==
  /\ pc[p] = "begin"
  /\ ReportDue(time) => AIKey \notin unreadable
  /\ pc' = [pc EXCEPT ![p] = IF ReportDue(time) THEN "report" ELSE "fetch"]
  /\ passNow' = [passNow EXCEPT ![p] = time]
  /\ pending' = [pending EXCEPT ![p] = IF ReportDue(time) THEN Endpoints ELSE {}]
  /\ interrupted' = IF /\ ReportDue(time)
                        /\ \E q \in Schedulers : pc[q] = "report" /\ Day(passNow[q]) = Day(time)
                    THEN interrupted \cup {Day(time)} ELSE interrupted
  /\ UNCHANGED <<time, dbVars, queue, formVars, edits, crashes, restUntil, owed, attempted, delivered,
                 overtaken>>

\* The briefing asks the AI provider, whose key is decrypted outside the try.
BriefingRaises(p) ==
  /\ pc[p] = "begin"
  /\ ReportDue(time)
  /\ AIKey \in unreadable
  /\ Die(p)
  /\ UNCHANGED <<time, dbVars, formVars, edits, crashes, restUntil, owed, attempted, delivered, overtaken>>

\* _send_briefing: the post succeeds, or fails with a RequestException and is skipped.
SendReport(p, e) ==
  LET d == Day(passNow[p]) IN
  /\ pc[p] = "report"
  /\ e \in pending[p] \ unreadable
  /\ pending' = [pending EXCEPT ![p] = @ \ {e}]
  /\ attempted' = attempted \cup {<<e, d>>}
  /\ \/ delivered' = [delivered EXCEPT ![e][d] = IF @ = 2 THEN 2 ELSE @ + 1]
     \/ UNCHANGED delivered
  /\ UNCHANGED <<time, dbVars, pc, passNow, queue, formVars, edits, crashes, restUntil, owed,
                 interrupted, overtaken>>

\* decrypt_text raises, outside the try: the pass and the process end here.
ReportRaises(p, e) ==
  /\ pc[p] = "report"
  /\ e \in pending[p] \cap unreadable
  /\ Die(p)
  /\ UNCHANGED <<time, dbVars, formVars, edits, crashes, restUntil, owed, attempted, delivered, overtaken>>

\* Mutant: the date is saved before the endpoints were tried.
StampReportFirst(p) ==
  /\ Goto(p, "report", "fetch")
  /\ settings' = [settings EXCEPT !.last = Day(passNow[p])]
  /\ UNCHANGED <<time, accounts, sched, unreadable, passNow, pending, queue, formVars,
                 history>>

\* last_daily_report_date is saved once every endpoint was tried.
StampReport(p) ==
  /\ Goto(p, "report", "fetch")
  /\ pending[p] = {}
  /\ settings' = [settings EXCEPT !.last = Day(passNow[p])]
  /\ interrupted' = IF settings.last > Day(passNow[p]) THEN interrupted \cup {settings.last}
                    ELSE interrupted
  /\ UNCHANGED <<time, accounts, sched, unreadable, passNow, pending, queue, formVars, edits, crashes,
                 restUntil, owed, attempted, delivered, overtaken>>

\* The schedule objects of the accounts in S, as they are in the database.
Objects(S) == {[account |-> a, interval |-> sched[a].interval] : a \in S}

\* Mutant: the loop does not ask is_due.
FetchEnabled(p) ==
  /\ Goto(p, "fetch", "loop")
  /\ queue' = [queue EXCEPT ![p] = Objects({a \in Accounts : sched[a].enabled})]
  /\ overtaken' = [overtaken EXCEPT ![p] = {}]
  /\ UNCHANGED <<time, dbVars, passNow, pending, formVars, edits, crashes, restUntil, owed, attempted,
                 delivered, interrupted>>

\* The schedule query: the objects of the due rows.
Fetch(p) ==
  /\ Goto(p, "fetch", "loop")
  /\ queue' = [queue EXCEPT ![p] = Objects({a \in Accounts : IsDue(sched[a], passNow[p])})]
  /\ overtaken' = [overtaken EXCEPT ![p] = {}]
  /\ UNCHANGED <<time, dbVars, passNow, pending, formVars, edits, crashes, restUntil, owed, attempted,
                 delivered, interrupted>>

\* The loop is at object r: the objects are scanned in the order of the account names.
IsAt(p, r) == r \in queue[p] /\ \A q \in queue[p] : r.account <= q.account

ScanBegins(p, r) ==
  /\ Goto(p, "loop", "scan")
  /\ IsAt(p, r)
  /\ owed' = owed \ {r.account}
  /\ UNCHANGED <<time, dbVars, passNow, pending, queue, formVars, edits, crashes, restUntil,
                 attempted, delivered, interrupted, overtaken>>

\* run_scan_pipeline returned, with a scan that succeeded or failed.
ScanReturns(p, r) ==
  /\ Goto(p, "scan", "mark")
  /\ IsAt(p, r)
  /\ r.account \in accounts \ Broken
  /\ UNCHANGED <<time, dbVars, passNow, pending, queue, formVars, history>>

\* run_scan_pipeline raised: credentials that do not decrypt, an account deleted.
ScanRaises(p, r) ==
  /\ pc[p] = "scan"
  /\ IsAt(p, r)
  /\ r.account \in Broken \/ r.account \notin accounts
  /\ Die(p)
  /\ UNCHANGED <<time, dbVars, formVars, edits, crashes, restUntil, owed, attempted, delivered, overtaken>>


\* mark_ran, with the time of now and the interval of the object fetched before.
MarkRan(p, r) ==
  /\ Goto(p, "mark", "loop")
  /\ IsAt(p, r)
  /\ HasRow(r.account)
  /\ sched' = [sched EXCEPT ![r.account].next = time + r.interval]
  /\ restUntil' = [restUntil EXCEPT ![r.account] = time + r.interval]
  /\ queue' = [queue EXCEPT ![p] = @ \ {r}]
  /\ overtaken' = [q \in Schedulers |-> IF q = p THEN overtaken[q] ELSE overtaken[q] \cup {r.account}]
  /\ UNCHANGED <<time, accounts, settings, unreadable, passNow, pending, formVars, edits, crashes, owed,
                 attempted, delivered, interrupted>>

\* ... raises DatabaseError when the row went with its account.
MarkGone(p, r) ==
  /\ pc[p] = "mark"
  /\ IsAt(p, r)
  /\ ~HasRow(r.account)
  /\ Die(p)
  /\ UNCHANGED <<time, dbVars, formVars, edits, crashes, restUntil, owed, attempted, delivered, overtaken>>

PassEnds(p) ==
  /\ Goto(p, "loop", "sleep")
  /\ queue[p] = {}
  /\ UNCHANGED <<time, dbVars, passNow, pending, queue, formVars, history>>

Crash(p) ==
  /\ pc[p] # "off"
  /\ crashes < MaxCrashes
  /\ crashes' = crashes + 1
  /\ Die(p)
  /\ UNCHANGED <<time, dbVars, formVars, edits, restUntil, owed, attempted, delivered, overtaken>>

-----------------------------------------------------------------------------
PassStep(p) ==
  \/ PassBegins(p) \/ BriefingRaises(p) \/ StampReport(p) \/ Fetch(p) \/ PassEnds(p)
  \/ \E r \in queue[p] : \/ ScanBegins(p, r) \/ ScanReturns(p, r) \/ ScanRaises(p, r)
                         \/ MarkRan(p, r) \/ MarkGone(p, r)
  \/ \E e \in Endpoints : SendReport(p, e) \/ ReportRaises(p, e)

Next ==
  \/ Tick
  \/ \E a \in Accounts : SubmitSchedule(a) \/ DeleteAccount(a)
  \/ \E on \in BOOLEAN, i \in Intervals : SaveSchedule(on, i)
  \/ SubmitSettings
  \/ \E on \in BOOLEAN, h \in ReportHours : SaveSettings(on, h)
  \/ \E p \in Schedulers : Start(p) \/ Wake(p) \/ PassStep(p) \/ Crash(p)

Spec == Init /\ [][Next]_vars

\* The --loop scheduler is supervised (restart: unless-stopped) and its sleeps and
\* network calls end; a submitted form is saved.  The clock owes nothing.
FairSpec ==
  /\ Spec
  /\ \A p \in Schedulers : WF_vars(Start(p)) /\ WF_vars(Wake(p)) /\ WF_vars(PassStep(p))
  /\ WF_vars(\E on \in BOOLEAN, i \in Intervals : SaveSchedule(on, i))

-----------------------------------------------------------------------------
(* Properties *)

TypeOK ==
  /\ time \in Times
  /\ accounts \subseteq Accounts
  /\ sched \in [Accounts -> Rows \cup {NoRow}]
  /\ settings \in Settings
  /\ unreadable \subseteq MayNotDecrypt
  /\ pc \in [Schedulers -> {"off", "begin", "report", "fetch", "loop", "scan", "mark", "sleep"}]
  /\ passNow \in [Schedulers -> Times]
  /\ pending \in [Schedulers -> SUBSET Endpoints]
  /\ queue \in [Schedulers -> SUBSET [account : Accounts, interval : Intervals]]
  /\ schedForm \in [account : Accounts, next : Nat] \cup {NoForm}
  /\ settingsForm \in [account : {0}, last : Days \cup {NoDay}] \cup {NoForm}
  /\ edits \in 0..MaxEdits
  /\ crashes \in 0..MaxCrashes
  /\ restUntil \in [Accounts -> Nat]
  /\ owed \subseteq Accounts
  /\ attempted \subseteq Endpoints \X Days
  /\ delivered \in [Endpoints -> [Days -> 0..2]]
  /\ interrupted \subseteq Days \cup {NoDay}
  /\ overtaken \in [Schedulers -> SUBSET Accounts]

\* "then advances it by interval_minutes" (models.py:147): no scheduler scans an account
\* again before the interval after its last run has passed, unless the schedule was edited
\* since, or it had fetched the schedule before another scheduler ran it; crashes and the
\* objects fetched earlier in the pass change nothing.
IntervalIsKept ==
  [][\A p \in Schedulers : \A r \in queue[p] :
       IsAt(p, r) /\ pc[p] # "scan" /\ pc'[p] = "scan" =>
         restUntil[r.account] <= time \/ r.account \in overtaken[p]]_vars

\* "executes every schedule whose next_run_at is due" (models.py:145-147): a due schedule
\* of an account that can be scanned stops being due one day: it was run, edited or
\* deleted.
DueIsScanned ==
  \A a \in Accounts \ Broken : IsDue(sched[a], time) /\ HasRow(a) ~> ~IsDue(sched[a], time)

\* The passes end before they scan a: the report is due and cannot be written or sent, or
\* an account that comes before a is due and its scan raises.
Blocked(a) ==
  \/ ReportDue(time) /\ unreadable # {}
  \/ \E b \in Broken : b < a /\ IsDue(sched[b], time)


\* "A newly enabled or re-tuned schedule becomes due immediately" (views.py:498): it is
\* due from the save until a scan of the account begins.
EditedIsDue == \A a \in owed : IsDue(sched[a], time)

\* The report is stamped as sent only after every endpoint was tried: a crash may repeat
\* a day's report, never lose it.
ReportNotSkipped ==
  settings.last # NoDay =>
    \A e \in Endpoints : <<e, settings.last>> \in attempted

\* An endpoint gets the report of a day twice only if a scheduler went down while it sent
\* that report, two were sending it at once, or the settings form or a scheduler that ended
\* the day before's report late wrote an old date back.  (Of the schedulers' reports: the
\* jobs of the kind daily_report, services.py:244, send one whenever they run.)
RepeatHasCause ==
  \A e \in Endpoints, d \in Days : delivered[e][d] > 1 => d \in interrupted
=============================================================================
