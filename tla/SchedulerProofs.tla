-------------------------- MODULE SchedulerProofs --------------------------
(***************************************************************************)
(* Proofs about Scheduler, for any number of schedulers, accounts,          *)
(* endpoints, hours, edits and crashes: its types; that the daily report is *)
(* stamped only when every endpoint was tried; that it is repeated only for *)
(* one of the named causes; and that no account is scanned again before its *)
(* interval has passed.  DueIsScanned, a liveness property, stays with TLC.  *)
(***************************************************************************)
EXTENDS Scheduler, TLAPS

-----------------------------------------------------------------------------
(* Days *)

\* Days follow one another as the hours do.
LEMMA DayMonotone ==
  ASSUME NEW s \in Nat, NEW t \in Nat, s <= t
  PROVE  Day(s) <= Day(t) /\ Day(s) \in Nat
BY SchedulerAssumption DEF Day

\* The day of a time the clock reaches is one of the days.
LEMMA DayOfTime ==
  ASSUME NEW t \in Times
  PROVE  t \in Nat /\ Day(t) \in Days /\ Day(t) # NoDay
<1>1. t \in Nat /\ t <= MaxTime /\ MaxTime \in Nat
  BY SchedulerAssumption DEF Times
<1> QED
  BY <1>1, DayMonotone DEF Days, NoDay

-----------------------------------------------------------------------------
(* Types *)

\* A row that is there has the columns of a row.
LEMMA RowOf ==
  ASSUME sched \in [Accounts -> Rows \cup {NoRow}], NEW a \in Accounts, HasRow(a)
  PROVE  sched[a] \in Rows
BY DEF HasRow

\* get_or_create makes a row; what stands for no row is none.
LEMMA NewRowIsRow == NewRow \in Rows /\ NoRow \notin Rows /\ NewRow # NoRow
<1>1. NewRow \in Rows
  BY SchedulerAssumption DEF NewRow, Rows
<1>2. NoRow \notin Rows
  <2>1. \A r \in Rows : r.next \in Nat
    BY DEF Rows
  <2>2. NoRow.next = -1
    BY DEF NoRow
  <2> QED
    BY <2>1, <2>2
<1> QED
  BY <1>1, <1>2

\* The initial rows, the settings and the processes that are off.
LEMMA InitTypeOK == Init => TypeOK
<1> SUFFICES ASSUME Init PROVE TypeOK
  OBVIOUS
<1>1. time \in Times /\ edits \in 0..MaxEdits /\ crashes \in 0..MaxCrashes
  BY SchedulerAssumption DEF Init, Times
<1>2. passNow \in [Schedulers -> Times]
  BY SchedulerAssumption DEF Init, Times
<1>3. sched \in [Accounts -> Rows \cup {NoRow}]
  BY NewRowIsRow DEF Init
<1>4. delivered \in [Endpoints -> [Days -> 0..2]]
  BY DEF Init
<1>5. settings \in Settings
  BY DEF Init, Settings
<1>6. restUntil \in [Accounts -> Nat]
  BY DEF Init
<1>7. /\ accounts \subseteq Accounts /\ unreadable \subseteq MayNotDecrypt
      /\ pc \in [Schedulers -> {"off", "begin", "report", "fetch", "loop", "scan", "mark", "sleep"}]
      /\ pending \in [Schedulers -> SUBSET Endpoints]
      /\ queue \in [Schedulers -> SUBSET [account : Accounts, interval : Intervals]]
      /\ schedForm \in [account : Accounts, next : Nat] \cup {NoForm}
      /\ settingsForm \in [account : {0}, last : Days \cup {NoDay}] \cup {NoForm}
      /\ owed \subseteq Accounts /\ attempted \subseteq Endpoints \X Days
      /\ interrupted \subseteq Days \cup {NoDay}
      /\ overtaken \in [Schedulers -> SUBSET Accounts]
  BY DEF Init
<1> QED
  BY <1>1, <1>2, <1>3, <1>4, <1>5, <1>6, <1>7 DEF TypeOK

\* What is left of a process that ends.
LEMMA DieTypeOK ==
  ASSUME TypeOK, NEW p \in Schedulers, Die(p)
  PROVE  /\ pc' \in [Schedulers -> {"off", "begin", "report", "fetch", "loop", "scan", "mark", "sleep"}]
         /\ passNow' \in [Schedulers -> Times]
         /\ pending' \in [Schedulers -> SUBSET Endpoints]
         /\ queue' \in [Schedulers -> SUBSET [account : Accounts, interval : Intervals]]
         /\ interrupted' \subseteq Days \cup {NoDay}
<1>1. 0 \in Times
  BY SchedulerAssumption DEF Times
<1>2. Day(passNow[p]) \in Days
  BY DayOfTime DEF TypeOK
<1> QED
  BY <1>1, <1>2 DEF Die, TypeOK

\* Every step keeps the types: deadlines stay numbers because intervals are, and days stay
\* days because the clock does.
LEMMA TypeStep ==
  ASSUME TypeOK, [Next]_vars
  PROVE  TypeOK'
<1>a. \A t \in Times : Day(t) \in Days
  BY DayOfTime
<1>b. /\ MaxTime \in Nat /\ MaxEdits \in Nat /\ MaxCrashes \in Nat /\ Intervals \subseteq Nat
  BY SchedulerAssumption
<1> USE DEF TypeOK, Goto, dbVars, processVars, formVars, history
<1>1. CASE Tick
  <2>1. time' \in Times
    BY <1>1, <1>b DEF Tick, Times
  <2> QED
    BY <1>1, <2>1 DEF Tick
<1>2. CASE \E a \in Accounts : SubmitSchedule(a)
  <2>1. PICK a \in Accounts : SubmitSchedule(a)
    BY <1>2
  <2>2. sched' \in [Accounts -> Rows \cup {NoRow}] /\ sched'[a] \in Rows
    BY <2>1, NewRowIsRow DEF SubmitSchedule, HasRow
  <2>3. schedForm' \in [account : Accounts, next : Nat]
    BY <2>1, <2>2 DEF SubmitSchedule, Rows
  <2>4. edits' \in 0..MaxEdits
    BY <2>1, <1>b DEF SubmitSchedule
  <2> QED
    BY <2>1, <2>2, <2>3, <2>4 DEF SubmitSchedule
<1>3. CASE \E a \in Accounts : DeleteAccount(a)
  BY <1>3 DEF DeleteAccount
<1>4. CASE \E on \in BOOLEAN, i \in Intervals : SaveSchedule(on, i)
  <2>1. PICK on \in BOOLEAN, i \in Intervals : SaveSchedule(on, i)
    BY <1>4
  <2>2. schedForm \in [account : Accounts, next : Nat] /\ time \in Nat
    BY <2>1 DEF SaveSchedule, Times
  <2>3. [enabled |-> on, interval |-> i, next |-> IF on THEN time ELSE schedForm.next] \in Rows
    BY <2>2 DEF Rows
  <2>4. /\ sched' \in [Accounts -> Rows \cup {NoRow}]
        /\ restUntil' \in [Accounts -> Nat] /\ owed' \subseteq Accounts
    BY <2>1, <2>2, <2>3 DEF SaveSchedule
  <2> QED
    BY <2>1, <2>4 DEF SaveSchedule
<1>5. CASE SubmitSettings
  <2>1. settings.last \in Days \cup {NoDay}
    BY DEF Settings
  <2> QED
    BY <1>5, <1>b, <2>1 DEF SubmitSettings
<1>6. CASE \E on \in BOOLEAN, h \in ReportHours : SaveSettings(on, h)
  <2>1. PICK on \in BOOLEAN, h \in ReportHours : SaveSettings(on, h)
    BY <1>6
  <2>2. settingsForm.last \in Days \cup {NoDay} /\ settings.last \in Days \cup {NoDay}
    BY <2>1 DEF SaveSettings, Settings
  <2>3. settings' \in Settings /\ interrupted' \subseteq Days \cup {NoDay}
    BY <2>1, <2>2 DEF SaveSettings, Settings
  <2> QED
    BY <2>1, <2>3 DEF SaveSettings
<1>7. CASE \E p \in Schedulers : Start(p)
  BY <1>7 DEF Start
<1>8. CASE \E p \in Schedulers : Wake(p)
  BY <1>8 DEF Wake
<1>9. CASE \E p \in Schedulers : PassBegins(p)
  BY <1>9, <1>a DEF PassBegins
<1>10. CASE \E p \in Schedulers, e \in Endpoints : SendReport(p, e)
  <2>1. PICK p \in Schedulers, e \in Endpoints : SendReport(p, e)
    BY <1>10
  <2>2. Day(passNow[p]) \in Days
    BY <1>a
  <2>3. delivered' \in [Endpoints -> [Days -> 0..2]]
    BY <2>1, <2>2 DEF SendReport
  <2> QED
    BY <2>1, <2>2, <2>3 DEF SendReport
<1>11. CASE \/ \E p \in Schedulers : BriefingRaises(p)
           \/ \E p \in Schedulers, e \in Endpoints : ReportRaises(p, e)
  BY <1>11, DieTypeOK DEF BriefingRaises, ReportRaises
<1>12. CASE \E p \in Schedulers : StampReport(p)
  <2>1. PICK p \in Schedulers : StampReport(p)
    BY <1>12
  <2>2. Day(passNow[p]) \in Days /\ settings.last \in Days \cup {NoDay}
    BY <1>a DEF Settings
  <2>3. settings' \in Settings /\ interrupted' \subseteq Days \cup {NoDay}
    BY <2>1, <2>2 DEF StampReport, Settings
  <2> QED
    BY <2>1, <2>3 DEF StampReport
<1>13. CASE \E p \in Schedulers : Fetch(p)
  <2>1. PICK p \in Schedulers : Fetch(p)
    BY <1>13
  <2>2. \A a \in Accounts : sched[a].interval \in Intervals
    BY SchedulerAssumption DEF Rows, NoRow
  <2>3. queue' \in [Schedulers -> SUBSET [account : Accounts, interval : Intervals]]
    BY <2>1, <2>2 DEF Fetch, Objects
  <2> QED
    BY <2>1, <2>3 DEF Fetch
<1>14. CASE \E p \in Schedulers : \E r \in queue[p] : ScanBegins(p, r)
  BY <1>14 DEF ScanBegins
<1>15. CASE \E p \in Schedulers : \E r \in queue[p] : ScanReturns(p, r)
  BY <1>15 DEF ScanReturns
<1>16. CASE \E p \in Schedulers : \E r \in queue[p] : ScanRaises(p, r)
  BY <1>16, DieTypeOK DEF ScanRaises
<1>17. CASE \E p \in Schedulers : \E r \in queue[p] : MarkRan(p, r)
  <2>1. PICK p \in Schedulers : \E r \in queue[p] : MarkRan(p, r)
    BY <1>17
  <2>2. PICK r \in queue[p] : MarkRan(p, r)
    BY <2>1
  <2>3. r.account \in Accounts /\ r.interval \in Nat /\ time \in Nat
    <3>1. r \in [account : Accounts, interval : Intervals]
      BY <2>2
    <3>2. time \in Nat
      BY <1>b DEF Times
    <3> QED
      BY <1>b, <3>1, <3>2
  <2>4. sched[r.account] \in Rows
    BY <2>2, <2>3, RowOf DEF MarkRan
  <2>5. sched' \in [Accounts -> Rows \cup {NoRow}]
    BY <2>2, <2>3, <2>4 DEF MarkRan, Rows
  <2> QED
    BY <2>2, <2>3, <2>5 DEF MarkRan
<1>18. CASE \E p \in Schedulers : \E r \in queue[p] : MarkGone(p, r)
  BY <1>18, DieTypeOK DEF MarkGone
<1>19. CASE \E p \in Schedulers : PassEnds(p)
  BY <1>19 DEF PassEnds
<1>20. CASE \E p \in Schedulers : Crash(p)
  BY <1>20, <1>b, DieTypeOK DEF Crash
<1>21. CASE UNCHANGED vars
  BY <1>21 DEF vars
<1> QED
  BY <1>1, <1>2, <1>3, <1>4, <1>5, <1>6, <1>7, <1>8, <1>9, <1>10, <1>11, <1>12, <1>13,
     <1>14, <1>15, <1>16, <1>17, <1>18, <1>19, <1>20, <1>21 DEF Next, PassStep

\* The types of the scheduler's model: whatever is fetched, edited or stamped.
THEOREM TypeCorrect == Spec => []TypeOK
<1>1. TypeOK /\ [Next]_vars => TypeOK'
  BY TypeStep
<1> QED
  BY InitTypeOK, <1>1, PTL DEF Spec

-----------------------------------------------------------------------------
(* No report is skipped *)

\* No pass took a time that is still to come.
PassInThePast == \A p \in Schedulers : passNow[p] <= time

\* The report of day d was posted to every endpoint, delivered or not.
Tried(d) == d # NoDay => \A e \in Endpoints : <<e, d>> \in attempted

\* A day that is stamped, or that a form will write back, was tried; a pass has tried the
\* endpoints it no longer holds.
StampedIsTried ==
  /\ Tried(settings.last)
  /\ settingsForm # NoForm => Tried(settingsForm.last)
  /\ \A p \in Schedulers : pc[p] = "report" =>
       \A e \in Endpoints \ pending[p] : <<e, Day(passNow[p])>> \in attempted

\* The stamp is taken when nothing is pending; the settings form can only write back a
\* date that was stamped before.
LEMMA TriedStep ==
  ASSUME TypeOK, StampedIsTried, [Next]_vars
  PROVE  StampedIsTried'
<1> USE DEF TypeOK, StampedIsTried, Tried, Goto, dbVars, processVars, formVars, history
<1>1. CASE Tick
  BY <1>1 DEF Tick
<1>2. CASE \E a \in Accounts : SubmitSchedule(a)
  BY <1>2 DEF SubmitSchedule
<1>3. CASE \E a \in Accounts : DeleteAccount(a)
  BY <1>3 DEF DeleteAccount
<1>4. CASE \E on \in BOOLEAN, i \in Intervals : SaveSchedule(on, i)
  BY <1>4 DEF SaveSchedule
<1>5. CASE SubmitSettings
  BY <1>5 DEF SubmitSettings, NoForm
<1>6. CASE \E on \in BOOLEAN, h \in ReportHours : SaveSettings(on, h)
  BY <1>6 DEF SaveSettings
<1>7. CASE \E p \in Schedulers : Start(p)
  BY <1>7 DEF Start
<1>8. CASE \E p \in Schedulers : Wake(p)
  BY <1>8 DEF Wake
<1>9. CASE \E p \in Schedulers : PassBegins(p)
  BY <1>9 DEF PassBegins
<1>10. CASE \E p \in Schedulers, e \in Endpoints : SendReport(p, e)
  <2>1. PICK p \in Schedulers, e \in Endpoints : SendReport(p, e)
    BY <1>10
  <2>2. /\ attempted' = attempted \cup {<<e, Day(passNow[p])>>}
        /\ pending' = [pending EXCEPT ![p] = @ \ {e}]
        /\ UNCHANGED <<settings, settingsForm, pc, passNow>>
    BY <2>1 DEF SendReport
  <2> QED
    BY <2>2
<1>11. CASE \/ \E p \in Schedulers : BriefingRaises(p)
           \/ \E p \in Schedulers, e \in Endpoints : ReportRaises(p, e)
  BY <1>11 DEF BriefingRaises, ReportRaises, Die
<1>12. CASE \E p \in Schedulers : StampReport(p)
  BY <1>12 DEF StampReport
<1>13. CASE \E p \in Schedulers : Fetch(p)
  BY <1>13 DEF Fetch
<1>14. CASE \E p \in Schedulers : \E r \in queue[p] : ScanBegins(p, r)
  BY <1>14 DEF ScanBegins
<1>15. CASE \E p \in Schedulers : \E r \in queue[p] : ScanReturns(p, r)
  BY <1>15 DEF ScanReturns
<1>16. CASE \E p \in Schedulers : \E r \in queue[p] : ScanRaises(p, r)
  BY <1>16 DEF ScanRaises, Die
<1>17. CASE \E p \in Schedulers : \E r \in queue[p] : MarkRan(p, r)
  BY <1>17 DEF MarkRan
<1>18. CASE \E p \in Schedulers : \E r \in queue[p] : MarkGone(p, r)
  BY <1>18 DEF MarkGone, Die
<1>19. CASE \E p \in Schedulers : PassEnds(p)
  BY <1>19 DEF PassEnds
<1>20. CASE \E p \in Schedulers : Crash(p)
  BY <1>20 DEF Crash, Die
<1>21. CASE UNCHANGED vars
  BY <1>21 DEF vars
<1> QED
  BY <1>1, <1>2, <1>3, <1>4, <1>5, <1>6, <1>7, <1>8, <1>9, <1>10, <1>11, <1>12, <1>13,
     <1>14, <1>15, <1>16, <1>17, <1>18, <1>19, <1>20, <1>21 DEF Next, PassStep

\* last_daily_report_date names a day whose report was posted to every endpoint
\* (maybe_generate_daily_report): a crash, an endpoint that does not decrypt or a form that
\* writes an old date back may repeat a report, never skip one.
THEOREM NoReportSkipped == Spec => []ReportNotSkipped
<1>1. Init => StampedIsTried
  BY DEF Init, StampedIsTried, Tried
<1>2. TypeOK /\ StampedIsTried /\ [Next]_vars => StampedIsTried'
  BY TriedStep
<1>3. StampedIsTried => ReportNotSkipped
  BY DEF StampedIsTried, Tried, ReportNotSkipped
<1> QED
  BY <1>1, <1>2, <1>3, TypeCorrect, PTL DEF Spec

-----------------------------------------------------------------------------
(* What repeats a report *)

\* Process p is sending the report of day d.
Sending(p, d) == pc[p] = "report" /\ Day(passNow[p]) = d

\* Of a day nothing went wrong with: one pass sends its report, to each endpoint once, and
\* once it has ended the stamp, or the next day, keeps the report from being due.
SentOnce ==
  \A d \in Days \ interrupted :
    /\ \A p, q \in Schedulers : Sending(p, d) /\ Sending(q, d) => p = q
    /\ \A e \in Endpoints :
         /\ delivered[e][d] \in {0, 1}
         /\ \A p \in Schedulers : Sending(p, d) /\ e \in pending[p] => delivered[e][d] = 0
         /\ delivered[e][d] = 1 =>
              (\E p \in Schedulers : Sending(p, d)) \/ settings.last = d \/ d < Day(time)

\* The clock and the passes keep their order.
LEMMA PastStep ==
  ASSUME TypeOK, PassInThePast, [Next]_vars
  PROVE  PassInThePast'
<1>a. time \in Nat /\ \A p \in Schedulers : passNow[p] \in Nat
  BY DayOfTime DEF TypeOK
<1> USE DEF TypeOK, PassInThePast, Goto, dbVars, processVars, formVars, history
<1>1. CASE Tick
  BY <1>1, <1>a DEF Tick
<1>2. CASE \E a \in Accounts : SubmitSchedule(a)
  BY <1>2 DEF SubmitSchedule
<1>3. CASE \E a \in Accounts : DeleteAccount(a)
  BY <1>3 DEF DeleteAccount
<1>4. CASE \E on \in BOOLEAN, i \in Intervals : SaveSchedule(on, i)
  BY <1>4 DEF SaveSchedule
<1>5. CASE SubmitSettings
  BY <1>5 DEF SubmitSettings
<1>6. CASE \E on \in BOOLEAN, h \in ReportHours : SaveSettings(on, h)
  BY <1>6 DEF SaveSettings
<1>7. CASE \E p \in Schedulers : Start(p)
  BY <1>7 DEF Start
<1>8. CASE \E p \in Schedulers : Wake(p)
  BY <1>8 DEF Wake
<1>9. CASE \E p \in Schedulers : PassBegins(p)
  BY <1>9, <1>a DEF PassBegins
<1>10. CASE \E p \in Schedulers, e \in Endpoints : SendReport(p, e)
  BY <1>10 DEF SendReport
<1>11. CASE \/ \E p \in Schedulers : BriefingRaises(p)
           \/ \E p \in Schedulers, e \in Endpoints : ReportRaises(p, e)
  BY <1>11, <1>a DEF BriefingRaises, ReportRaises, Die
<1>12. CASE \E p \in Schedulers : StampReport(p)
  BY <1>12 DEF StampReport
<1>13. CASE \E p \in Schedulers : Fetch(p)
  BY <1>13 DEF Fetch
<1>14. CASE \E p \in Schedulers : \E r \in queue[p] : ScanBegins(p, r)
  BY <1>14 DEF ScanBegins
<1>15. CASE \E p \in Schedulers : \E r \in queue[p] : ScanReturns(p, r)
  BY <1>15 DEF ScanReturns
<1>16. CASE \E p \in Schedulers : \E r \in queue[p] : ScanRaises(p, r)
  BY <1>16, <1>a DEF ScanRaises, Die
<1>17. CASE \E p \in Schedulers : \E r \in queue[p] : MarkRan(p, r)
  BY <1>17 DEF MarkRan
<1>18. CASE \E p \in Schedulers : \E r \in queue[p] : MarkGone(p, r)
  BY <1>18, <1>a DEF MarkGone, Die
<1>19. CASE \E p \in Schedulers : PassEnds(p)
  BY <1>19 DEF PassEnds
<1>20. CASE \E p \in Schedulers : Crash(p)
  BY <1>20, <1>a DEF Crash, Die
<1>21. CASE UNCHANGED vars
  BY <1>21 DEF vars
<1> QED
  BY <1>1, <1>2, <1>3, <1>4, <1>5, <1>6, <1>7, <1>8, <1>9, <1>10, <1>11, <1>12, <1>13,
     <1>14, <1>15, <1>16, <1>17, <1>18, <1>19, <1>20, <1>21 DEF Next, PassStep

\* What a process that ends was sending is a day interrupted.
LEMMA DieSentOnce ==
  ASSUME TypeOK, SentOnce, NEW p \in Schedulers, Die(p),
         UNCHANGED <<time, settings, delivered>>
  PROVE  SentOnce'
<1>1. \A q \in Schedulers, d \in Days : Sending(q, d)' => q # p /\ Sending(q, d)
  BY DEF Die, Sending, TypeOK
<1>2. \A q \in Schedulers, d \in Days \ interrupted' : Sending(q, d) => Sending(q, d)' /\ q # p
  BY DEF Die, Sending, TypeOK
<1>3. interrupted \subseteq interrupted' /\ \A q \in Schedulers \ {p} : pending'[q] = pending[q]
  BY DEF Die, TypeOK
<1> QED
  BY <1>1, <1>2, <1>3 DEF SentOnce

\* Nothing happens to the reports while the clock, the settings and the senders stay.
LEMMA SendersStay ==
  ASSUME SentOnce, UNCHANGED <<time, pending, settings, delivered, interrupted>>,
         \A p \in Schedulers, d \in Days : Sending(p, d)' <=> Sending(p, d)
  PROVE  SentOnce'
BY DEF SentOnce

\* Only a pass that begins makes a sender, and only when no stamp and no sender tells that
\* the report of the day was sent.
LEMMA SentStep ==
  ASSUME TypeOK, PassInThePast, SentOnce, [Next]_vars
  PROVE  SentOnce'
<1>a. time \in Nat /\ Day(time) \in Days /\ Day(time) \in Nat /\ \A d \in Days : d \in Nat
  <2>1. \A d \in Days : d \in Nat
    BY DEF Days
  <2> QED
    BY <2>1, DayOfTime DEF TypeOK
<1>b. \A p \in Schedulers : Day(passNow[p]) \in Days /\ Day(passNow[p]) <= Day(time)
  <2> SUFFICES ASSUME NEW p \in Schedulers
               PROVE  Day(passNow[p]) \in Days /\ Day(passNow[p]) <= Day(time)
    OBVIOUS
  <2>1. passNow[p] \in Times /\ passNow[p] \in Nat
    BY DayOfTime DEF TypeOK
  <2> QED
    BY <1>a, <2>1, DayOfTime, DayMonotone DEF PassInThePast
<1>c. ASSUME UNCHANGED <<time, pc, passNow, pending, settings, delivered, interrupted>>
      PROVE  SentOnce'
  BY <1>c, SendersStay DEF Sending
<1>d. ASSUME NEW p \in Schedulers, NEW to, to # "report", pc[p] # "report", pc' = [pc EXCEPT ![p] = to],
             UNCHANGED <<time, passNow, pending, settings, delivered, interrupted>>
      PROVE  SentOnce'
  BY <1>d, SendersStay DEF Sending, TypeOK
<1> USE DEF TypeOK, Goto, dbVars, processVars, formVars, history
<1>1. CASE Tick
  <2>1. Day(time) <= Day(time')
    BY <1>1, <1>a, DayMonotone DEF Tick
  <2>2. Day(time') \in Nat
    BY <1>1, <1>a, DayMonotone DEF Tick
  <2>3. UNCHANGED <<pc, passNow, pending, settings, delivered, interrupted>>
    BY <1>1 DEF Tick
  <2>4. \A p \in Schedulers, d \in Days : Sending(p, d)' <=> Sending(p, d)
    BY <2>3 DEF Sending
  <2>5. \A d \in Days : d < Day(time) => d < Day(time')
    BY <1>a, <2>1, <2>2
  <2> QED
    BY <2>3, <2>4, <2>5 DEF SentOnce
<1>2. CASE \E a \in Accounts : SubmitSchedule(a)
  BY <1>2, <1>c DEF SubmitSchedule
<1>3. CASE \E a \in Accounts : DeleteAccount(a)
  BY <1>3, <1>c DEF DeleteAccount
<1>4. CASE \E on \in BOOLEAN, i \in Intervals : SaveSchedule(on, i)
  BY <1>4, <1>c DEF SaveSchedule
<1>5. CASE SubmitSettings
  BY <1>5, <1>c DEF SubmitSettings
<1>6. CASE \E on \in BOOLEAN, h \in ReportHours : SaveSettings(on, h)
  <2>1. /\ settings'.last # settings.last => settings.last \in interrupted'
        /\ interrupted \subseteq interrupted'
        /\ UNCHANGED <<time, pc, passNow, pending, delivered>>
    BY <1>6 DEF SaveSettings
  <2> QED
    BY <2>1 DEF SentOnce, Sending
<1>7. CASE \E p \in Schedulers : Start(p)
  BY <1>7, <1>d DEF Start
<1>8. CASE \E p \in Schedulers : Wake(p)
  BY <1>8, <1>d DEF Wake
<1>9. CASE \E p \in Schedulers : PassBegins(p)
  <2>1. PICK p \in Schedulers : PassBegins(p)
    BY <1>9
  <2>2. \A q \in Schedulers \ {p} : pc'[q] = pc[q] /\ passNow'[q] = passNow[q] /\ pending'[q] = pending[q]
    BY <2>1 DEF PassBegins
  <2>3. /\ UNCHANGED <<time, settings, delivered>> /\ interrupted \subseteq interrupted'
        /\ pc[p] = "begin" /\ passNow'[p] = time
        /\ pc'[p] = "report" => ReportDue(time)
    BY <2>1 DEF PassBegins
  <2>4. \A q \in Schedulers, d \in Days : Sending(q, d) => q # p /\ Sending(q, d)'
    BY <2>2, <2>3 DEF Sending
  <2>5. \A q \in Schedulers, d \in Days : Sending(q, d)' =>
          Sending(q, d) \/ (q = p /\ d = Day(time) /\ ReportDue(time))
    BY <2>2, <2>3 DEF Sending
  <2>6. ASSUME ReportDue(time), Day(time) \notin interrupted'
        PROVE  \A q \in Schedulers : ~ Sending(q, Day(time))
    BY <2>1, <2>6 DEF PassBegins, Sending
  <2>7. ASSUME ReportDue(time), Day(time) \notin interrupted'
        PROVE  \A e \in Endpoints : delivered[e][Day(time)] = 0
    <3>1. settings.last # Day(time) /\ Day(time) \in Days \ interrupted /\ ~(Day(time) < Day(time))
      BY <1>a, <2>3, <2>7 DEF ReportDue
    <3> QED
      BY <2>6, <2>7, <3>1 DEF SentOnce
  <2> SUFFICES ASSUME NEW d \in Days \ interrupted'
               PROVE  /\ \A q, s \in Schedulers : Sending(q, d)' /\ Sending(s, d)' => q = s
                      /\ \A e \in Endpoints :
                           /\ delivered'[e][d] \in {0, 1}
                           /\ \A q \in Schedulers : Sending(q, d)' /\ e \in pending'[q] => delivered'[e][d] = 0
                           /\ delivered'[e][d] = 1 =>
                                (\E q \in Schedulers : Sending(q, d)') \/ settings'.last = d \/ d < Day(time')
    BY DEF SentOnce
  <2>8. d \notin interrupted
    BY <2>3
  <2>9. CASE ReportDue(time) /\ d = Day(time)
    BY <2>3, <2>5, <2>6, <2>7, <2>9
  <2>10. CASE ~(ReportDue(time) /\ d = Day(time))
    BY <2>2, <2>3, <2>4, <2>5, <2>8, <2>10 DEF SentOnce
  <2> QED
    BY <2>9, <2>10
<1>10. CASE \E p \in Schedulers, e \in Endpoints : SendReport(p, e)
  <2>1. PICK p \in Schedulers, e \in Endpoints : SendReport(p, e)
    BY <1>10
  <2> DEFINE d == Day(passNow[p])
  <2>2. d \in Days /\ Sending(p, d) /\ e \in pending[p]
    BY <1>b, <2>1 DEF SendReport, Sending
  <2>3. /\ UNCHANGED <<time, settings, interrupted, pc, passNow>>
        /\ pending' = [pending EXCEPT ![p] = @ \ {e}]
        /\ delivered' = delivered \/ delivered' = [delivered EXCEPT ![e][d] = IF @ = 2 THEN 2 ELSE @ + 1]
    BY <2>1 DEF SendReport
  <2> HIDE DEF d
  <2>4. \A f \in Endpoints, c \in Days : f # e \/ c # d => delivered'[f][c] = delivered[f][c]
    BY <2>2, <2>3
  <2>5. d \notin interrupted => delivered[e][d] = 0 /\ delivered'[e][d] \in {0, 1}
    BY <2>2, <2>3 DEF SentOnce
  <2>6. \A q \in Schedulers, c \in Days : Sending(q, c)' <=> Sending(q, c)
    BY <2>3 DEF Sending
  <2>7. d \notin interrupted => \A q \in Schedulers : Sending(q, d) => e \notin pending'[q]
    BY <2>2, <2>3 DEF SentOnce
  <2>8. \A q \in Schedulers : pending'[q] \subseteq pending[q]
    BY <2>3
  <2> SUFFICES ASSUME NEW c \in Days \ interrupted
               PROVE  /\ \A q, s \in Schedulers : Sending(q, c) /\ Sending(s, c) => q = s
                      /\ \A f \in Endpoints :
                           /\ delivered'[f][c] \in {0, 1}
                           /\ \A q \in Schedulers : Sending(q, c) /\ f \in pending'[q] => delivered'[f][c] = 0
                           /\ delivered'[f][c] = 1 =>
                                (\E q \in Schedulers : Sending(q, c)) \/ settings.last = c \/ c < Day(time)
    BY <2>3, <2>6 DEF SentOnce
  <2>9. CASE c = d
    BY <2>2, <2>4, <2>5, <2>7, <2>8, <2>9 DEF SentOnce
  <2>10. CASE c # d
    BY <2>4, <2>8, <2>10 DEF SentOnce
  <2> QED
    BY <2>9, <2>10
<1>11. CASE \/ \E p \in Schedulers : BriefingRaises(p)
           \/ \E p \in Schedulers, e \in Endpoints : ReportRaises(p, e)
  BY <1>11, DieSentOnce DEF BriefingRaises, ReportRaises
<1>12. CASE \E p \in Schedulers : StampReport(p)
  <2>1. PICK p \in Schedulers : StampReport(p)
    BY <1>12
  <2> DEFINE d == Day(passNow[p])
  <2>2. d \in Days /\ d <= Day(time) /\ settings'.last = d
    BY <1>b, <2>1 DEF StampReport, Settings
  <2>3. /\ UNCHANGED <<time, passNow, pending, delivered>> /\ interrupted \subseteq interrupted'
        /\ pc' = [pc EXCEPT ![p] = "fetch"]
        /\ settings.last > d => settings.last \in interrupted'
    BY <2>1 DEF StampReport
  <2> HIDE DEF d
  <2>4. \A q \in Schedulers, c \in Days : Sending(q, c)' => Sending(q, c)
    BY <2>3 DEF Sending
  <2>5. \A q \in Schedulers, c \in Days : Sending(q, c) => Sending(q, c)' \/ c = d
    BY <2>3 DEF Sending, d
  <2>6. ASSUME NEW c \in Days \ interrupted', settings.last = c
        PROVE  c = d \/ c < Day(time)
    <3>1. c \in Nat /\ d \in Nat /\ Day(time) \in Nat /\ ~(c > d)
      BY <1>a, <2>2, <2>3, <2>6
    <3> QED
      BY <2>2, <3>1
  <2> QED
    BY <2>2, <2>3, <2>4, <2>5, <2>6 DEF SentOnce
<1>13. CASE \E p \in Schedulers : Fetch(p)
  BY <1>13, <1>d DEF Fetch
<1>14. CASE \E p \in Schedulers : \E r \in queue[p] : ScanBegins(p, r)
  BY <1>14, <1>d DEF ScanBegins
<1>15. CASE \E p \in Schedulers : \E r \in queue[p] : ScanReturns(p, r)
  BY <1>15, <1>d DEF ScanReturns
<1>16. CASE \E p \in Schedulers : \E r \in queue[p] : ScanRaises(p, r)
  BY <1>16, DieSentOnce DEF ScanRaises
<1>17. CASE \E p \in Schedulers : \E r \in queue[p] : MarkRan(p, r)
  BY <1>17, <1>d DEF MarkRan
<1>18. CASE \E p \in Schedulers : \E r \in queue[p] : MarkGone(p, r)
  BY <1>18, DieSentOnce DEF MarkGone
<1>19. CASE \E p \in Schedulers : PassEnds(p)
  BY <1>19, <1>d DEF PassEnds
<1>20. CASE \E p \in Schedulers : Crash(p)
  BY <1>20, DieSentOnce DEF Crash
<1>21. CASE UNCHANGED vars
  BY <1>21, <1>c DEF vars
<1> QED
  BY <1>1, <1>2, <1>3, <1>4, <1>5, <1>6, <1>7, <1>8, <1>9, <1>10, <1>11, <1>12, <1>13,
     <1>14, <1>15, <1>16, <1>17, <1>18, <1>19, <1>20, <1>21 DEF Next, PassStep

\* An endpoint receives the report of a day twice only when a pass that was sending it
\* ended, two passes sent it at once, or an old date was written over its stamp.
THEOREM RepeatsHaveCauses == Spec => []RepeatHasCause
<1>1. Init => PassInThePast /\ SentOnce
  <2> SUFFICES ASSUME Init PROVE PassInThePast /\ SentOnce
    OBVIOUS
  <2>1. PassInThePast
    BY DEF Init, PassInThePast
  <2>2. \A e \in Endpoints, d \in Days : delivered[e][d] = 0
    BY DEF Init
  <2>3. \A p \in Schedulers, d \in Days : ~ Sending(p, d)
    BY DEF Init, Sending
  <2> QED
    BY <2>1, <2>2, <2>3 DEF SentOnce
<1>2. TypeOK /\ PassInThePast /\ SentOnce /\ [Next]_vars => PassInThePast' /\ SentOnce'
  BY PastStep, SentStep
<1>3. SentOnce => RepeatHasCause
  BY DEF SentOnce, RepeatHasCause
<1> QED
  BY <1>1, <1>2, <1>3, TypeCorrect, PTL DEF Spec

-----------------------------------------------------------------------------
(* The interval is kept *)

\* A schedule is due no earlier than mark_ran said, unless it was edited since; an account
\* that has gone has no schedule, and one that never had any owes no rest.
RowsKeepRest ==
  \A a \in Accounts :
    /\ HasRow(a) => a \in accounts /\ restUntil[a] <= sched[a].next
    /\ ~HasRow(a) /\ a \in accounts => restUntil[a] = 0

\* What a pass has fetched was due when it was fetched, and only another scheduler's
\* mark_ran changes that; a pass holds one object per account.
QueueKeepsRest ==
  \A p \in Schedulers : \A r \in queue[p] :
    /\ restUntil[r.account] <= time \/ r.account \in overtaken[p]
    /\ \A q \in queue[p] : q.account = r.account => q = r

\* What a pass has fetched is an account and an interval.
LEMMA QueuedObject ==
  ASSUME TypeOK, NEW p \in Schedulers, NEW r \in queue[p]
  PROVE  r.account \in Accounts /\ r.interval \in Nat
<1>1. r \in [account : Accounts, interval : Intervals]
  BY DEF TypeOK
<1> QED
  BY <1>1, SchedulerAssumption

\* A form, a new row and mark_ran leave no row due before its rest is over.
LEMMA RowsStep ==
  ASSUME TypeOK, RowsKeepRest, [Next]_vars
  PROVE  RowsKeepRest'
<1>a. ASSUME UNCHANGED <<accounts, sched, restUntil>> PROVE RowsKeepRest'
  BY <1>a DEF RowsKeepRest, HasRow
<1> USE DEF TypeOK, Goto, dbVars, processVars, formVars, history
<1>1. CASE Tick
  BY <1>1, <1>a DEF Tick
<1>2. CASE \E a \in Accounts : SubmitSchedule(a)
  <2>1. PICK a \in Accounts : SubmitSchedule(a)
    BY <1>2
  <2>2. sched' = sched \/ (~HasRow(a) /\ sched' = [sched EXCEPT ![a] = NewRow])
    BY <2>1 DEF SubmitSchedule
  <2>3. UNCHANGED <<accounts, restUntil>> /\ a \in accounts
    BY <2>1 DEF SubmitSchedule
  <2>4. NewRow # NoRow /\ NewRow.next = 0
    BY NewRowIsRow DEF NewRow
  <2> QED
    BY <2>2, <2>3, <2>4 DEF RowsKeepRest, HasRow
<1>3. CASE \E a \in Accounts : DeleteAccount(a)
  <2>1. PICK a \in Accounts : DeleteAccount(a)
    BY <1>3
  <2>2. /\ accounts' = accounts \ {a} /\ restUntil' = restUntil
        /\ sched' = [sched EXCEPT ![a] = NoRow]
    BY <2>1 DEF DeleteAccount
  <2> QED
    BY <2>2 DEF RowsKeepRest, HasRow
<1>4. CASE \E on \in BOOLEAN, i \in Intervals : SaveSchedule(on, i)
  <2>1. PICK on \in BOOLEAN, i \in Intervals : SaveSchedule(on, i)
    BY <1>4
  <2> DEFINE a == schedForm.account
             row == [enabled |-> on, interval |-> i, next |-> IF on THEN time ELSE schedForm.next]
  <2>2. a \in Accounts /\ schedForm.next \in Nat /\ time \in Nat
    BY <2>1, DayOfTime DEF SaveSchedule
  <2>3. row \in Rows /\ row # NoRow /\ row.next \in Nat
    <3>1. row \in Rows /\ row.next \in Nat
      BY <2>2 DEF Rows
    <3> QED
      BY <3>1, NewRowIsRow
  <2>4. \/ UNCHANGED <<accounts, sched, restUntil>>
        \/ /\ a \in accounts /\ accounts' = accounts
           /\ sched' = [sched EXCEPT ![a] = row]
           /\ restUntil' = [restUntil EXCEPT ![a] = 0]
    BY <2>1 DEF SaveSchedule
  <2> HIDE DEF a, row
  <2> QED
    BY <1>a, <2>2, <2>3, <2>4 DEF RowsKeepRest, HasRow
<1>5. CASE SubmitSettings
  BY <1>5, <1>a DEF SubmitSettings
<1>6. CASE \E on \in BOOLEAN, h \in ReportHours : SaveSettings(on, h)
  BY <1>6, <1>a DEF SaveSettings
<1>7. CASE \E p \in Schedulers : Start(p)
  BY <1>7, <1>a DEF Start
<1>8. CASE \E p \in Schedulers : Wake(p)
  BY <1>8, <1>a DEF Wake
<1>9. CASE \E p \in Schedulers : PassBegins(p)
  BY <1>9, <1>a DEF PassBegins
<1>10. CASE \E p \in Schedulers, e \in Endpoints : SendReport(p, e)
  BY <1>10, <1>a DEF SendReport
<1>11. CASE \/ \E p \in Schedulers : BriefingRaises(p)
           \/ \E p \in Schedulers, e \in Endpoints : ReportRaises(p, e)
  BY <1>11, <1>a DEF BriefingRaises, ReportRaises, Die
<1>12. CASE \E p \in Schedulers : StampReport(p)
  BY <1>12, <1>a DEF StampReport
<1>13. CASE \E p \in Schedulers : Fetch(p)
  BY <1>13, <1>a DEF Fetch
<1>14. CASE \E p \in Schedulers : \E r \in queue[p] : ScanBegins(p, r)
  BY <1>14, <1>a DEF ScanBegins
<1>15. CASE \E p \in Schedulers : \E r \in queue[p] : ScanReturns(p, r)
  BY <1>15, <1>a DEF ScanReturns
<1>16. CASE \E p \in Schedulers : \E r \in queue[p] : ScanRaises(p, r)
  BY <1>16, <1>a DEF ScanRaises, Die
<1>17. CASE \E p \in Schedulers : \E r \in queue[p] : MarkRan(p, r)
  <2>1. PICK p \in Schedulers : \E r \in queue[p] : MarkRan(p, r)
    BY <1>17
  <2>2. PICK r \in queue[p] : MarkRan(p, r)
    BY <2>1
  <2>3. r.account \in Accounts /\ r.interval \in Nat /\ time \in Nat
    BY <2>1, <2>2, QueuedObject, DayOfTime
  <2>4. sched[r.account] \in Rows /\ HasRow(r.account)
    BY <2>2, <2>3, RowOf DEF MarkRan
  <2> DEFINE row == [sched[r.account] EXCEPT !.next = time + r.interval]
  <2>5. row \in Rows /\ row # NoRow /\ row.next = time + r.interval
    <3>1. row \in Rows /\ row.next = time + r.interval
      BY <2>3, <2>4 DEF Rows
    <3> QED
      BY <3>1, NewRowIsRow
  <2>6. /\ accounts' = accounts
        /\ sched' = [sched EXCEPT ![r.account] = row]
        /\ restUntil' = [restUntil EXCEPT ![r.account] = time + r.interval]
    BY <2>2 DEF MarkRan
  <2> HIDE DEF row
  <2> QED
    BY <2>3, <2>4, <2>5, <2>6 DEF RowsKeepRest, HasRow
<1>18. CASE \E p \in Schedulers : \E r \in queue[p] : MarkGone(p, r)
  BY <1>18, <1>a DEF MarkGone, Die
<1>19. CASE \E p \in Schedulers : PassEnds(p)
  BY <1>19, <1>a DEF PassEnds
<1>20. CASE \E p \in Schedulers : Crash(p)
  BY <1>20, <1>a DEF Crash, Die
<1>21. CASE UNCHANGED vars
  BY <1>21, <1>a DEF vars
<1> QED
  BY <1>1, <1>2, <1>3, <1>4, <1>5, <1>6, <1>7, <1>8, <1>9, <1>10, <1>11, <1>12, <1>13,
     <1>14, <1>15, <1>16, <1>17, <1>18, <1>19, <1>20, <1>21 DEF Next, PassStep

\* An object fetched earlier in the pass is as good as it was, unless another scheduler has
\* marked the account since.
LEMMA QueueStep ==
  ASSUME TypeOK, PassInThePast, RowsKeepRest, QueueKeepsRest, [Next]_vars
  PROVE  QueueKeepsRest'
<1>a. time \in Nat /\ \A p \in Schedulers : passNow[p] \in Nat
  BY DayOfTime DEF TypeOK
<1>b. ASSUME UNCHANGED <<time, restUntil, overtaken>>, \A p \in Schedulers : queue'[p] \subseteq queue[p]
      PROVE  QueueKeepsRest'
  BY <1>b DEF QueueKeepsRest
<1> USE DEF TypeOK, Goto, dbVars, processVars, formVars, history
<1>1. CASE Tick
  <2>1. time' = time + 1 /\ UNCHANGED <<queue, restUntil, overtaken>>
    BY <1>1 DEF Tick
  <2>2. \A a \in Accounts : restUntil[a] <= time => restUntil[a] <= time'
    BY <1>a, <2>1
  <2> QED
    BY <2>1, <2>2, QueuedObject DEF QueueKeepsRest
<1>2. CASE \E a \in Accounts : SubmitSchedule(a)
  BY <1>2, <1>b DEF SubmitSchedule
<1>3. CASE \E a \in Accounts : DeleteAccount(a)
  BY <1>3, <1>b DEF DeleteAccount
<1>4. CASE \E on \in BOOLEAN, i \in Intervals : SaveSchedule(on, i)
  <2>1. /\ UNCHANGED <<time, queue, overtaken>>
        /\ \A a \in Accounts : restUntil'[a] \in {restUntil[a], 0}
    BY <1>4 DEF SaveSchedule
  <2> QED
    BY <1>a, <2>1, QueuedObject DEF QueueKeepsRest
<1>5. CASE SubmitSettings
  BY <1>5, <1>b DEF SubmitSettings
<1>6. CASE \E on \in BOOLEAN, h \in ReportHours : SaveSettings(on, h)
  BY <1>6, <1>b DEF SaveSettings
<1>7. CASE \E p \in Schedulers : Start(p)
  BY <1>7, <1>b DEF Start
<1>8. CASE \E p \in Schedulers : Wake(p)
  BY <1>8, <1>b DEF Wake
<1>9. CASE \E p \in Schedulers : PassBegins(p)
  BY <1>9, <1>b DEF PassBegins
<1>10. CASE \E p \in Schedulers, e \in Endpoints : SendReport(p, e)
  BY <1>10, <1>b DEF SendReport
<1>11. CASE \/ \E p \in Schedulers : BriefingRaises(p)
           \/ \E p \in Schedulers, e \in Endpoints : ReportRaises(p, e)
  BY <1>11, <1>b DEF BriefingRaises, ReportRaises, Die
<1>12. CASE \E p \in Schedulers : StampReport(p)
  BY <1>12, <1>b DEF StampReport
<1>13. CASE \E p \in Schedulers : Fetch(p)
  <2>1. PICK p \in Schedulers : Fetch(p)
    BY <1>13
  <2>2. \A r \in queue'[p] : \E a \in Accounts :
          IsDue(sched[a], passNow[p]) /\ r = [account |-> a, interval |-> sched[a].interval]
    BY <2>1 DEF Fetch, Objects
  <2>3. ASSUME NEW a \in Accounts, IsDue(sched[a], passNow[p]) PROVE restUntil[a] <= time
    <3>1. HasRow(a)
      BY <2>3 DEF IsDue, HasRow, NoRow
    <3>2. sched[a].next \in Nat /\ sched[a].next <= passNow[p] /\ restUntil[a] <= sched[a].next
      BY <2>3, <3>1, RowOf DEF IsDue, Rows, RowsKeepRest
    <3> QED
      BY <1>a, <3>2 DEF PassInThePast
  <2>4. /\ UNCHANGED <<time, restUntil>>
        /\ \A q \in Schedulers \ {p} : queue'[q] = queue[q] /\ overtaken'[q] = overtaken[q]
    BY <2>1 DEF Fetch
  <2>5. \A r \in queue'[p] : restUntil[r.account] <= time
    BY <2>2, <2>3
  <2>6. \A r, q \in queue'[p] : q.account = r.account => q = r
    BY <2>2
  <2> QED
    BY <2>4, <2>5, <2>6 DEF QueueKeepsRest
<1>14. CASE \E p \in Schedulers : \E r \in queue[p] : ScanBegins(p, r)
  BY <1>14, <1>b DEF ScanBegins
<1>15. CASE \E p \in Schedulers : \E r \in queue[p] : ScanReturns(p, r)
  BY <1>15, <1>b DEF ScanReturns
<1>16. CASE \E p \in Schedulers : \E r \in queue[p] : ScanRaises(p, r)
  BY <1>16, <1>b DEF ScanRaises, Die
<1>17. CASE \E p \in Schedulers : \E r \in queue[p] : MarkRan(p, r)
  <2>1. PICK p \in Schedulers : \E r \in queue[p] : MarkRan(p, r)
    BY <1>17
  <2>2. PICK r \in queue[p] : MarkRan(p, r)
    BY <2>1
  <2>3. /\ time' = time
        /\ queue' = [queue EXCEPT ![p] = @ \ {r}]
        /\ \A a \in Accounts : a # r.account => restUntil'[a] = restUntil[a]
        /\ overtaken'[p] = overtaken[p]
        /\ \A q \in Schedulers \ {p} : overtaken'[q] = overtaken[q] \cup {r.account}
    BY <2>2 DEF MarkRan
  <2> SUFFICES ASSUME NEW q \in Schedulers, NEW s \in queue'[q]
               PROVE  /\ restUntil'[s.account] <= time \/ s.account \in overtaken'[q]
                      /\ \A t \in queue'[q] : t.account = s.account => t = s
    BY <2>3 DEF QueueKeepsRest
  <2>4. s \in queue[q] /\ queue'[q] \subseteq queue[q]
    BY <2>3
  <2>5. s.account \in Accounts
    BY <2>4, QueuedObject
  <2>6. CASE s.account = r.account
    <3>1. q # p
      BY <2>2, <2>3, <2>6 DEF QueueKeepsRest
    <3> QED
      BY <2>3, <2>4, <2>6, <3>1 DEF QueueKeepsRest
  <2>7. CASE s.account # r.account
    BY <2>3, <2>4, <2>5, <2>7 DEF QueueKeepsRest
  <2> QED
    BY <2>6, <2>7
<1>18. CASE \E p \in Schedulers : \E r \in queue[p] : MarkGone(p, r)
  BY <1>18, <1>b DEF MarkGone, Die
<1>19. CASE \E p \in Schedulers : PassEnds(p)
  BY <1>19, <1>b DEF PassEnds
<1>20. CASE \E p \in Schedulers : Crash(p)
  BY <1>20, <1>b DEF Crash, Die
<1>21. CASE UNCHANGED vars
  BY <1>21, <1>b DEF vars
<1> QED
  BY <1>1, <1>2, <1>3, <1>4, <1>5, <1>6, <1>7, <1>8, <1>9, <1>10, <1>11, <1>12, <1>13,
     <1>14, <1>15, <1>16, <1>17, <1>18, <1>19, <1>20, <1>21 DEF Next, PassStep

\* "then advances it by interval_minutes": a scan of the loop begins only when the rest
\* that mark_ran set is over, unless an edit lifted it or another scheduler ran the account
\* after this one had fetched it.
THEOREM IntervalsAreKept == Spec => IntervalIsKept
<1> DEFINE Inv == PassInThePast /\ RowsKeepRest /\ QueueKeepsRest
<1>1. Init => Inv
  <2> SUFFICES ASSUME Init PROVE Inv
    OBVIOUS
  <2>1. \A a \in Accounts : HasRow(a) => sched[a] = NewRow
    BY DEF Init, HasRow
  <2>2. NewRow.next = 0
    BY DEF NewRow
  <2>3. RowsKeepRest
    BY <2>1, <2>2 DEF Init, RowsKeepRest
  <2> QED
    BY <2>3 DEF Init, PassInThePast, QueueKeepsRest
<1>2. TypeOK /\ Inv /\ [Next]_vars => Inv'
  BY PastStep, RowsStep, QueueStep
<1>3. Inv => \A p \in Schedulers : \A r \in queue[p] :
               IsAt(p, r) /\ pc[p] # "scan" /\ pc'[p] = "scan" =>
                 restUntil[r.account] <= time \/ r.account \in overtaken[p]
  BY DEF QueueKeepsRest
<1> QED
  BY <1>1, <1>2, <1>3, TypeCorrect, PTL DEF Spec, IntervalIsKept
=============================================================================
