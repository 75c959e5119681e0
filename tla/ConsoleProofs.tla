---------------------------- MODULE ConsoleProofs ----------------------------
(***************************************************************************)
(* The pages of an installation used together (Console) keep what each of   *)
(* them keeps alone: a step of the whole is a step of each part or changes  *)
(* nothing of it.  What the parts keep is proved here, except of the AI     *)
(* providers, which have a module of proofs of their own.                   *)
(***************************************************************************)
EXTENDS Console, TLAPS

AIP == INSTANCE AIProvidersProofs WITH loaded <- draft, newest <- latest, crossed <- overtaken

-----------------------------------------------------------------------------
\* What Crossing and Undone speak of.
Events == Row!Columns \cup {"row"}

LEMMA RowTypesInit == ASSUME Row!RowAssumption PROVE Row!Init => Row!TypeOK
<1>1. 0 \in Row!Versions
  BY DEF Row!Versions, Row!RowAssumption
<1> QED
  BY <1>1 DEF Row!Init, Row!TypeOK

LEMMA CrossingTypes ==
  ASSUME Row!TypeOK, NEW what \in Events, NEW saving, Row!Crossing(what, saving)
  PROVE  crossed' \in [Edits -> SUBSET Events]
  BY DEF Row!Crossing, Row!TypeOK, Events

LEMMA RowTypesNext ==
  ASSUME Row!RowAssumption, Row!TypeOK, [Row!Next]_rowVars
  PROVE  Row!TypeOK'
<1> USE DEF Row!RowAssumption
<1>1. CASE Row!RotateToken
  <2>1. newest["token"] + 1 \in Row!Versions
    BY <1>1 DEF Row!RotateToken, Row!TypeOK, Row!Versions, Row!Columns
  <2>2. crossed' \in [Edits -> SUBSET Events]
    BY <1>1, CrossingTypes DEF Row!RotateToken, Events, Row!Columns
  <2> QED
    BY <1>1, <2>1, <2>2 DEF Row!RotateToken, Row!TypeOK, Row!Columns, Events
<1>2. CASE Row!DeleteAccount
  BY <1>2, CrossingTypes DEF Row!DeleteAccount, Row!TypeOK, Events
<1>3. ASSUME NEW e \in Edits, Row!OpenEdit(e) PROVE Row!TypeOK'
  BY <1>3 DEF Row!OpenEdit, Row!TypeOK
<1>4. ASSUME NEW e \in Edits, Row!RefuseEdit(e) PROVE Row!TypeOK'
  BY <1>4 DEF Row!RefuseEdit, Row!TypeOK
<1>5. ASSUME NEW e \in Edits, Row!SaveBlank(e) PROVE Row!TypeOK'
  BY <1>5 DEF Row!SaveBlank, Row!TypeOK
<1>6. ASSUME NEW e \in Edits, Row!SaveCredentials(e) PROVE Row!TypeOK'
  <2>1. newest["credentials"] + 1 \in Row!Versions
    BY <1>6 DEF Row!SaveCredentials, Row!TypeOK, Row!Versions, Row!Columns
  <2>2. loaded[e] \in [Row!Columns -> Row!Versions]
    BY <1>6 DEF Row!SaveCredentials, Row!TypeOK
  <2>3. crossed' \in [Edits -> SUBSET Events]
    BY <1>6, CrossingTypes DEF Row!SaveCredentials, Events, Row!Columns
  <2> QED
    BY <1>6, <2>1, <2>2, <2>3 DEF Row!SaveCredentials, Row!TypeOK, Row!Columns, Events
<1>7. ASSUME NEW s \in Scans, Row!StartScan(s) PROVE Row!TypeOK'
  BY <1>7 DEF Row!StartScan, Row!TypeOK
<1>8. ASSUME NEW s \in Scans, Row!EndScan(s) PROVE Row!TypeOK'
  <2>1. crossed' \in [Edits -> SUBSET Events]
    BY <1>8, CrossingTypes DEF Row!EndScan, Row!WriteScanned, Events, Row!Columns
  <2>2. late' \subseteq Scans
    BY <1>8 DEF Row!EndScan, Row!WriteScanned, Row!TypeOK
  <2> QED
    BY <1>8, <2>1, <2>2 DEF Row!EndScan, Row!WriteScanned, Row!TypeOK, Row!Columns, Events
<1>9. ASSUME NEW s \in Scans, Row!ScanFails(s) PROVE Row!TypeOK'
  BY <1>9 DEF Row!ScanFails, Row!TypeOK
<1>10. ASSUME NEW s \in Scans, Row!FinishScan(s) PROVE Row!TypeOK'
  <2>1. stamp' \in [Scans -> Row!Versions]
    BY <1>10 DEF Row!FinishScan, Row!TypeOK, Row!Versions
  <2> QED
    BY <1>10, <2>1 DEF Row!FinishScan, Row!TypeOK
<1>11. CASE UNCHANGED rowVars
  BY <1>11 DEF rowVars, Row!TypeOK
<1> QED
  BY <1>1, <1>2, <1>3, <1>4, <1>5, <1>6, <1>7, <1>8, <1>9, <1>10, <1>11 DEF Row!Next

-----------------------------------------------------------------------------
(* An open edit holds what was written last, or what was written since is   *)
(* in its crossed and will be undone when it is saved.                       *)

Late(c) == c = "scanned" /\ late # {}

Holds(e, c) == loaded[e][c] = newest[c] \/ c \in crossed[e] \/ Row!Undone(c) \/ Late(c)

Loaded(e) ==
  edit[e] = "open" =>
    /\ \A c \in Row!Columns : Holds(e, c)
    /\ deleted => "row" \in crossed[e] \/ Row!Undone("row")

RowInv == Row!OnlyOverlapUndoes /\ Row!DeletedStaysDeleted /\ \A e \in Edits : Loaded(e)

LEMMA UndoneStays ==
  ASSUME NEW c \in Events,
         Row!Undone(c),
         \A e \in Edits :
           edit[e] = "saved" => edit'[e] = "saved" /\ crossed[e] \subseteq crossed'[e]
  PROVE  Row!Undone(c)'
  BY DEF Row!Undone

LEMMA RowInit == ASSUME Row!RowAssumption PROVE Row!Init => RowInv
  BY DEF Row!Init, RowInv, Row!OnlyOverlapUndoes, Row!DeletedStaysDeleted, Loaded

\* A column written in the row that is there, as rotation and the end of a scan do.
LEMMA ColumnInv ==
  ASSUME Row!TypeOK, RowInv, row # NoRow,
         NEW c \in Row!Columns, Row!Crossing(c, {}),
         row' \in [Row!Columns -> Row!Versions],
         \A d \in Row!Columns : d # c => row'[d] = row[d] /\ newest'[d] = newest[d],
         row'[c] = newest'[c] \/ Late(c)',
         late \subseteq late',
         UNCHANGED <<edit, loaded, deleted>>
  PROVE  RowInv'
<1>1. \A d \in Events : Row!Undone(d) => Row!Undone(d)'
  BY UndoneStays DEF Row!Crossing, Row!TypeOK
<1>2. \A d : Late(d) => Late(d)'
  BY DEF Late
<1>3. \A d \in Row!Columns : row'[d] = newest'[d] \/ Row!Undone(d)' \/ Late(d)'
  BY <1>1, <1>2 DEF RowInv, Row!OnlyOverlapUndoes, Events, Late
<1>4. Row!OnlyOverlapUndoes'
  BY <1>3 DEF Row!OnlyOverlapUndoes, Late
<1>5. Row!DeletedStaysDeleted'
  BY <1>1 DEF RowInv, Row!DeletedStaysDeleted, Events
<1>6. ASSUME NEW e \in Edits, edit'[e] = "open" PROVE Loaded(e)'
  <2>1. edit[e] = "open" /\ crossed'[e] = crossed[e] \cup {c}
    BY <1>6 DEF Row!Crossing
  <2>2. ASSUME NEW d \in Row!Columns PROVE Holds(e, d)'
    <3>1. CASE d = c
      BY <2>1, <3>1 DEF Holds
    <3>2. CASE d # c
      BY <1>1, <1>2, <2>1, <3>2 DEF RowInv, Loaded, Holds, Events
    <3> QED
      BY <3>1, <3>2
  <2>3. deleted' => ("row" \in crossed[e])' \/ Row!Undone("row")'
    BY <1>1, <2>1 DEF RowInv, Loaded, Events
  <2> QED
    BY <2>2, <2>3 DEF Loaded
<1>7. \A e \in Edits : Loaded(e)'
  BY <1>6 DEF Loaded
<1> QED
  BY <1>4, <1>5, <1>7 DEF RowInv

LEMMA RowNext ==
  ASSUME Row!RowAssumption, Row!TypeOK, RowInv, [Row!Next]_rowVars
  PROVE  RowInv'
<1> USE DEF Row!RowAssumption, Late
<1>1. CASE Row!RotateToken
  <2>1. row' \in [Row!Columns -> Row!Versions]
    BY <1>1, RowTypesNext DEF Row!Next, Row!RotateToken, Row!TypeOK
  <2>2. "token" \in Row!Columns /\ late' = late /\ row'["token"] = newest'["token"]
    BY <1>1 DEF Row!RotateToken, Row!TypeOK, Row!Columns
  <2>3. \A d \in Row!Columns : d # "token" => row'[d] = row[d] /\ newest'[d] = newest[d]
    BY <1>1 DEF Row!RotateToken, Row!TypeOK
  <2> HIDE DEF Late
  <2> QED
    BY <1>1, <2>1, <2>2, <2>3, ColumnInv DEF Row!RotateToken
<1>2. CASE Row!DeleteAccount
  <2>1. \A d \in Events : Row!Undone(d) => Row!Undone(d)'
    BY <1>2, UndoneStays DEF Row!DeleteAccount, Row!Crossing, Row!TypeOK
  <2>2. Row!OnlyOverlapUndoes' /\ Row!DeletedStaysDeleted'
    BY <1>2 DEF Row!DeleteAccount, Row!OnlyOverlapUndoes, Row!DeletedStaysDeleted
  <2>3. ASSUME NEW e \in Edits, edit'[e] = "open" PROVE Loaded(e)'
    <3>1. edit[e] = "open" /\ crossed'[e] = crossed[e] \cup {"row"}
      BY <1>2, <2>3 DEF Row!DeleteAccount, Row!Crossing
    <3>2. \A c \in Row!Columns : Holds(e, c)'
      BY <1>2, <2>1, <3>1 DEF Row!DeleteAccount, RowInv, Loaded, Holds, Events
    <3> QED
      BY <3>1, <3>2 DEF Loaded
  <2>4. \A e \in Edits : Loaded(e)'
    BY <2>3 DEF Loaded
  <2> QED
    BY <2>2, <2>4 DEF RowInv
<1>3. ASSUME NEW e \in Edits, Row!OpenEdit(e) PROVE RowInv'
  <2>1. \A d \in Events : Row!Undone(d) => Row!Undone(d)'
    BY <1>3, UndoneStays DEF Row!OpenEdit, Row!TypeOK
  <2>2. Row!OnlyOverlapUndoes' /\ Row!DeletedStaysDeleted'
    BY <1>3, <2>1 DEF Row!OpenEdit, RowInv, Row!OnlyOverlapUndoes, Row!DeletedStaysDeleted, Events
  <2>3. ASSUME NEW z \in Edits, edit'[z] = "open" PROVE Loaded(z)'
    <3>1. CASE z = e
      <4>1. /\ loaded'[z] = row /\ newest' = newest /\ row # NoRow
            /\ deleted' = deleted /\ late' = late
        BY <1>3, <3>1 DEF Row!OpenEdit, Row!TypeOK
      <4>2. \A c \in Row!Columns : Holds(z, c)'
        BY <2>1, <4>1 DEF RowInv, Row!OnlyOverlapUndoes, Holds, Events
      <4>3. deleted' => Row!Undone("row")'
        BY <2>1, <4>1 DEF RowInv, Row!DeletedStaysDeleted, Events
      <4> QED
        BY <4>2, <4>3 DEF Loaded
    <3>2. CASE z # e
      <4>1. edit[z] = "open" /\ loaded'[z] = loaded[z]
        BY <1>3, <2>3, <3>2 DEF Row!OpenEdit, Row!TypeOK
      <4>2. \A c \in Row!Columns : Holds(z, c)'
        BY <1>3, <2>1, <4>1 DEF Row!OpenEdit, RowInv, Loaded, Holds, Events
      <4> QED
        BY <1>3, <2>1, <4>1, <4>2 DEF Row!OpenEdit, RowInv, Loaded, Events
    <3> QED
      BY <3>1, <3>2
  <2>4. \A z \in Edits : Loaded(z)'
    BY <2>3 DEF Loaded
  <2> QED
    BY <2>2, <2>4 DEF RowInv
<1>4. ASSUME NEW e \in Edits, Row!RefuseEdit(e) PROVE RowInv'
  <2>1. \A d \in Events : Row!Undone(d) => Row!Undone(d)'
    BY <1>4, UndoneStays DEF Row!RefuseEdit, Row!TypeOK
  <2>2. Row!OnlyOverlapUndoes' /\ Row!DeletedStaysDeleted'
    BY <1>4, <2>1 DEF Row!RefuseEdit, RowInv, Row!OnlyOverlapUndoes, Row!DeletedStaysDeleted, Events
  <2>3. ASSUME NEW z \in Edits, edit'[z] = "open" PROVE Loaded(z)'
    <3>1. edit[z] = "open"
      BY <1>4, <2>3 DEF Row!RefuseEdit, Row!TypeOK
    <3>2. \A c \in Row!Columns : Holds(z, c)'
      BY <1>4, <2>1, <3>1 DEF Row!RefuseEdit, RowInv, Loaded, Holds, Events
    <3> QED
      BY <1>4, <2>1, <3>1, <3>2 DEF Row!RefuseEdit, RowInv, Loaded, Events
  <2>4. \A z \in Edits : Loaded(z)'
    BY <2>3 DEF Loaded
  <2> QED
    BY <2>2, <2>4 DEF RowInv
<1>5. ASSUME NEW e \in Edits, Row!SaveBlank(e) PROVE RowInv'
  <2>1. \A d \in Events : Row!Undone(d) => Row!Undone(d)'
    BY <1>5, UndoneStays DEF Row!SaveBlank, Row!TypeOK
  <2>2. \A d \in crossed[e] : Row!Undone(d)'
    BY <1>5 DEF Row!SaveBlank, Row!TypeOK, Row!Undone
  <2>3. Row!OnlyOverlapUndoes'
    BY <1>5, <2>1, <2>2 DEF Row!SaveBlank, RowInv, Loaded, Holds, Row!OnlyOverlapUndoes, Events
  <2>4. Row!DeletedStaysDeleted'
    BY <1>5, <2>1, <2>2 DEF Row!SaveBlank, RowInv, Loaded, Row!DeletedStaysDeleted, Events
  <2>5. ASSUME NEW z \in Edits, edit'[z] = "open" PROVE Loaded(z)'
    <3>1. edit[z] = "open"
      BY <1>5, <2>5 DEF Row!SaveBlank, Row!TypeOK
    <3>2. \A c \in Row!Columns : Holds(z, c)'
      BY <1>5, <2>1, <3>1 DEF Row!SaveBlank, RowInv, Loaded, Holds, Events
    <3> QED
      BY <1>5, <2>1, <3>1, <3>2 DEF Row!SaveBlank, RowInv, Loaded, Events
  <2>6. \A z \in Edits : Loaded(z)'
    BY <2>5 DEF Loaded
  <2> QED
    BY <2>3, <2>4, <2>6 DEF RowInv
<1>6. ASSUME NEW e \in Edits, Row!SaveCredentials(e) PROVE RowInv'
  <2>1. \A d \in Events : Row!Undone(d) => Row!Undone(d)'
    BY <1>6, UndoneStays DEF Row!SaveCredentials, Row!Crossing, Row!TypeOK
  <2>2. crossed'[e] = crossed[e] /\ edit'[e] = "saved"
    BY <1>6 DEF Row!SaveCredentials, Row!Crossing, Row!TypeOK
  <2>3. \A d \in crossed[e] : Row!Undone(d)'
    BY <2>2 DEF Row!Undone
  <2>4. ASSUME NEW c \in Row!Columns PROVE row'[c] = newest'[c] \/ Row!Undone(c)' \/ Late(c)'
    <3>1. CASE c = "credentials"
      BY <1>6, <3>1 DEF Row!SaveCredentials, Row!TypeOK
    <3>2. CASE c # "credentials"
      <4>1. row'[c] = loaded[e][c] /\ newest'[c] = newest[c] /\ late' = late
        BY <1>6, <3>2 DEF Row!SaveCredentials, Row!TypeOK
      <4>2. Holds(e, c)
        BY <1>6 DEF Row!SaveCredentials, RowInv, Loaded
      <4> QED
        BY <2>1, <2>3, <4>1, <4>2 DEF Holds, Events
    <3> QED
      BY <3>1, <3>2
  <2>5. Row!DeletedStaysDeleted'
    BY <1>6, <2>1, <2>3 DEF Row!SaveCredentials, RowInv, Loaded, Row!DeletedStaysDeleted, Events
  <2>6. ASSUME NEW z \in Edits, edit'[z] = "open" PROVE Loaded(z)'
    <3>1. edit[z] = "open" /\ crossed'[z] = crossed[z] \cup {"credentials"}
      BY <1>6, <2>6 DEF Row!SaveCredentials, Row!Crossing, Row!TypeOK
    <3>2. ASSUME NEW c \in Row!Columns PROVE Holds(z, c)'
      <4>1. CASE c = "credentials"
        BY <3>1, <4>1 DEF Holds
      <4>2. CASE c # "credentials"
        BY <1>6, <2>1, <3>1, <4>2 DEF Row!SaveCredentials, Row!TypeOK, RowInv, Loaded, Holds, Events
      <4> QED
        BY <4>1, <4>2
    <3> QED
      BY <1>6, <2>1, <3>1, <3>2 DEF Row!SaveCredentials, RowInv, Loaded, Events
  <2>7. \A z \in Edits : Loaded(z)'
    BY <2>6 DEF Loaded
  <2> QED
    BY <2>4, <2>5, <2>7 DEF RowInv, Row!OnlyOverlapUndoes
<1>7. ASSUME NEW s \in Scans, Row!StartScan(s) PROVE RowInv'
  BY <1>7 DEF Row!StartScan, RowInv, Row!OnlyOverlapUndoes, Row!DeletedStaysDeleted,
     Loaded, Holds, Row!Undone
<1>8. ASSUME NEW s \in Scans, Row!EndScan(s) PROVE RowInv'
  <2>1. /\ row # NoRow /\ row' = [row EXCEPT !["scanned"] = stamp[s]]
        /\ newest' = [newest EXCEPT !["scanned"] = IF stamp[s] > @ THEN stamp[s] ELSE @]
        /\ late' = IF stamp[s] < newest["scanned"] THEN late \cup {s} ELSE late
        /\ Row!Crossing("scanned", {}) /\ UNCHANGED <<edit, loaded, deleted>>
    BY <1>8 DEF Row!EndScan, Row!WriteScanned
  <2>2. "scanned" \in Row!Columns /\ stamp[s] \in Int /\ newest["scanned"] \in Int
    BY DEF Row!TypeOK, Row!Columns, Row!Versions
  <2>3. row' \in [Row!Columns -> Row!Versions]
    BY <2>1 DEF Row!TypeOK
  <2>4. \A d \in Row!Columns : d # "scanned" => row'[d] = row[d] /\ newest'[d] = newest[d]
    BY <2>1 DEF Row!TypeOK
  <2>5. row'["scanned"] = newest'["scanned"] \/ Late("scanned")'
    <3>1. row'["scanned"] = stamp[s]
      BY <2>1, <2>2 DEF Row!TypeOK
    <3>2. CASE stamp[s] < newest["scanned"]
      BY <2>1, <3>2
    <3>3. CASE ~(stamp[s] < newest["scanned"])
      BY <2>1, <2>2, <3>1, <3>3 DEF Row!TypeOK
    <3> QED
      BY <3>2, <3>3
  <2>6. late \subseteq late'
    BY <2>1
  <2> HIDE DEF Late
  <2> QED
    BY <2>1, <2>2, <2>3, <2>4, <2>5, <2>6, ColumnInv
<1>9. ASSUME NEW s \in Scans, Row!ScanFails(s) PROVE RowInv'
  BY <1>9 DEF Row!ScanFails, RowInv, Row!OnlyOverlapUndoes, Row!DeletedStaysDeleted,
     Loaded, Holds, Row!Undone
<1>10. ASSUME NEW s \in Scans, Row!FinishScan(s) PROVE RowInv'
  BY <1>10 DEF Row!FinishScan, RowInv, Row!OnlyOverlapUndoes, Row!DeletedStaysDeleted,
     Loaded, Holds, Row!Undone
<1>11. CASE UNCHANGED rowVars
  BY <1>11 DEF rowVars, RowInv, Row!OnlyOverlapUndoes, Row!DeletedStaysDeleted,
     Loaded, Holds, Row!Undone
<1> QED
  BY <1>1, <1>2, <1>3, <1>4, <1>5, <1>6, <1>7, <1>8, <1>9, <1>10, <1>11 DEF Row!Next

LEMMA RowStep == [Next]_vars => [Row!Next]_rowVars
<1> SUFFICES ASSUME [Next]_vars PROVE Row!Next \/ UNCHANGED rowVars
  OBVIOUS
<1>1. CASE RowBegins
  BY <1>1 DEF RowBegins, Row!Next
<1>2. CASE RowGoesOn
  BY <1>2 DEF RowGoesOn, Row!Next
<1>3. CASE DeleteAccount
  BY <1>3 DEF DeleteAccount, Row!Next
<1>4. CASE UNCHANGED rowVars
  BY <1>4
<1> QED
  BY <1>1, <1>2, <1>3, <1>4 DEF Next, vars, ProviderBegins, ProviderGoesOn, IssueBegins,
     IssueGoesOn, NoticeBegins, NoticeGoesOn

LEMMA RowInvariant == Spec => []RowInv
<1>1. Row!RowAssumption
  BY ConsoleAssumption
<1>2. Init => Row!TypeOK /\ RowInv
  BY <1>1, RowTypesInit, RowInit DEF Init
<1>3. Row!TypeOK /\ RowInv /\ [Next]_vars => (Row!TypeOK /\ RowInv)'
  BY <1>1, RowStep, RowTypesNext, RowNext
<1> QED
  BY <1>2, <1>3, PTL DEF Spec

\* Only an edit that was open meanwhile takes back a token that was rotated, credentials that
\* were entered or the time of a scan (views.py:166), whatever the other pages do, except that a
\* scan that read the clock before another may write its time after it (models.py:129-133).
THEOREM OverlapUndoes == Spec => []OnlyOverlapUndoes
<1>1. RowInv => OnlyOverlapUndoes
  BY DEF RowInv, OnlyOverlapUndoes
<1> QED
  BY <1>1, RowInvariant, PTL

\* Only an edit that was open when the account was deleted brings it back (views.py:166).
THEOREM DeletionHolds == Spec => []DeletedStaysDeleted
<1>1. RowInv => DeletedStaysDeleted
  BY DEF RowInv, DeletedStaysDeleted
<1> QED
  BY <1>1, RowInvariant, PTL

-----------------------------------------------------------------------------
LEMMA ProviderInit == Init => AIP!Init
  BY DEF Init, AI!Init, AIP!Init

LEMMA ProviderStep == [Next]_vars => [AIP!Next]_(AIP!providerVars)
<1> SUFFICES ASSUME [Next]_vars PROVE AIP!Next \/ UNCHANGED AIP!providerVars
  OBVIOUS
<1>1. CASE ProviderBegins
  BY <1>1 DEF ProviderBegins, AIP!Next, AI!OpenCreate, AIP!OpenCreate, AI!OpenEdit, AIP!OpenEdit,
     AI!DeleteProvider, AIP!DeleteProvider, AI!Removed, AIP!Removed, AI!Defaults, AIP!Defaults
<1>2. CASE ProviderGoesOn
  <2>1. ASSUME NEW s \in Saves, NEW isActive \in BOOLEAN, NEW isDefault \in BOOLEAN,
               AI!SaveKey(s, isActive, isDefault) \/ AI!SaveBlank(s, isActive, isDefault)
        PROVE  AIP!SaveKey(s, isActive, isDefault) \/ AIP!SaveBlank(s, isActive, isDefault)
    BY <2>1 DEF AI!SaveKey, AIP!SaveKey, AI!SaveBlank, AIP!SaveBlank, AI!WriteRow, AIP!WriteRow,
       AI!Removed, AIP!Removed, AI!Defaults, AIP!Defaults
  <2>2. ASSUME NEW s \in Saves, AI!Refuse(s) \/ AI!ClearOthers(s)
        PROVE  AIP!Refuse(s) \/ AIP!ClearOthers(s)
    BY <2>2 DEF AI!Refuse, AIP!Refuse, AI!ClearOthers, AIP!ClearOthers, AI!Defaults, AIP!Defaults
  <2> QED
    BY <1>2, <2>1, <2>2 DEF ProviderGoesOn, AIP!Next
<1>3. CASE UNCHANGED providerVars
  BY <1>3 DEF providerVars, AIP!providerVars
<1> QED
  BY <1>1, <1>2, <1>3 DEF Next, vars, RowBegins, RowGoesOn, IssueBegins, IssueGoesOn, NoticeBegins,
     NoticeGoesOn, DeleteAccount

LEMMA ProvidersHold == Spec => AIP!Spec
  BY ProviderInit, ProviderStep, PTL DEF Spec, AIP!Spec

LEMMA ProvidersAssumed == AIP!ProvidersAssumption
  BY ConsoleAssumption DEF AI!ProvidersAssumption, AIP!ProvidersAssumption, AI!Rows, AIP!Rows,
     AI!Keys, AIP!Keys

\* "Keep a single default provider" (models.py:435): two are default only while one of them
\* has still to clear the other.
THEOREM SingleDefault == Spec => []DefaultsBeingCleared
<1>1. AIP!Spec => []AIP!DefaultsBeingCleared
  BY ProvidersAssumed, AIP!SingleDefault
<1>2. AIP!DefaultsBeingCleared => DefaultsBeingCleared
  BY DEF AIP!DefaultsBeingCleared, DefaultsBeingCleared, AI!DefaultsBeingCleared, AI!Defaults,
     AIP!Defaults
<1> QED
  BY <1>1, <1>2, ProvidersHold, PTL

\* Once made, there is a default until its flag is taken off, it is deleted or two saves meet
\* (models.py:436-439).
THEOREM DefaultIsKept == Spec => []DefaultStays
<1>1. AIP!Spec => []AIP!DefaultStays
  BY ProvidersAssumed, AIP!DefaultIsKept
<1>2. AIP!DefaultStays => DefaultStays
  BY DEF AIP!DefaultStays, DefaultStays, AI!DefaultStays, AI!Defaults, AIP!Defaults
<1> QED
  BY <1>1, <1>2, ProvidersHold, PTL

\* A provider has the key entered last, unless an edit that was open meanwhile was saved with
\* a blank key (forms.py:367-381).
THEOREM NewestKeyStays == Spec => []KeyStays
<1>1. AIP!Spec => []AIP!KeyStays
  BY ProvidersAssumed, AIP!NewestKeyStays
<1>2. AIP!KeyStays => KeyStays
  BY DEF AIP!KeyStays, KeyStays, AI!KeyStays
<1> QED
  BY <1>1, <1>2, ProvidersHold, PTL

-----------------------------------------------------------------------------
\* A click that has yet to create an issue or store its URL, or whose issue is known.
Live(c) == click[c] \in {"page", "store"} \/ c \in issues \ lost

\* An issue is created before the answer is stored; once it is, the finding has a URL.
Stored ==
  /\ \A c \in issues : click[c] \in {"store", "done"}
  /\ \A c \in Clicks : click[c] = "store" => c \in issues
  /\ \A c \in issues \ lost : click[c] = "done" => url[about[c]] # NoIssue

\* Clicks of one finding that are live have met: the second page was opened while the first
\* click had not stored its URL.
Met ==
  \A c, d \in Clicks : c # d /\ Live(c) /\ Live(d) /\ about[c] = about[d] => d \in alongside[c]

IssueInv == Issues!TypeOK /\ Stored /\ Met

LEMMA IssueInit == Init => IssueInv
  BY ConsoleAssumption DEF Issues!IssuesAssumption, Init, Issues!Init, IssueInv, Issues!TypeOK,
     Stored, Met, Live

\* A step after which fewer clicks are live, that alongside says nothing about.
LEMMA MetStays ==
  ASSUME Met, \A c \in Clicks : Live(c)' => Live(c), UNCHANGED <<about, alongside>>
  PROVE  Met'
  BY DEF Met

LEMMA IssueNext ==
  ASSUME Issues!IssuesAssumption, IssueInv, [Issues!Next]_issueVars PROVE IssueInv'
<1> USE DEF Issues!IssuesAssumption, IssueInv
<1>1. ASSUME NEW c \in Clicks, NEW f \in Findings, Issues!OpenPage(c, f) PROVE IssueInv'
  <2>1. Issues!TypeOK'
    BY <1>1 DEF Issues!OpenPage, Issues!TypeOK, Issues!UnderWay
  <2>2. c \notin issues
    BY <1>1 DEF Issues!OpenPage, Stored
  <2>3. Stored'
    BY <1>1, <2>2 DEF Issues!OpenPage, Stored, Issues!TypeOK
  <2>4. ASSUME NEW d \in Clicks, d # c, Live(d), about[d] = f PROVE d \in Issues!UnderWay(f)
    BY <1>1, <2>4 DEF Issues!OpenPage, Live, Stored, Issues!UnderWay, Issues!TypeOK
  <2>5. \A d \in Clicks : d # c => (Live(d)' <=> Live(d)) /\ about'[d] = about[d]
    BY <1>1 DEF Issues!OpenPage, Live, Issues!TypeOK
  <2>6. ASSUME NEW d \in Clicks, NEW e \in Clicks, d # e, Live(d)', Live(e)', about'[d] = about'[e]
        PROVE  e \in alongside'[d]
    <3>1. CASE d = c
      BY <1>1, <2>4, <2>5, <2>6, <3>1 DEF Issues!OpenPage, Issues!TypeOK
    <3>2. CASE e = c
      BY <1>1, <2>4, <2>5, <2>6, <3>2 DEF Issues!OpenPage, Issues!TypeOK
    <3>3. CASE d # c /\ e # c
      BY <1>1, <2>5, <2>6, <3>3 DEF Issues!OpenPage, Issues!TypeOK, Met
    <3> QED
      BY <3>1, <3>2, <3>3
  <2>7. Met'
    BY <2>6 DEF Met
  <2> QED
    BY <2>1, <2>3, <2>7
<1>2. ASSUME NEW c \in Clicks, Issues!Refuse(c) PROVE IssueInv'
  <2>1. \A d \in Clicks : Live(d)' => Live(d)
    BY <1>2 DEF Issues!Refuse, Issues!ClickEnds, Live, Issues!TypeOK
  <2>2. Met'
    BY <1>2, <2>1, MetStays DEF Issues!Refuse
  <2> QED
    BY <1>2, <2>2 DEF Issues!Refuse, Issues!ClickEnds, Issues!TypeOK, Stored
<1>3. ASSUME NEW c \in Clicks, Issues!Create(c) PROVE IssueInv'
  <2>1. \A d \in Clicks : Live(d)' => Live(d)
    BY <1>3 DEF Issues!Create, Live, Issues!TypeOK
  <2>2. Met'
    BY <1>3, <2>1, MetStays DEF Issues!Create
  <2> QED
    BY <1>3, <2>2 DEF Issues!Create, Issues!TypeOK, Stored
<1>4. ASSUME NEW c \in Clicks, Issues!CreateUnanswered(c) PROVE IssueInv'
  <2>1. \A d \in Clicks : Live(d)' => Live(d)
    BY <1>4 DEF Issues!CreateUnanswered, Issues!ClickEnds, Live, Issues!TypeOK
  <2>2. Met'
    BY <1>4, <2>1, MetStays DEF Issues!CreateUnanswered
  <2> QED
    BY <1>4, <2>2 DEF Issues!CreateUnanswered, Issues!ClickEnds, Issues!TypeOK, Stored
<1>5. ASSUME NEW c \in Clicks, Issues!Store(c) PROVE IssueInv'
  <2>1. \A d \in Clicks : Live(d)' => Live(d)
    BY <1>5 DEF Issues!Store, Issues!ClickEnds, Live, Issues!TypeOK
  <2>2. Met'
    BY <1>5, <2>1, MetStays DEF Issues!Store
  <2>3. Issues!TypeOK'
    BY <1>5 DEF Issues!Store, Issues!ClickEnds, Issues!TypeOK
  <2>4. Stored'
    BY <1>5 DEF Issues!Store, Issues!ClickEnds, Issues!TypeOK, Stored
  <2> QED
    BY <2>2, <2>3, <2>4
<1>6. ASSUME NEW c \in Clicks, Issues!StoreRaises(c) PROVE IssueInv'
  <2>1. \A d \in Clicks : Live(d)' => Live(d)
    BY <1>6 DEF Issues!StoreRaises, Issues!ClickEnds, Live, Issues!TypeOK
  <2>2. Met'
    BY <1>6, <2>1, MetStays DEF Issues!StoreRaises
  <2>3. Issues!TypeOK'
    <3>1. c \in issues
      BY <1>6 DEF Issues!StoreRaises, Stored
    <3> QED
      BY <1>6, <3>1 DEF Issues!StoreRaises, Issues!ClickEnds, Issues!TypeOK
  <2> QED
    BY <1>6, <2>2, <2>3 DEF Issues!StoreRaises, Issues!ClickEnds, Issues!TypeOK, Stored
<1>7. CASE Issues!Configure
  BY <1>7 DEF Issues!Configure, Issues!TypeOK, Stored, Met, Live
<1>8. CASE Issues!DropFindings
  BY <1>8 DEF Issues!DropFindings, Issues!TypeOK, Stored, Met, Live
<1>9. CASE UNCHANGED issueVars
  BY <1>9 DEF issueVars, Issues!TypeOK, Stored, Met, Live
<1> QED
  BY <1>1, <1>2, <1>3, <1>4, <1>5, <1>6, <1>7, <1>8, <1>9 DEF Issues!Next

LEMMA IssueStep == [Next]_vars => [Issues!Next]_issueVars
<1> SUFFICES ASSUME [Next]_vars PROVE Issues!Next \/ UNCHANGED issueVars
  OBVIOUS
<1>1. CASE IssueBegins
  BY <1>1 DEF IssueBegins, Issues!Next
<1>2. CASE IssueGoesOn
  BY <1>2 DEF IssueGoesOn, Issues!Next
<1>3. CASE DeleteAccount
  BY <1>3 DEF DeleteAccount, Issues!Next
<1>4. CASE UNCHANGED issueVars
  BY <1>4
<1> QED
  BY <1>1, <1>2, <1>3, <1>4 DEF Next, vars, RowBegins, RowGoesOn, ProviderBegins, ProviderGoesOn,
     NoticeBegins, NoticeGoesOn

\* A second issue of a finding comes from a page opened before the first one's URL was stored,
\* or an URL that never was (services.py:372-387).
THEOREM SecondIssue == Spec => []SecondIssueHasCause
<1>1. Issues!IssuesAssumption
  BY ConsoleAssumption
<1>2. IssueInv /\ [Next]_vars => IssueInv'
  BY <1>1, IssueStep, IssueNext
<1>3. IssueInv => SecondIssueHasCause
  BY DEF IssueInv, Issues!TypeOK, Met, Live, SecondIssueHasCause, Issues!SecondIssueHasCause
<1> QED
  BY <1>2, <1>3, IssueInit, PTL DEF Spec

-----------------------------------------------------------------------------
\* A dispatch is of a scan that succeeded, so the account's deletion takes its run along.
DispatchesScans ==
  /\ scan \in [Scans -> {"idle", "running", "finished", "succeeded", "failed"}]
  /\ dispatch \in [Scans -> {"idle", "fetching", "matching", "recording", "done", "raised"}]
  /\ \A s \in Scans : dispatch[s] # "idle" => scan[s] # "idle"

\* What the query for the subscriptions of the account finds of endpoint n, if anything.
Current(n) == IF n \in Active /\ sub[n] # NoSub /\ sub[n].enabled THEN sub[n] ELSE NoSub

\* Nobody is called before the subscriptions are read.
Untouched(d) == dispatch[d] \in {"idle", "fetching"} => posted[d] = {} /\ at[d] = 0

\* The list is stale only of endpoints that something happened to.
ListIsCurrent(d) == at[d] # 0 => \A n \in steady[d] : list[d][n] = Current(n)

\* The one posted to but not recorded.
BreaksAt(d) == dispatch[d] = "recording" \/ (dispatch[d] = "raised" /\ d \in cascaded)

\* Those the loop is past have been called if they were entitled, and the rest not yet.
Passed(d) ==
  /\ \A n \in posted[d] : n <= at[d] /\ (n = at[d] => BreaksAt(d))
  /\ \A n \in steady[d] : /\ n < at[d] => (n \in posted[d] <=> Notices!Entitled(d, n))
                          /\ n \in posted[d] => Notices!Entitled(d, n)

\* Each call has its record, but for the one being recorded.
Recorded(d) ==
  d \notin cascaded => \A n \in Notices!Endpoints :
    records[d][n] = IF n \in posted[d] /\ ~(n = at[d] /\ dispatch[d] = "recording") THEN 1 ELSE 0

\* Where the loop can be, and where it can end.
Places(d) ==
  /\ dispatch[d] \in {"matching", "recording", "raised"} => at[d] # 0
  /\ dispatch[d] = "recording" => at[d] \in posted[d] /\ at[d] \in Notices!Endpoints
  /\ dispatch[d] = "raised" => at[d] \in Broken \/ d \in cascaded
  /\ dispatch[d] = "done" => \/ at[d] = NumEndpoints + 1
                             \/ severities[d] = {} /\ at[d] = 0 /\ posted[d] = {}

\* Nothing is steady before a dispatch or after the deletion.
Steadiness(d) == d \in cascaded \/ dispatch[d] = "idle" => steady[d] = {}

NoticeInv ==
  \A d \in Scans : /\ Untouched(d) /\ ListIsCurrent(d) /\ Passed(d)
                   /\ Recorded(d) /\ Places(d) /\ Steadiness(d)

LEMMA DispatchesScansHolds == Spec => []DispatchesScans
<1>1. Init => DispatchesScans
  BY DEF Init, DispatchesScans, Notices!Init, Row!Init
<1>2. DispatchesScans /\ [Next]_vars => DispatchesScans'
  <2> SUFFICES ASSUME DispatchesScans, [Next]_vars PROVE DispatchesScans'
    OBVIOUS
  <2> USE DEF DispatchesScans
  <2>1. CASE RowBegins
    BY <2>1 DEF RowBegins, Row!RotateToken, Row!OpenEdit, Row!StartScan, noticeVars
  <2>2. CASE RowGoesOn
    <3>1. UNCHANGED dispatch
      BY <2>2 DEF RowGoesOn, noticeVars
    <3>2. ASSUME NEW e \in Edits,
                 Row!RefuseEdit(e) \/ Row!SaveBlank(e) \/ Row!SaveCredentials(e)
          PROVE  UNCHANGED scan
      BY <3>2 DEF Row!RefuseEdit, Row!SaveBlank, Row!SaveCredentials
    <3>3. ASSUME NEW s \in Scans, Row!FinishScan(s) \/ Row!EndScan(s) \/ Row!ScanFails(s)
          PROVE  /\ scan' \in [Scans -> {"idle", "running", "finished", "succeeded", "failed"}]
                 /\ \A d \in Scans : scan[d] # "idle" => scan'[d] # "idle"
      <4>1. \E p \in {"finished", "succeeded", "failed"} : scan' = [scan EXCEPT ![s] = p]
        BY <3>3 DEF Row!FinishScan, Row!EndScan, Row!WriteScanned, Row!ScanFails
      <4> QED
        BY <4>1
    <3> QED
      BY <2>2, <3>1, <3>2, <3>3 DEF RowGoesOn
  <2>3. CASE NoticeBegins
    BY <2>3 DEF NoticeBegins, Notices!Subscribe, Notices!ChangeRole, rowVars
  <2>4. CASE NoticeGoesOn
    BY <2>4 DEF NoticeGoesOn, Notices!Begin, Notices!DispatchStep, Notices!Fetch, Notices!Skip,
       Notices!Undecryptable,
       Notices!Post, Notices!Record, Notices!RecordRaises, Notices!Finish, rowVars
  <2>5. CASE DeleteAccount
    BY <2>5 DEF DeleteAccount, Row!DeleteAccount, Notices!Cascade
  <2>6. CASE UNCHANGED <<scan, dispatch>>
    BY <2>6
  <2> QED
    BY <2>1, <2>2, <2>3, <2>4, <2>5, <2>6 DEF Next, vars, ProviderBegins, ProviderGoesOn,
       IssueBegins,
       IssueGoesOn, rowVars, noticeVars
<1> QED
  BY <1>1, <1>2, PTL DEF Spec

LEMMA NoticeStep == DispatchesScans /\ [Next]_vars => [Notices!Next]_noticeVars
<1> SUFFICES ASSUME DispatchesScans, [Next]_vars PROVE Notices!Next \/ UNCHANGED noticeVars
  OBVIOUS
<1>1. CASE NoticeBegins
  BY <1>1 DEF NoticeBegins, Notices!Next, Notices!Endpoints
<1>2. CASE NoticeGoesOn
  BY <1>2 DEF NoticeGoesOn, Notices!Next
<1>3. CASE DeleteAccount
  <2>1. {d \in Scans : dispatch[d] # "idle"} \subseteq {s \in Scans : scan[s] # "idle"}
    BY DEF DispatchesScans
  <2> QED
    BY <1>3, <2>1 DEF DeleteAccount, Notices!Next
<1>4. CASE UNCHANGED noticeVars
  BY <1>4
<1> QED
  BY <1>1, <1>2, <1>3, <1>4 DEF Next, vars, RowBegins, RowGoesOn, ProviderBegins, ProviderGoesOn,
     IssueBegins, IssueGoesOn

LEMMA CountedUp ==
  ASSUME NEW S, NEW f \in [S -> Nat], NEW k
  PROVE  [f EXCEPT ![k] = @ + 1] \in [S -> Nat]
<1>1. CASE k \in S
  BY <1>1
<1>2. CASE k \notin S
  <2>1. [f EXCEPT ![k] = @ + 1] = f
    BY <1>2
  <2> QED
    BY <2>1
<1> QED
  BY <1>1, <1>2

LEMMA NoticeTypes == Notices!TypeOK /\ [Notices!Next]_noticeVars => Notices!TypeOK'
<1> SUFFICES ASSUME Notices!TypeOK, [Notices!Next]_noticeVars PROVE Notices!TypeOK'
  OBVIOUS
<1> USE ConsoleAssumption DEF Notices!TypeOK, Notices!NotificationsAssumption, Notices!Endpoints
<1>1. ASSUME NEW n \in Notices!Endpoints, NEW new \in Notices!Subs,
             Notices!Subscribe(n, new)
      PROVE  Notices!TypeOK'
  BY <1>1 DEF Notices!Subscribe, Notices!Unsteady
<1>2. ASSUME NEW u \in Users, Notices!ChangeRole(u) PROVE Notices!TypeOK'
  BY <1>2 DEF Notices!ChangeRole, Notices!Unsteady
<1>3. ASSUME NEW runs \in SUBSET Scans, Notices!Cascade(runs),
             {d \in Scans : dispatch[d] # "idle"} \subseteq runs PROVE Notices!TypeOK'
  BY <1>3 DEF Notices!Cascade, Notices!Unsteady
<1>4. ASSUME NEW d \in Scans, NEW found \in SUBSET Severities,
             Notices!Begin(d, found)
      PROVE  Notices!TypeOK'
  BY <1>4 DEF Notices!Begin
<1>5. ASSUME NEW d \in Scans, Notices!Fetch(d) PROVE Notices!TypeOK'
  BY <1>5 DEF Notices!Fetch
<1>6. ASSUME NEW d \in Scans, Notices!Skip(d) PROVE Notices!TypeOK'
  BY <1>6 DEF Notices!Skip
<1>7. ASSUME NEW d \in Scans, Notices!Undecryptable(d) PROVE Notices!TypeOK'
  BY <1>7 DEF Notices!Undecryptable
<1>8. ASSUME NEW d \in Scans, Notices!Post(d) PROVE Notices!TypeOK'
  BY <1>8 DEF Notices!Post
<1>9. ASSUME NEW d \in Scans, Notices!Record(d) PROVE Notices!TypeOK'
  <2>1. records' \in [Scans -> [Notices!Endpoints -> Nat]]
    <3>1. records[d] \in [Notices!Endpoints -> Nat]
      OBVIOUS
    <3>2. [records[d] EXCEPT ![at[d]] = @ + 1] \in [Notices!Endpoints -> Nat]
      BY ONLY <3>1, CountedUp
    <3> QED
      BY <1>9, <3>2 DEF Notices!Record
  <2> QED
    BY <1>9, <2>1 DEF Notices!Record
<1>10. ASSUME NEW d \in Scans, Notices!RecordRaises(d) PROVE Notices!TypeOK'
  BY <1>10 DEF Notices!RecordRaises
<1>11. ASSUME NEW d \in Scans, Notices!Finish(d) PROVE Notices!TypeOK'
  BY <1>11 DEF Notices!Finish
<1>12. CASE UNCHANGED noticeVars
  BY <1>12 DEF noticeVars
<1> QED
  BY <1>1, <1>2, <1>3, <1>4, <1>5, <1>6, <1>7, <1>8, <1>9, <1>10, <1>11, <1>12 DEF Notices!Next,
     Notices!DispatchStep

LEMMA NoticeInvStep ==
  Notices!TypeOK /\ NoticeInv /\ [Notices!Next]_noticeVars => NoticeInv'
<1> SUFFICES ASSUME Notices!TypeOK, NoticeInv, [Notices!Next]_noticeVars,
                    NEW e \in Scans
             PROVE  /\ Untouched(e)' /\ ListIsCurrent(e)' /\ Passed(e)'
                    /\ Recorded(e)' /\ Places(e)' /\ Steadiness(e)'
  BY DEF NoticeInv
<1> DEFINE Goal == /\ Untouched(e)' /\ ListIsCurrent(e)' /\ Passed(e)'
                   /\ Recorded(e)' /\ Places(e)' /\ Steadiness(e)'
<1>e. /\ Untouched(e) /\ ListIsCurrent(e) /\ Passed(e)
      /\ Recorded(e) /\ Places(e) /\ Steadiness(e)
  BY DEF NoticeInv
<1> USE ConsoleAssumption, NoticeTypes
    DEF Notices!TypeOK, Notices!NotificationsAssumption, Notices!Endpoints
<1>1. ASSUME NEW n \in Notices!Endpoints, NEW new \in Notices!Subs,
             Notices!Subscribe(n, new)
      PROVE  Goal
  <2>1. Untouched(e)'
    BY <1>1, <1>e DEF Notices!Subscribe, Notices!Unsteady, Untouched
  <2>2. ListIsCurrent(e)'
    BY <1>1, <1>e DEF Notices!Subscribe, Notices!Unsteady, ListIsCurrent, Current, Untouched
  <2>3. Passed(e)'
    BY <1>1, <1>e DEF Notices!Subscribe, Notices!Unsteady, Passed, BreaksAt, Notices!Entitled,
       Notices!Matches, Current, Places, ListIsCurrent, Notices!Wanted, Untouched, Steadiness
  <2>4. Recorded(e)'
    BY <1>1, <1>e DEF Notices!Subscribe, Notices!Unsteady, Recorded, Places, Passed, BreaksAt,
       Untouched
  <2>5. Places(e)'
    BY <1>1, <1>e DEF Notices!Subscribe, Notices!Unsteady, Places, Notices!Wanted, Untouched
  <2>6. Steadiness(e)'
    BY <1>1, <1>e DEF Notices!Subscribe, Notices!Unsteady, Steadiness
  <2> QED
    BY <2>1, <2>2, <2>3, <2>4, <2>5, <2>6
<1>2. ASSUME NEW u \in Users, Notices!ChangeRole(u) PROVE Goal
  <2>1. Untouched(e)'
    BY <1>2, <1>e DEF Notices!ChangeRole, Notices!Unsteady, Untouched
  <2>2. ListIsCurrent(e)'
    BY <1>2, <1>e DEF Notices!ChangeRole, Notices!Unsteady, ListIsCurrent, Current, Untouched
  <2>3. Passed(e)'
    BY <1>2, <1>e DEF Notices!ChangeRole, Notices!Unsteady, Passed, BreaksAt, Notices!Entitled,
       Notices!Matches, Current, Places, ListIsCurrent, Notices!Wanted, Untouched, Steadiness
  <2>4. Recorded(e)'
    BY <1>2, <1>e DEF Notices!ChangeRole, Notices!Unsteady, Recorded, Places, Passed, BreaksAt,
       Untouched
  <2>5. Places(e)'
    BY <1>2, <1>e DEF Notices!ChangeRole, Notices!Unsteady, Places, Notices!Wanted, Untouched
  <2>6. Steadiness(e)'
    BY <1>2, <1>e DEF Notices!ChangeRole, Notices!Unsteady, Steadiness
  <2> QED
    BY <2>1, <2>2, <2>3, <2>4, <2>5, <2>6
<1>3. ASSUME NEW runs \in SUBSET Scans, Notices!Cascade(runs),
             {d \in Scans : dispatch[d] # "idle"} \subseteq runs PROVE Goal
  <2>1. Untouched(e)'
    BY <1>3, <1>e DEF Notices!Cascade, Notices!Unsteady, Untouched
  <2>2. ListIsCurrent(e)'
    BY <1>3, <1>e DEF Notices!Cascade, Notices!Unsteady, ListIsCurrent, Current, Untouched
  <2>3. Passed(e)'
    BY <1>3, <1>e DEF Notices!Cascade, Notices!Unsteady, Passed, BreaksAt, Notices!Entitled,
       Notices!Matches, Current, Places, ListIsCurrent, Notices!Wanted, Untouched, Steadiness
  <2>4. Recorded(e)'
    BY <1>3, <1>e DEF Notices!Cascade, Notices!Unsteady, Recorded, Places, Passed, BreaksAt,
       Untouched
  <2>5. Places(e)'
    BY <1>3, <1>e DEF Notices!Cascade, Notices!Unsteady, Places, Notices!Wanted, Untouched
  <2>6. Steadiness(e)'
    BY <1>3, <1>e DEF Notices!Cascade, Notices!Unsteady, Steadiness
  <2> QED
    BY <2>1, <2>2, <2>3, <2>4, <2>5, <2>6
<1>4. ASSUME NEW d \in Scans, NEW found \in SUBSET Severities, Notices!Begin(d, found) PROVE Goal
  <2>1. Untouched(e)'
    BY <1>4, <1>e DEF Notices!Begin, Untouched
  <2>2. ListIsCurrent(e)'
    BY <1>4, <1>e DEF Notices!Begin, ListIsCurrent, Current, Untouched
  <2>3. Passed(e)'
    <3>1. CASE e # d
      BY <1>4, <1>e, <3>1 DEF Notices!Begin, Passed, BreaksAt, Notices!Entitled, Notices!Matches
    <3>2. CASE e = d
      <4>1. posted'[d] = {} /\ at'[d] = 0
        BY <1>4, <1>e, <3>2 DEF Notices!Begin, Untouched
      <4> QED
        BY <3>2, <4>1 DEF Passed
    <3> QED
      BY <3>1, <3>2
  <2>4. Recorded(e)'
    BY <1>4, <1>e DEF Notices!Begin, Recorded, Places, Passed, BreaksAt, Untouched
  <2>5. Places(e)'
    BY <1>4, <1>e DEF Notices!Begin, Places, Notices!Wanted, Untouched
  <2>6. Steadiness(e)'
    BY <1>4, <1>e DEF Notices!Begin, Steadiness
  <2> QED
    BY <2>1, <2>2, <2>3, <2>4, <2>5, <2>6
<1>5. ASSUME NEW d \in Scans, Notices!Fetch(d) PROVE Goal
  <2>1. Untouched(e)'
    BY <1>5, <1>e DEF Notices!Fetch, Untouched
  <2>2. ListIsCurrent(e)'
    BY <1>5, <1>e DEF Notices!Fetch, ListIsCurrent, Current, Untouched
  <2>3. Passed(e)'
    BY <1>5, <1>e DEF Notices!Fetch, Passed, BreaksAt, Notices!Entitled, Notices!Matches,
       Current, Places, ListIsCurrent, Notices!Wanted, Untouched, Steadiness
  <2>4. Recorded(e)'
    BY <1>5, <1>e DEF Notices!Fetch, Recorded, Places, Passed, BreaksAt, Untouched
  <2>5. Places(e)'
    BY <1>5, <1>e DEF Notices!Fetch, Places, Notices!Wanted, Untouched
  <2>6. Steadiness(e)'
    BY <1>5, <1>e DEF Notices!Fetch, Steadiness
  <2> QED
    BY <2>1, <2>2, <2>3, <2>4, <2>5, <2>6
<1>6. ASSUME NEW d \in Scans, Notices!Skip(d) PROVE Goal
  <2>1. Untouched(e)'
    BY <1>6, <1>e DEF Notices!Skip, Untouched
  <2>2. ListIsCurrent(e)'
    BY <1>6, <1>e DEF Notices!Skip, ListIsCurrent, Current, Untouched
  <2>3. Passed(e)'
    <3>1. CASE e # d
      BY <1>6, <1>e, <3>1 DEF Notices!Skip, Passed, BreaksAt, Notices!Entitled, Notices!Matches
    <3>2. CASE e = d
      <4>1. /\ at[d] \in 1..NumEndpoints /\ at'[d] = at[d] + 1
            /\ posted' = posted /\ steady' = steady
            /\ \A n \in Notices!Endpoints : Notices!Entitled(d, n)' <=> Notices!Entitled(d, n)
        BY <1>6 DEF Notices!Skip, Notices!Entitled, Notices!Matches
      <4>2. at[d] \notin posted[d]
        BY <1>6, <1>e, <3>2 DEF Notices!Skip, Passed, BreaksAt
      <4>3. at[d] \in steady[d] => ~Notices!Entitled(d, at[d])
        BY <1>6, <1>e, <3>2, <4>1 DEF Notices!Skip, ListIsCurrent, Current, Notices!Wanted,
           Notices!Entitled
      <4>4. \A n \in posted[d] : n < at'[d]
        BY <1>e, <3>2, <4>1 DEF Passed
      <4>5. \A n \in steady[d] : n < at'[d] => n < at[d] \/ n = at[d]
        BY <4>1
      <4> QED
        BY <1>e, <3>2, <4>1, <4>2, <4>3, <4>4, <4>5 DEF Passed
    <3> QED
      BY <3>1, <3>2
  <2>4. Recorded(e)'
    BY <1>6, <1>e DEF Notices!Skip, Recorded, Places, Passed, BreaksAt, Untouched
  <2>5. Places(e)'
    BY <1>6, <1>e DEF Notices!Skip, Places, Notices!Wanted, Untouched
  <2>6. Steadiness(e)'
    BY <1>6, <1>e DEF Notices!Skip, Steadiness
  <2> QED
    BY <2>1, <2>2, <2>3, <2>4, <2>5, <2>6
<1>7. ASSUME NEW d \in Scans, Notices!Undecryptable(d) PROVE Goal
  <2>1. Untouched(e)'
    BY <1>7, <1>e DEF Notices!Undecryptable, Untouched
  <2>2. ListIsCurrent(e)'
    BY <1>7, <1>e DEF Notices!Undecryptable, ListIsCurrent, Current, Untouched
  <2>3. Passed(e)'
    BY <1>7, <1>e DEF Notices!Undecryptable, Passed, BreaksAt, Notices!Entitled, Notices!Matches,
       Current, Places, ListIsCurrent, Notices!Wanted, Untouched, Steadiness
  <2>4. Recorded(e)'
    BY <1>7, <1>e DEF Notices!Undecryptable, Recorded, Places, Passed, BreaksAt, Untouched
  <2>5. Places(e)'
    BY <1>7, <1>e DEF Notices!Undecryptable, Places, Notices!Wanted, Untouched
  <2>6. Steadiness(e)'
    BY <1>7, <1>e DEF Notices!Undecryptable, Steadiness
  <2> QED
    BY <2>1, <2>2, <2>3, <2>4, <2>5, <2>6
<1>8. ASSUME NEW d \in Scans, Notices!Post(d) PROVE Goal
  <2>1. Untouched(e)'
    BY <1>8, <1>e DEF Notices!Post, Untouched
  <2>2. ListIsCurrent(e)'
    BY <1>8, <1>e DEF Notices!Post, ListIsCurrent, Current, Untouched
  <2>3. Passed(e)'
    <3>1. CASE e # d
      BY <1>8, <1>e, <3>1 DEF Notices!Post, Passed, BreaksAt, Notices!Entitled, Notices!Matches
    <3>2. CASE e = d
      <4>1. /\ at[d] \in 1..NumEndpoints /\ at' = at /\ steady' = steady
            /\ posted'[d] = posted[d] \cup {at[d]} /\ dispatch'[d] = "recording"
            /\ \A n \in Notices!Endpoints : Notices!Entitled(d, n)' <=> Notices!Entitled(d, n)
        BY <1>8 DEF Notices!Post, Notices!Entitled, Notices!Matches
      <4>2. at[d] \in steady[d] => Notices!Entitled(d, at[d])
        BY <1>8, <1>e, <3>2, <4>1 DEF Notices!Post, ListIsCurrent, Current, Notices!Wanted,
           Notices!Entitled
      <4>3. \A n \in posted'[d] : n <= at'[d]
        BY <1>e, <3>2, <4>1 DEF Passed
      <4> QED
        BY <1>e, <3>2, <4>1, <4>2, <4>3 DEF Passed, BreaksAt
    <3> QED
      BY <3>1, <3>2
  <2>4. Recorded(e)'
    BY <1>8, <1>e DEF Notices!Post, Recorded, Places, Passed, BreaksAt, Untouched
  <2>5. Places(e)'
    BY <1>8, <1>e DEF Notices!Post, Places, Notices!Wanted, Untouched
  <2>6. Steadiness(e)'
    BY <1>8, <1>e DEF Notices!Post, Steadiness
  <2> QED
    BY <2>1, <2>2, <2>3, <2>4, <2>5, <2>6
<1>9. ASSUME NEW d \in Scans, Notices!Record(d) PROVE Goal
  <2>1. Untouched(e)'
    BY <1>9, <1>e DEF Notices!Record, Untouched
  <2>2. ListIsCurrent(e)'
    BY <1>9, <1>e DEF Notices!Record, ListIsCurrent, Current, Untouched
  <2>3. Passed(e)'
    BY <1>9, <1>e DEF Notices!Record, Passed, BreaksAt, Notices!Entitled, Notices!Matches,
       Current, Places, ListIsCurrent, Notices!Wanted, Untouched, Steadiness
  <2>4. Recorded(e)'
    BY <1>9, <1>e DEF Notices!Record, Recorded, Places, Passed, BreaksAt, Untouched
  <2>5. Places(e)'
    BY <1>9, <1>e DEF Notices!Record, Places, Notices!Wanted, Untouched
  <2>6. Steadiness(e)'
    BY <1>9, <1>e DEF Notices!Record, Steadiness
  <2> QED
    BY <2>1, <2>2, <2>3, <2>4, <2>5, <2>6
<1>10. ASSUME NEW d \in Scans, Notices!RecordRaises(d) PROVE Goal
  <2>1. Untouched(e)'
    BY <1>10, <1>e DEF Notices!RecordRaises, Untouched
  <2>2. ListIsCurrent(e)'
    BY <1>10, <1>e DEF Notices!RecordRaises, ListIsCurrent, Current, Untouched
  <2>3. Passed(e)'
    BY <1>10, <1>e DEF Notices!RecordRaises, Passed, BreaksAt, Notices!Entitled, Notices!Matches,
       Current, Places, ListIsCurrent, Notices!Wanted, Untouched, Steadiness
  <2>4. Recorded(e)'
    BY <1>10, <1>e DEF Notices!RecordRaises, Recorded, Places, Passed, BreaksAt, Untouched
  <2>5. Places(e)'
    BY <1>10, <1>e DEF Notices!RecordRaises, Places, Notices!Wanted, Untouched
  <2>6. Steadiness(e)'
    BY <1>10, <1>e DEF Notices!RecordRaises, Steadiness
  <2> QED
    BY <2>1, <2>2, <2>3, <2>4, <2>5, <2>6
<1>11. ASSUME NEW d \in Scans, Notices!Finish(d) PROVE Goal
  <2>1. Untouched(e)'
    BY <1>11, <1>e DEF Notices!Finish, Untouched
  <2>2. ListIsCurrent(e)'
    BY <1>11, <1>e DEF Notices!Finish, ListIsCurrent, Current, Untouched
  <2>3. Passed(e)'
    BY <1>11, <1>e DEF Notices!Finish, Passed, BreaksAt, Notices!Entitled, Notices!Matches,
       Current, Places, ListIsCurrent, Notices!Wanted, Untouched, Steadiness
  <2>4. Recorded(e)'
    BY <1>11, <1>e DEF Notices!Finish, Recorded, Places, Passed, BreaksAt, Untouched
  <2>5. Places(e)'
    BY <1>11, <1>e DEF Notices!Finish, Places, Notices!Wanted, Untouched
  <2>6. Steadiness(e)'
    BY <1>11, <1>e DEF Notices!Finish, Steadiness
  <2> QED
    BY <2>1, <2>2, <2>3, <2>4, <2>5, <2>6
<1>12. CASE UNCHANGED noticeVars
  BY <1>12, <1>e DEF noticeVars, Untouched, ListIsCurrent, Current, Passed, BreaksAt,
     Notices!Entitled, Notices!Matches, Recorded, Places, Steadiness
<1> QED
  BY <1>1, <1>2, <1>3, <1>4, <1>5, <1>6, <1>7, <1>8, <1>9, <1>10, <1>11, <1>12 DEF Notices!Next,
     Notices!DispatchStep

\* Of the endpoints that nothing happened to during a dispatch, those entitled are called and no
\* other is, up to where it broke off, and each call has its record (services.py:532-561),
\* whatever users do to roles and subscriptions meanwhile and whenever the account is deleted.
THEOREM EntitledHear == Spec => []EntitledAreTold
<1>1. Init => Notices!TypeOK /\ NoticeInv
  BY ConsoleAssumption DEF Init, Notices!Init, Notices!TypeOK, Notices!NotificationsAssumption,
     Notices!Endpoints,
     NoticeInv, Untouched, ListIsCurrent, Passed, Recorded, Places, Steadiness
<1>2. Notices!TypeOK /\ NoticeInv /\ DispatchesScans /\ [Next]_vars
        => (Notices!TypeOK /\ NoticeInv)'
  BY NoticeStep, NoticeTypes, NoticeInvStep
<1>3. Notices!TypeOK /\ NoticeInv => EntitledAreTold
  <2> SUFFICES ASSUME Notices!TypeOK, NoticeInv, NEW d \in Scans, Notices!Over(d),
                      NEW n \in Notices!Endpoints
               PROVE  /\ n \in steady[d] /\ n \in posted[d] => Notices!Entitled(d, n)
                      /\ n \in steady[d] /\ Notices!Entitled(d, n) =>
                           \/ n \in posted[d]
                           \/ /\ dispatch[d] = "raised" /\ at[d] <= n
                              /\ at[d] \in Broken \/ d \in cascaded
                      /\ d \notin cascaded => records[d][n] = IF n \in posted[d] THEN 1 ELSE 0
    BY DEF EntitledAreTold, Notices!EntitledAreTold
  <2>1. Passed(d) /\ Recorded(d) /\ Places(d)
    BY DEF NoticeInv
  <2>2. n \in steady[d] /\ n \in posted[d] => Notices!Entitled(d, n)
    BY <2>1 DEF Passed
  <2>3. d \notin cascaded => records[d][n] = IF n \in posted[d] THEN 1 ELSE 0
    BY <2>1 DEF Recorded, Notices!Over
  <2>4. ASSUME n \in steady[d], Notices!Entitled(d, n), n \notin posted[d]
        PROVE  dispatch[d] = "raised" /\ at[d] <= n /\ (at[d] \in Broken \/ d \in cascaded)
    <3>1. at[d] \in Int /\ n \in Int /\ ~(n < at[d])
      BY <2>1, <2>4, ConsoleAssumption DEF Passed, Notices!TypeOK,
         Notices!NotificationsAssumption, Notices!Endpoints
    <3>2. dispatch[d] # "done"
      BY <2>1, <2>4, <3>1, ConsoleAssumption DEF Places, Notices!Endpoints,
         Notices!NotificationsAssumption,
         Notices!Entitled, Notices!Matches
    <3> QED
      BY <2>1, <3>1, <3>2 DEF Places, Notices!Over
  <2> QED
    BY <2>2, <2>3, <2>4
<1> QED
  BY <1>1, <1>2, <1>3, DispatchesScansHolds, PTL DEF Spec
============================================================================
