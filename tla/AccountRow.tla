----------------------------- MODULE AccountRow -----------------------------
(***************************************************************************)
(* One row of CloudAccount and those who write it: the edit form, which     *)
(* saves every column of the object its request loaded, the rotation of the *)
(* webhook token and the end of a scan, which save theirs only, and the     *)
(* deletion.  A step is one statement.  Of a column matters how often it    *)
(* was made anew: 0 is what the account was created with, which for         *)
(* last_scan_at is null.                                                    *)
(***************************************************************************)
EXTENDS Integers, FiniteSets

CONSTANTS
  Edits,      \* POST requests to account_edit
  Scans,      \* runs of the account
  MaxVersion, \* bound: times a column is made anew
  NoRow

\* webhook_token, encrypted_credentials, last_scan_at
Columns  == {"token", "credentials", "scanned"}
Versions == 0..MaxVersion

RowAssumption ==
  /\ MaxVersion \in Nat /\ NoRow \notin [Columns -> Versions]

VARIABLES
  row,      \* the row, or NoRow
  edit,     \* where each edit is
  loaded,   \* the object its request loaded
  scan,     \* where each run is
  stamp,    \* stamp[s]: the finished_at of run s, as a version of last_scan_at; 0 before
  \* history
  newest,   \* newest[c]: the newest version of c that was written
  crossed,  \* crossed[e]: what was made anew, or that the row was deleted, while e was open
  deleted,
  late      \* runs that wrote their time over a newer one

rowVars == <<row, edit, loaded, scan, stamp, newest, crossed, deleted, late>>

Init ==
  /\ row = [c \in Columns |-> 0]
  /\ edit = [e \in Edits |-> "idle"] /\ loaded = [e \in Edits |-> NoRow]
  /\ scan = [s \in Scans |-> "idle"] /\ stamp = [s \in Scans |-> 0]
  /\ newest = [c \in Columns |-> 0] /\ crossed = [e \in Edits |-> {}] /\ deleted = FALSE
  /\ late = {}

-----------------------------------------------------------------------------
\* It happens while edits are open, of which those in saving end with it.
Crossing(what, saving) ==
  crossed' = [e \in Edits |-> IF edit[e] = "open" /\ e \notin saving THEN crossed[e] \cup {what}
                              ELSE crossed[e]]

\* account_edit: get_object_or_404, and the role of the user.
OpenEdit(e) ==
  /\ edit[e] = "idle" /\ row # NoRow
  /\ edit' = [edit EXCEPT ![e] = "open"]
  /\ loaded' = [loaded EXCEPT ![e] = row]
  /\ UNCHANGED <<row, scan, stamp, newest, crossed, deleted, late>>

\* The form is not valid.
RefuseEdit(e) ==
  /\ edit[e] = "open"
  /\ edit' = [edit EXCEPT ![e] = "refused"]
  /\ UNCHANGED <<row, loaded, scan, stamp, newest, crossed, deleted, late>>

\* save() of the whole object, credentials left blank being kept: an UPDATE, or an INSERT
\* if there is no row.
SaveBlank(e) ==
  /\ edit[e] = "open"
  /\ edit' = [edit EXCEPT ![e] = "saved"]
  /\ row' = loaded[e]
  /\ UNCHANGED <<loaded, scan, stamp, newest, crossed, deleted, late>>

SaveCredentials(e) ==
  /\ edit[e] = "open" /\ newest["credentials"] < MaxVersion
  /\ edit' = [edit EXCEPT ![e] = "saved"]
  /\ newest' = [newest EXCEPT !["credentials"] = @ + 1]
  /\ row' = [loaded[e] EXCEPT !["credentials"] = newest["credentials"] + 1]
  /\ Crossing("credentials", {e})
  /\ UNCHANGED <<loaded, scan, stamp, deleted, late>>

\* Mutant: the new token is shown but not saved.
RotateTokenUnsaved ==
  /\ row # NoRow /\ newest["token"] < MaxVersion
  /\ newest' = [newest EXCEPT !["token"] = @ + 1]
  /\ UNCHANGED <<row, crossed, edit, loaded, scan, stamp, deleted, late>>

\* account_token_regenerate: save(update_fields).
RotateToken ==
  /\ row # NoRow /\ newest["token"] < MaxVersion
  /\ newest' = [newest EXCEPT !["token"] = @ + 1]
  /\ row' = [row EXCEPT !["token"] = newest["token"] + 1]
  /\ Crossing("token", {})
  /\ UNCHANGED <<edit, loaded, scan, stamp, deleted, late>>

\* account_scan, the scheduler, the workers; webhook_scan_trigger, for the token in the row.
StartScan(s) ==
  /\ scan[s] = "idle" /\ row # NoRow
  /\ scan' = [scan EXCEPT ![s] = "running"]
  /\ UNCHANGED <<row, edit, loaded, stamp, newest, crossed, deleted, late>>

\* mark_success reads the clock and saves the run; the account is not yet written.
FinishScan(s) ==
  /\ scan[s] = "running"
  /\ \E v \in 1..MaxVersion :
       /\ \A z \in Scans : stamp[z] < v
       /\ v = 1 \/ \E z \in Scans : stamp[z] = v - 1
       /\ stamp' = [stamp EXCEPT ![s] = v]
  /\ scan' = [scan EXCEPT ![s] = "finished"]
  /\ UNCHANGED <<row, edit, loaded, newest, crossed, deleted, late>>

\* The time is written: newest is the newest there was, and a run may come late.
WriteScanned(s) ==
  /\ scan' = [scan EXCEPT ![s] = "succeeded"]
  /\ newest' = [newest EXCEPT !["scanned"] = IF stamp[s] > @ THEN stamp[s] ELSE @]
  /\ late' = IF stamp[s] < newest["scanned"] THEN late \cup {s} ELSE late
  /\ Crossing("scanned", {})
  /\ UNCHANGED <<edit, loaded, stamp, deleted>>

\* Mutant: mark_success saves the whole object, which brings the row back.
EndScanWhole(s) ==
  /\ scan[s] = "finished"
  /\ row' = [newest EXCEPT !["scanned"] = stamp[s]]
  /\ WriteScanned(s)

\* mark_success: account.save(update_fields) in the row there is.
EndScan(s) ==
  /\ scan[s] = "finished" /\ row # NoRow
  /\ row' = [row EXCEPT !["scanned"] = stamp[s]]
  /\ WriteScanned(s)

\* The run fails, or its account was deleted: a save with update_fields raises then.
ScanFails(s) ==
  /\ scan[s] \in {"running", "finished"}
  /\ scan' = [scan EXCEPT ![s] = "failed"]
  /\ UNCHANGED <<row, edit, loaded, stamp, newest, crossed, deleted, late>>

\* account_delete.
DeleteAccount ==
  /\ row # NoRow
  /\ row' = NoRow
  /\ deleted' = TRUE
  /\ Crossing("row", {})
  /\ UNCHANGED <<edit, loaded, scan, stamp, newest, late>>

Next ==
  \/ RotateToken \/ DeleteAccount
  \/ \E e \in Edits : OpenEdit(e) \/ RefuseEdit(e) \/ SaveBlank(e) \/ SaveCredentials(e)
  \/ \E s \in Scans : StartScan(s) \/ FinishScan(s) \/ EndScan(s) \/ ScanFails(s)

Spec == Init /\ [][Next]_rowVars

-----------------------------------------------------------------------------
(* Properties. *)

TypeOK ==
  /\ row \in [Columns -> Versions] \cup {NoRow}
  /\ edit \in [Edits -> {"idle", "open", "refused", "saved"}]
  /\ loaded \in [Edits -> [Columns -> Versions] \cup {NoRow}]
  /\ \A e \in Edits : edit[e] # "idle" => loaded[e] # NoRow
  /\ scan \in [Scans -> {"idle", "running", "finished", "succeeded", "failed"}]
  /\ stamp \in [Scans -> Versions]
  /\ newest \in [Columns -> Versions]
  /\ crossed \in [Edits -> SUBSET (Columns \cup {"row"})]
  /\ deleted \in BOOLEAN /\ late \subseteq Scans

\* An edit that was open while c was made anew (or the row deleted) has been saved.
Undone(c) == \E e \in Edits : edit[e] = "saved" /\ c \in crossed[e]

\* Only an edit that was open meanwhile takes back what was written (views.py:166-169): the
\* token the trigger accepts (models.py:40-44) is the one rotated to last, the credentials
\* those entered last, whatever else is saved.  last_scan_at is that of the scan that ended
\* last: of two scans that end together, the one that has read the clock first may write
\* last (models.py:129-133).
OnlyOverlapUndoes ==
  row # NoRow => \A c \in Columns : \/ row[c] = newest[c] \/ Undone(c)
                                    \/ c = "scanned" /\ late # {}

\* A deleted account comes back only by an edit that was open when it was deleted, whose
\* save() inserts the row (views.py:169): not by a token rotated nor by a scan that ends.
DeletedStaysDeleted == deleted /\ row # NoRow => Undone("row")
=============================================================================
