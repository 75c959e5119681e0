----------------------------- MODULE AIProviders -----------------------------
(***************************************************************************)
(* The rows of AIProvider, one of which is to be the default.  Admins save  *)
(* forms at the same time.  save() writes the row and then, if the row is   *)
(* the default, takes the flag from all others: two statements, in no       *)
(* transaction.                                                             *)
(***************************************************************************)
EXTENDS Integers

CONSTANTS
  Providers,  \* rows there may be
  Saves,      \* POST requests to ai_provider_create and ai_provider_edit
  MaxKey,     \* bound: keys entered for one provider
  NoProvider, NoRow

Keys == 0..MaxKey
Rows == [active : BOOLEAN, isDefault : BOOLEAN, key : Keys]

ProvidersAssumption == MaxKey \in Nat /\ NoRow \notin Rows /\ NoProvider \notin Providers

VARIABLES
  providers,  \* the rows
  save,       \* where each save is
  object,     \* the provider it saves
  loaded,     \* the row it loaded, or NoRow
  \* history
  born,       \* providers there have ever been
  newest,     \* newest[p]: the key entered last
  crossed,    \* crossed[s]: a key was entered for its provider while s was open
  standing    \* the default: "never" made; "kept" since it was; "removed", when a default was
              \* unticked or deleted; "raced", made before the second statement of another save

providerVars == <<providers, save, object, loaded, born, newest, crossed, standing>>

Defaults == {p \in Providers : providers[p] # NoRow /\ providers[p].isDefault}

\* The flag of p goes.
Removed(p) == IF p \in Defaults /\ standing = "kept" THEN "removed" ELSE standing

Init ==
  /\ providers = [p \in Providers |-> NoRow]
  /\ save = [s \in Saves |-> "idle"] /\ object = [s \in Saves |-> NoProvider]
  /\ loaded = [s \in Saves |-> NoRow]
  /\ born = {} /\ newest = [p \in Providers |-> 0] /\ crossed = [s \in Saves |-> FALSE]
  /\ standing = "never"

-----------------------------------------------------------------------------
\* ai_provider_create: a form without an instance.
OpenCreate(s, p) ==
  /\ save[s] = "idle" /\ p \notin born
  /\ born' = born \cup {p}
  /\ save' = [save EXCEPT ![s] = "open"] /\ object' = [object EXCEPT ![s] = p]
  /\ UNCHANGED <<providers, loaded, newest, crossed, standing>>

\* ai_provider_edit: get_object_or_404.
OpenEdit(s, p) ==
  /\ save[s] = "idle" /\ providers[p] # NoRow
  /\ save' = [save EXCEPT ![s] = "open"] /\ object' = [object EXCEPT ![s] = p]
  /\ loaded' = [loaded EXCEPT ![s] = providers[p]]
  /\ UNCHANGED <<providers, born, newest, crossed, standing>>

\* The first statement of save(): an UPDATE of every column, or an INSERT.
WriteRow(s, new) ==
  /\ save[s] = "open"
  /\ providers' = [providers EXCEPT ![object[s]] = new]
  /\ save' = [save EXCEPT ![s] = IF new.isDefault THEN "clear" ELSE "saved"]
  /\ standing' = IF ~new.isDefault THEN Removed(object[s])
                 ELSE IF \E z \in Saves : save[z] = "clear" THEN "raced" ELSE "kept"
  /\ UNCHANGED <<object, loaded, born>>

\* A key was entered.
SaveKey(s, active, isDefault) ==
  LET p == object[s] IN
  /\ save[s] = "open" /\ newest[p] < MaxKey
  /\ WriteRow(s, [active |-> active, isDefault |-> isDefault, key |-> newest[p] + 1])
  /\ newest' = [newest EXCEPT ![p] = @ + 1]
  /\ crossed' = [z \in Saves |-> crossed[z] \/ (save[z] = "open" /\ object[z] = p /\ z # s)]

\* Mutant: a blank field is saved as the key of a new provider.
SaveBlankForgets(s, active, isDefault) ==
  /\ save[s] = "open" /\ loaded[s] # NoRow
  /\ WriteRow(s, [active |-> active, isDefault |-> isDefault, key |-> 0])
  /\ UNCHANGED <<newest, crossed>>

\* The field was left blank: an edit keeps the key that was loaded, a new provider needs one.
SaveBlank(s, active, isDefault) ==
  /\ save[s] = "open" /\ loaded[s] # NoRow
  /\ WriteRow(s, [active |-> active, isDefault |-> isDefault, key |-> loaded[s].key])
  /\ UNCHANGED <<newest, crossed>>

\* The form is not valid.
Refuse(s) ==
  /\ save[s] = "open"
  /\ save' = [save EXCEPT ![s] = "refused"]
  /\ UNCHANGED <<providers, object, loaded, born, newest, crossed, standing>>

\* Mutant: the row that was saved is not excluded.
ClearAll(s) ==
  /\ save[s] = "clear"
  /\ save' = [save EXCEPT ![s] = "saved"]
  /\ providers' = [p \in Providers |->
                     IF p \in Defaults
                     THEN [providers[p] EXCEPT !.isDefault = FALSE] ELSE providers[p]]
  /\ UNCHANGED <<object, loaded, born, newest, crossed, standing>>

\* Mutant: only active providers lose the flag.
ClearActive(s) ==
  /\ save[s] = "clear"
  /\ save' = [save EXCEPT ![s] = "saved"]
  /\ providers' = [p \in Providers |->
                     IF p # object[s] /\ p \in Defaults /\ providers[p].active
                     THEN [providers[p] EXCEPT !.isDefault = FALSE] ELSE providers[p]]
  /\ UNCHANGED <<object, loaded, born, newest, crossed, standing>>

\* The second: the flag of all others.
ClearOthers(s) ==
  /\ save[s] = "clear"
  /\ save' = [save EXCEPT ![s] = "saved"]
  /\ providers' = [p \in Providers |->
                     IF p # object[s] /\ p \in Defaults
                     THEN [providers[p] EXCEPT !.isDefault = FALSE] ELSE providers[p]]
  /\ UNCHANGED <<object, loaded, born, newest, crossed, standing>>

\* ai_provider_delete.
DeleteProvider(p) ==
  /\ providers[p] # NoRow
  /\ providers' = [providers EXCEPT ![p] = NoRow]
  /\ standing' = Removed(p)
  /\ UNCHANGED <<save, object, loaded, born, newest, crossed>>

Next ==
  \/ \E s \in Saves, p \in Providers : OpenCreate(s, p) \/ OpenEdit(s, p)
  \/ \E s \in Saves, active, isDefault \in BOOLEAN : \/ SaveKey(s, active, isDefault)
                                                     \/ SaveBlank(s, active, isDefault)
  \/ \E s \in Saves : Refuse(s) \/ ClearOthers(s)
  \/ \E p \in Providers : DeleteProvider(p)

Spec == Init /\ [][Next]_providerVars

-----------------------------------------------------------------------------
(* Properties. *)

TypeOK ==
  /\ providers \in [Providers -> Rows \cup {NoRow}]
  /\ save \in [Saves -> {"idle", "open", "refused", "clear", "saved"}]
  /\ object \in [Saves -> Providers \cup {NoProvider}]
  /\ \A s \in Saves : save[s] # "idle" => object[s] # NoProvider
  /\ loaded \in [Saves -> Rows \cup {NoRow}]
  /\ born \subseteq Providers /\ \A p \in Providers : providers[p] # NoRow => p \in born
  /\ newest \in [Providers -> Keys] /\ crossed \in [Saves -> BOOLEAN]
  /\ standing \in {"never", "kept", "removed", "raced"}

\* "Keep a single default provider" (models.py:435): of two providers that are default, one
\* has been written by a save that has still to clear the other; when all saves are over
\* there is one at most.
DefaultsBeingCleared ==
  \A p, q \in Defaults : p # q => \E s \in Saves : save[s] = "clear" /\ object[s] \in {p, q}

\* Once a provider has been made the default there is one (models.py:436-439), until its
\* flag is taken off in its own form, it is deleted, or two saves meet: each then clears the
\* other's flag, and get_default falls back to any active provider.
DefaultStays == standing = "kept" => Defaults # {}

\* A provider has the key entered last, unless an edit with a blank key was open meanwhile,
\* which puts the older one back (forms.py:367-374); a provider that was deleted may come back
\* with it.
KeyStays ==
  \A p \in Providers : providers[p] # NoRow =>
    \/ providers[p].key = newest[p]
    \/ \E s \in Saves : save[s] \in {"clear", "saved"} /\ object[s] = p /\ crossed[s]
=============================================================================
