-------------------------- MODULE AIProvidersProofs --------------------------
(***************************************************************************)
(* The default provider and the keys (AIProviders), for any number of       *)
(* providers, saves and keys.                                               *)
(***************************************************************************)
EXTENDS AIProviders, TLAPS

-----------------------------------------------------------------------------
(* The types, which hold together with: a save that has begun is about a    *)
(* provider there has been, one that has not has loaded nothing.            *)

Types ==
  /\ TypeOK
  /\ \A s \in Saves : /\ save[s] # "idle" => object[s] \in born
                      /\ save[s] = "idle" => loaded[s] = NoRow

LEMMA TypesInit == ASSUME ProvidersAssumption PROVE Init => Types
  BY DEF Init, Types, TypeOK, Rows, Keys, ProvidersAssumption

\* The first statement of a save keeps the types if what it writes is a row.
LEMMA WriteTypes ==
  ASSUME ProvidersAssumption, Types, NEW s \in Saves, NEW new \in Rows, WriteRow(s, new),
         newest' \in [Providers -> Keys], crossed' \in [Saves -> BOOLEAN]
  PROVE  Types'
  BY DEF WriteRow, Types, TypeOK, Removed, Rows, ProvidersAssumption

LEMMA TypesNext == ASSUME ProvidersAssumption PROVE Types /\ [Next]_providerVars => Types'
<1> SUFFICES ASSUME ProvidersAssumption, Types, [Next]_providerVars PROVE Types'
  OBVIOUS
<1>1. ASSUME NEW s \in Saves, NEW p \in Providers, OpenCreate(s, p) PROVE Types'
  BY <1>1 DEF OpenCreate, Types, TypeOK, ProvidersAssumption
<1>2. ASSUME NEW s \in Saves, NEW p \in Providers, OpenEdit(s, p) PROVE Types'
  BY <1>2 DEF OpenEdit, Types, TypeOK, ProvidersAssumption
<1>3. ASSUME NEW s \in Saves, NEW active \in BOOLEAN, NEW isDefault \in BOOLEAN,
             SaveKey(s, active, isDefault)
      PROVE Types'
  <2> DEFINE new == [active |-> active, isDefault |-> isDefault, key |-> newest[object[s]] + 1]
  <2>1. new \in Rows /\ newest' \in [Providers -> Keys] /\ crossed' \in [Saves -> BOOLEAN]
    BY <1>3 DEF SaveKey, Types, TypeOK, Rows, Keys, ProvidersAssumption
  <2>2. WriteRow(s, new)
    BY <1>3 DEF SaveKey
  <2> QED
    BY <2>1, <2>2, WriteTypes
<1>4. ASSUME NEW s \in Saves, NEW active \in BOOLEAN, NEW isDefault \in BOOLEAN,
             SaveBlank(s, active, isDefault)
      PROVE Types'
  <2> DEFINE new == [active |-> active, isDefault |-> isDefault, key |-> loaded[s].key]
  <2>1. new \in Rows /\ newest' \in [Providers -> Keys] /\ crossed' \in [Saves -> BOOLEAN]
    BY <1>4 DEF SaveBlank, Types, TypeOK, Rows
  <2>2. WriteRow(s, new)
    BY <1>4 DEF SaveBlank
  <2> QED
    BY <2>1, <2>2, WriteTypes
<1>5. ASSUME NEW s \in Saves, Refuse(s) PROVE Types'
  BY <1>5 DEF Refuse, Types, TypeOK
<1>6. ASSUME NEW s \in Saves, ClearOthers(s) PROVE Types'
  <2>1. \A p \in Providers : providers'[p] \in Rows \cup {NoRow} /\ (providers'[p] # NoRow => p \in born)
    BY <1>6 DEF ClearOthers, Types, TypeOK, Rows, Defaults
  <2>2. providers' \in [Providers -> Rows \cup {NoRow}]
    BY <1>6, <2>1 DEF ClearOthers
  <2> QED
    BY <1>6, <2>1, <2>2 DEF ClearOthers, Types, TypeOK
<1>7. ASSUME NEW p \in Providers, DeleteProvider(p) PROVE Types'
  BY <1>7 DEF DeleteProvider, Types, TypeOK, Removed
<1>8. CASE UNCHANGED providerVars
  BY <1>8 DEF providerVars, Types, TypeOK
<1> QED
  BY <1>1, <1>2, <1>3, <1>4, <1>5, <1>6, <1>7, <1>8 DEF Next

\* The variables keep their types (models.py:400-424).
THEOREM TypeCorrect == ASSUME ProvidersAssumption PROVE Spec => []TypeOK
<1>1. Init => Types
  BY TypesInit
<1>2. Types /\ [Next]_providerVars => Types'
  BY TypesNext
<1>3. Types => TypeOK
  BY DEF Types
<1> QED
  BY <1>1, <1>2, <1>3, PTL DEF Spec

-----------------------------------------------------------------------------
(* The default provider. *)

LEMMA ClearingInit == Init => DefaultsBeingCleared
  BY DEF Init, DefaultsBeingCleared, Defaults

\* A first statement: its provider is the only one that may become a default, and is then
\* one that has still to clear the others.
LEMMA WriteClearing ==
  ASSUME ProvidersAssumption, Types, DefaultsBeingCleared,
         NEW s \in Saves, NEW new \in Rows, WriteRow(s, new)
  PROVE  DefaultsBeingCleared'
<1> SUFFICES ASSUME NEW p \in Defaults', NEW q \in Defaults', p # q
             PROVE  \E z \in Saves : save'[z] = "clear" /\ object'[z] \in {p, q}
  BY DEF DefaultsBeingCleared
<1>1. CASE object[s] \in {p, q}
  <2>1. new.isDefault
    BY <1>1 DEF WriteRow, Types, TypeOK, Defaults
  <2> QED
    BY <1>1, <2>1 DEF WriteRow, Types, TypeOK
<1>2. CASE object[s] \notin {p, q}
  <2>1. p \in Defaults /\ q \in Defaults
    BY <1>2 DEF WriteRow, Types, TypeOK, Defaults
  <2>2. PICK z \in Saves : save[z] = "clear" /\ object[z] \in {p, q}
    BY <2>1 DEF DefaultsBeingCleared
  <2> QED
    BY <2>2 DEF WriteRow, Types, TypeOK
<1> QED
  BY <1>1, <1>2

LEMMA ClearingNext ==
  ASSUME ProvidersAssumption, Types, DefaultsBeingCleared, [Next]_providerVars
  PROVE  DefaultsBeingCleared'
<1> USE DEF ProvidersAssumption
<1>1. ASSUME NEW s \in Saves, NEW p \in Providers, OpenCreate(s, p) PROVE DefaultsBeingCleared'
  BY <1>1 DEF OpenCreate, Types, TypeOK, DefaultsBeingCleared, Defaults
<1>2. ASSUME NEW s \in Saves, NEW p \in Providers, OpenEdit(s, p) PROVE DefaultsBeingCleared'
  BY <1>2 DEF OpenEdit, Types, TypeOK, DefaultsBeingCleared, Defaults
<1>3. ASSUME NEW s \in Saves, NEW active \in BOOLEAN, NEW isDefault \in BOOLEAN,
             SaveKey(s, active, isDefault)
      PROVE DefaultsBeingCleared'
  <2> DEFINE new == [active |-> active, isDefault |-> isDefault, key |-> newest[object[s]] + 1]
  <2>1. new \in Rows
    BY <1>3 DEF SaveKey, Types, TypeOK, Rows, Keys
  <2>2. WriteRow(s, new)
    BY <1>3 DEF SaveKey
  <2> QED
    BY <2>1, <2>2, WriteClearing
<1>4. ASSUME NEW s \in Saves, NEW active \in BOOLEAN, NEW isDefault \in BOOLEAN,
             SaveBlank(s, active, isDefault)
      PROVE DefaultsBeingCleared'
  <2> DEFINE new == [active |-> active, isDefault |-> isDefault, key |-> loaded[s].key]
  <2>1. new \in Rows
    BY <1>4 DEF SaveBlank, Types, TypeOK, Rows
  <2>2. WriteRow(s, new)
    BY <1>4 DEF SaveBlank
  <2> QED
    BY <2>1, <2>2, WriteClearing
<1>5. ASSUME NEW s \in Saves, Refuse(s) PROVE DefaultsBeingCleared'
  BY <1>5 DEF Refuse, Types, TypeOK, DefaultsBeingCleared, Defaults
<1>6. ASSUME NEW s \in Saves, ClearOthers(s) PROVE DefaultsBeingCleared'
  <2>1. \A p \in Defaults' : p = object[s]
    BY <1>6 DEF ClearOthers, Types, TypeOK, Defaults, Rows
  <2> QED
    BY <2>1 DEF DefaultsBeingCleared
<1>7. ASSUME NEW p \in Providers, DeleteProvider(p) PROVE DefaultsBeingCleared'
  <2>1. Defaults' \subseteq Defaults /\ save' = save /\ object' = object
    BY <1>7 DEF DeleteProvider, Types, TypeOK, Defaults
  <2> QED
    BY <2>1 DEF DefaultsBeingCleared
<1>8. CASE UNCHANGED providerVars
  BY <1>8 DEF providerVars, DefaultsBeingCleared, Defaults
<1> QED
  BY <1>1, <1>2, <1>3, <1>4, <1>5, <1>6, <1>7, <1>8 DEF Next

\* "Keep a single default provider" (models.py:435): two are default only while one of them
\* has still to clear the other.
THEOREM SingleDefault == ASSUME ProvidersAssumption PROVE Spec => []DefaultsBeingCleared
<1>1. Init => Types /\ DefaultsBeingCleared
  BY TypesInit, ClearingInit
<1>2. Types /\ DefaultsBeingCleared /\ [Next]_providerVars => (Types /\ DefaultsBeingCleared)'
  BY TypesNext, ClearingNext
<1> QED
  BY <1>1, <1>2, PTL DEF Spec

-----------------------------------------------------------------------------
(* Why a default stays: the one that is kept is the only one a save may be  *)
(* clearing the others for.                                                 *)

DefaultKept ==
  standing = "kept" =>
    \E p \in Defaults : \A s \in Saves : save[s] = "clear" => object[s] = p

LEMMA WriteKept ==
  ASSUME ProvidersAssumption, Types, DefaultKept, NEW s \in Saves, NEW new \in Rows, WriteRow(s, new)
  PROVE  DefaultKept'
<1> USE DEF ProvidersAssumption
<1> SUFFICES ASSUME standing' = "kept"
             PROVE  \E p \in Defaults' : \A z \in Saves : save'[z] = "clear" => object'[z] = p
  BY DEF DefaultKept
<1>1. CASE new.isDefault
  <2>1. \A z \in Saves : save[z] # "clear"
    BY <1>1 DEF WriteRow
  <2>2. object[s] \in Defaults'
    BY <1>1 DEF WriteRow, Types, TypeOK, Defaults
  <2> QED
    BY <2>1, <2>2 DEF WriteRow, Types, TypeOK
<1>2. CASE ~new.isDefault
  <2>1. standing = "kept" /\ object[s] \notin Defaults
    BY <1>2 DEF WriteRow, Removed
  <2>2. PICK p \in Defaults : \A z \in Saves : save[z] = "clear" => object[z] = p
    BY <2>1 DEF DefaultKept
  <2>3. p \in Defaults'
    BY <2>1, <2>2 DEF WriteRow, Types, TypeOK, Defaults
  <2> QED
    BY <1>2, <2>2, <2>3 DEF WriteRow, Types, TypeOK
<1> QED
  BY <1>1, <1>2

LEMMA KeptNext ==
  ASSUME ProvidersAssumption, Types, DefaultKept, [Next]_providerVars
  PROVE  DefaultKept'
<1> USE DEF ProvidersAssumption
<1>1. ASSUME NEW s \in Saves, NEW p \in Providers, OpenCreate(s, p) PROVE DefaultKept'
  BY <1>1 DEF OpenCreate, Types, TypeOK, DefaultKept, Defaults
<1>2. ASSUME NEW s \in Saves, NEW p \in Providers, OpenEdit(s, p) PROVE DefaultKept'
  BY <1>2 DEF OpenEdit, Types, TypeOK, DefaultKept, Defaults
<1>3. ASSUME NEW s \in Saves, NEW active \in BOOLEAN, NEW isDefault \in BOOLEAN,
             SaveKey(s, active, isDefault)
      PROVE DefaultKept'
  <2> DEFINE new == [active |-> active, isDefault |-> isDefault, key |-> newest[object[s]] + 1]
  <2>1. new \in Rows
    BY <1>3 DEF SaveKey, Types, TypeOK, Rows, Keys
  <2>2. WriteRow(s, new)
    BY <1>3 DEF SaveKey
  <2> QED
    BY <2>1, <2>2, WriteKept
<1>4. ASSUME NEW s \in Saves, NEW active \in BOOLEAN, NEW isDefault \in BOOLEAN,
             SaveBlank(s, active, isDefault)
      PROVE DefaultKept'
  <2> DEFINE new == [active |-> active, isDefault |-> isDefault, key |-> loaded[s].key]
  <2>1. new \in Rows
    BY <1>4 DEF SaveBlank, Types, TypeOK, Rows
  <2>2. WriteRow(s, new)
    BY <1>4 DEF SaveBlank
  <2> QED
    BY <2>1, <2>2, WriteKept
<1>5. ASSUME NEW s \in Saves, Refuse(s) PROVE DefaultKept'
  BY <1>5 DEF Refuse, Types, TypeOK, DefaultKept, Defaults
<1>6. ASSUME NEW s \in Saves, ClearOthers(s) PROVE DefaultKept'
  <2> SUFFICES ASSUME standing' = "kept"
               PROVE  \E p \in Defaults' : \A z \in Saves : save'[z] = "clear" => object'[z] = p
    BY DEF DefaultKept
  <2>1. PICK p \in Defaults : \A z \in Saves : save[z] = "clear" => object[z] = p
    BY <1>6 DEF ClearOthers, DefaultKept
  <2>2. p = object[s] /\ p \in Defaults'
    BY <1>6, <2>1 DEF ClearOthers, Types, TypeOK, Defaults
  <2> QED
    BY <1>6, <2>1, <2>2 DEF ClearOthers, Types, TypeOK
<1>7. ASSUME NEW p \in Providers, DeleteProvider(p) PROVE DefaultKept'
  BY <1>7 DEF DeleteProvider, Removed, Types, TypeOK, DefaultKept, Defaults
<1>8. CASE UNCHANGED providerVars
  BY <1>8 DEF providerVars, DefaultKept, Defaults
<1> QED
  BY <1>1, <1>2, <1>3, <1>4, <1>5, <1>6, <1>7, <1>8 DEF Next

\* Once made, there is a default until its flag is taken off, it is deleted or two saves meet
\* (models.py:436-439).
THEOREM DefaultIsKept == ASSUME ProvidersAssumption PROVE Spec => []DefaultStays
<1>1. Init => Types /\ DefaultKept
  BY TypesInit DEF Init, DefaultKept
<1>2. Types /\ DefaultKept /\ [Next]_providerVars => (Types /\ DefaultKept)'
  BY TypesNext, KeptNext
<1>3. DefaultKept => DefaultStays
  BY DEF DefaultKept, DefaultStays
<1> QED
  BY <1>1, <1>2, <1>3, PTL DEF Spec

-----------------------------------------------------------------------------
(* Why keys stay: what an open edit loaded is the newest key, or it will be  *)
(* known to have crossed another save.                                       *)

\* An edit of p that was open while a key was entered has been saved.
KeyUndone(p) == \E s \in Saves : save[s] \in {"clear", "saved"} /\ object[s] = p /\ crossed[s]

LoadedKey(s) ==
  save[s] = "open" /\ loaded[s] # NoRow =>
    loaded[s].key = newest[object[s]] \/ crossed[s] \/ KeyUndone(object[s])

LoadedKeys == \A s \in Saves : LoadedKey(s)

KeyInv == KeyStays /\ LoadedKeys

\* What was undone stays so in a step that leaves the saves that are over as they are.
LEMMA UndoneStays ==
  ASSUME NEW p \in Providers, KeyUndone(p),
         \A s \in Saves : save[s] \in {"clear", "saved"} =>
           save'[s] \in {"clear", "saved"} /\ object'[s] = object[s] /\ (crossed[s] => crossed'[s])
  PROVE  KeyUndone(p)'
  BY DEF KeyUndone

LEMMA KeyInit == ASSUME ProvidersAssumption PROVE Init => KeyInv
  BY DEF Init, KeyInv, KeyStays, LoadedKeys, LoadedKey

LEMMA KeyNext ==
  ASSUME ProvidersAssumption, Types, KeyInv, [Next]_providerVars
  PROVE  KeyInv'
<1> USE DEF ProvidersAssumption
<1>0. KeyStays <=> \A p \in Providers : providers[p] # NoRow =>
                     providers[p].key = newest[p] \/ KeyUndone(p)
  BY DEF KeyStays, KeyUndone
<1>a. (KeyStays <=> \A p \in Providers : providers[p] # NoRow =>
                      providers[p].key = newest[p] \/ KeyUndone(p))'
  BY DEF KeyStays, KeyUndone
<1> USE DEF KeyInv
<1>1. ASSUME NEW s \in Saves, NEW p \in Providers, OpenCreate(s, p) PROVE KeyInv'
  <2>1. \A q \in Providers : KeyUndone(q) => KeyUndone(q)'
    BY <1>1, UndoneStays DEF OpenCreate, Types, TypeOK
  <2>2. save'[s] = "open" => loaded'[s] = loaded[s] /\ object'[s] = p
    BY <1>1 DEF OpenCreate, Types, TypeOK
  <2> QED
    BY <1>0, <1>a, <1>1, <2>1, <2>2 DEF OpenCreate, Types, TypeOK, LoadedKeys, LoadedKey
<1>2. ASSUME NEW s \in Saves, NEW p \in Providers, OpenEdit(s, p) PROVE KeyInv'
  <2>1. \A q \in Providers : KeyUndone(q) => KeyUndone(q)'
    BY <1>2, UndoneStays DEF OpenEdit, Types, TypeOK
  <2> QED
    BY <1>0, <1>a, <1>2, <2>1 DEF OpenEdit, Types, TypeOK, LoadedKeys, LoadedKey
<1>3. ASSUME NEW s \in Saves, NEW active \in BOOLEAN, NEW isDefault \in BOOLEAN,
             SaveKey(s, active, isDefault)
      PROVE KeyInv'
  <2>1. \A q \in Providers : KeyUndone(q) => KeyUndone(q)'
    BY <1>3, UndoneStays DEF SaveKey, WriteRow, Types, TypeOK
  <2>2. \A q \in Providers : providers'[q] # NoRow => providers'[q].key = newest'[q] \/ KeyUndone(q)'
    BY <1>0, <1>3, <2>1 DEF SaveKey, WriteRow, Types, TypeOK, Rows, Keys
  <2>3. \A z \in Saves : LoadedKey(z)'
    <3> SUFFICES ASSUME NEW z \in Saves, save'[z] = "open", loaded'[z] # NoRow PROVE LoadedKey(z)'
      BY DEF LoadedKey
    <3>1. z # s /\ save[z] = "open" /\ loaded'[z] = loaded[z] /\ object'[z] = object[z]
          /\ object[z] \in Providers /\ object[s] \in Providers
      BY <1>3 DEF SaveKey, WriteRow, Types, TypeOK
    <3>2. CASE object[z] = object[s]
      BY <1>3, <3>1, <3>2 DEF SaveKey, LoadedKey
    <3>3. CASE object[z] # object[s]
      <4>1. newest'[object[z]] = newest[object[z]] /\ (crossed[z] => crossed'[z])
        BY <1>3, <3>1, <3>3 DEF SaveKey, Types, TypeOK
      <4>2. CASE KeyUndone(object[z])
        <5>1. PICK y \in Saves : save[y] \in {"clear", "saved"} /\ object[y] = object[z] /\ crossed[y]
          BY <4>2 DEF KeyUndone
        <5>2. save'[y] \in {"clear", "saved"} /\ object'[y] = object[z] /\ crossed'[y]
          BY <1>3, <5>1 DEF SaveKey, WriteRow, Types, TypeOK
        <5> QED
          BY <3>1, <5>2 DEF LoadedKey, KeyUndone
      <4>3. CASE ~KeyUndone(object[z])
        BY <3>1, <4>1, <4>3 DEF LoadedKeys, LoadedKey
      <4> QED
        BY <4>2, <4>3
    <3> QED
      BY <3>2, <3>3
  <2> QED
    BY <1>a, <2>2, <2>3 DEF LoadedKeys
<1>4. ASSUME NEW s \in Saves, NEW active \in BOOLEAN, NEW isDefault \in BOOLEAN,
             SaveBlank(s, active, isDefault)
      PROVE KeyInv'
  <2>1. \A q \in Providers : KeyUndone(q) => KeyUndone(q)'
    BY <1>4, UndoneStays DEF SaveBlank, WriteRow, Types, TypeOK
  <2>2. providers'[object[s]].key = newest'[object[s]] \/ KeyUndone(object[s])'
    BY <1>4, <2>1 DEF SaveBlank, WriteRow, Types, TypeOK, LoadedKeys, LoadedKey, KeyUndone
  <2>3. \A q \in Providers : providers'[q] # NoRow => providers'[q].key = newest'[q] \/ KeyUndone(q)'
    BY <1>0, <1>4, <2>1, <2>2 DEF SaveBlank, WriteRow, Types, TypeOK
  <2>4. \A z \in Saves : LoadedKey(z)'
    BY <1>4, <2>1 DEF SaveBlank, WriteRow, Types, TypeOK, LoadedKeys, LoadedKey, KeyUndone
  <2> QED
    BY <1>a, <2>3, <2>4 DEF LoadedKeys
<1>5. ASSUME NEW s \in Saves, Refuse(s) PROVE KeyInv'
  <2>1. \A q \in Providers : KeyUndone(q) => KeyUndone(q)'
    BY <1>5, UndoneStays DEF Refuse, Types, TypeOK
  <2> QED
    BY <1>0, <1>a, <1>5, <2>1 DEF Refuse, Types, TypeOK, LoadedKeys, LoadedKey
<1>6. ASSUME NEW s \in Saves, ClearOthers(s) PROVE KeyInv'
  <2>1. \A q \in Providers : KeyUndone(q) => KeyUndone(q)'
    BY <1>6, UndoneStays DEF ClearOthers, Types, TypeOK
  <2>2. \A q \in Providers : providers'[q] # NoRow =>
          providers[q] # NoRow /\ providers'[q].key = providers[q].key
    BY <1>6 DEF ClearOthers, Types, TypeOK, Defaults, Rows
  <2> QED
    BY <1>0, <1>a, <1>6, <2>1, <2>2 DEF ClearOthers, Types, TypeOK, LoadedKeys, LoadedKey
<1>7. ASSUME NEW p \in Providers, DeleteProvider(p) PROVE KeyInv'
  <2>1. \A q \in Providers : KeyUndone(q) => KeyUndone(q)'
    BY <1>7, UndoneStays DEF DeleteProvider
  <2> QED
    BY <1>0, <1>a, <1>7, <2>1 DEF DeleteProvider, Types, TypeOK, LoadedKeys, LoadedKey
<1>8. CASE UNCHANGED providerVars
  BY <1>8 DEF providerVars, KeyStays, LoadedKeys, LoadedKey, KeyUndone
<1> QED
  BY <1>1, <1>2, <1>3, <1>4, <1>5, <1>6, <1>7, <1>8 DEF Next

\* A provider has the key entered last, unless an edit that was open meanwhile was saved with
\* a blank key (forms.py:367-381).
THEOREM NewestKeyStays == ASSUME ProvidersAssumption PROVE Spec => []KeyStays
<1>1. Init => Types /\ KeyInv
  BY TypesInit, KeyInit
<1>2. Types /\ KeyInv /\ [Next]_providerVars => (Types /\ KeyInv)'
  BY TypesNext, KeyNext
<1>3. KeyInv => KeyStays
  BY DEF KeyInv
<1> QED
  BY <1>1, <1>2, <1>3, PTL DEF Spec
=============================================================================
