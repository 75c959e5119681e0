----------------------------- MODULE CustomRules -----------------------------
(***************************************************************************)
(* The operators of custom rules on the text of a field.  Of texts matters  *)
(* which are equal, which occur in which (whatever the case of letters),    *)
(* which match which pattern, and what float() makes of them.               *)
(***************************************************************************)
EXTENDS Integers

CONSTANTS
  Texts,
  NumberOf,      \* NumberOf[t]: float(t), NaN, or NoNumber if it raises; inf is Infinity
  Infinity,
  NaN, NoNumber,
  Within,        \* pairs of texts, the first one in the second
  Found,         \* pairs of a pattern and a text it is found in
  BadPatterns,   \* texts re.search does not compile
  Missing,       \* a path that leads nowhere, or to None
  Structure      \* a path that leads to a dictionary or a list

Floats == -Infinity..Infinity

ASSUME RulesAssumption ==
  /\ Infinity \in Nat
  /\ NumberOf \in [Texts -> Floats \cup {NaN, NoNumber}]
  /\ NaN \notin Int /\ NoNumber \notin Int
  /\ {Missing, Structure} \cap Texts = {}

Operators == {"equals", "not_equals", "contains", "not_contains", "gt", "lt", "regex"}

\* _resolve_field, of what the path leads to.
Resolve(found) == IF found = Structure THEN Missing ELSE found

\* Every comparison with nan is false.
Greater(x, y) == x \in Int /\ y \in Int /\ x > y

\* Mutant: contains looks for the field in the rule's value.
MatchesSwapped(operator, text, expected) ==
  \/ operator = "equals"       /\ text = expected
  \/ operator = "not_equals"   /\ text # expected
  \/ operator = "contains"     /\ <<text, expected>> \in Within
  \/ operator = "not_contains" /\ <<expected, text>> \notin Within
  \/ operator = "gt"           /\ Greater(NumberOf[text], NumberOf[expected])
  \/ operator = "lt"           /\ Greater(NumberOf[expected], NumberOf[text])
  \/ operator = "regex"        /\ expected \notin BadPatterns /\ <<expected, text>> \in Found

\* _matches.
Matches(operator, text, expected) ==
  \/ operator = "equals"       /\ text = expected
  \/ operator = "not_equals"   /\ text # expected
  \/ operator = "contains"     /\ <<expected, text>> \in Within
  \/ operator = "not_contains" /\ <<expected, text>> \notin Within
  \/ operator = "gt"           /\ Greater(NumberOf[text], NumberOf[expected])
  \/ operator = "lt"           /\ Greater(NumberOf[expected], NumberOf[text])
  \/ operator = "regex"        /\ expected \notin BadPatterns /\ <<expected, text>> \in Found
=============================================================================
