----------------------------- MODULE MCAnalysis -----------------------------
(* Analysis on a small inventory: two resources, one of whose names occurs in the other's id. *)
EXTENDS Analysis, TLC

CONSTANTS id1, id2, url,                      \* target refs
          t60, t60f, t90, tNan, tInf, tOff   \* texts: 60, 60.0, 90, nan, inf, off

MCRefs     == {id1, id2, url}
MCIdOf     == <<id1, id2>>
MCMentions == id1 :> {1} @@ id2 :> {1, 2} @@ url :> {2}
MCRoleOf   == <<"role", "role">>
MCInitialTargets ==
  {<<first, second, third>> : first \in {id1, url, NoRef}, second \in {id1, id2}, third \in {id1, url}}

MCNameOf   == <<"nightly", "nightly", "weekly">>

MCTexts    == {t60, t60f, t90, tNan, tInf, tOff}
MCNumberOf == t60 :> 60 @@ t60f :> 60 @@ t90 :> 90 @@ tNan :> NaN @@ tInf :> Infinity @@ tOff :> NoNumber
MCWithin   == {<<t, t>> : t \in MCTexts} \cup {<<t60, t60f>>}
MCFields   == {"timeout", "state"}
MCValueOf  ==
  "timeout" :> (<<"resource", 1>> :> t60f @@ <<"resource", 2>> :> tInf @@ <<"schedule", 1>> :> Missing
                @@ <<"schedule", 2>> :> Structure @@ <<"schedule", 3>> :> tNan) @@
  "state" :> (<<"resource", 1>> :> Structure @@ <<"resource", 2>> :> t90 @@ <<"schedule", 1>> :> tNan
              @@ <<"schedule", 2>> :> t60 @@ <<"schedule", 3>> :> Missing)

Form(target, field, operator, value, severity, enabled) ==
  [target |-> target, field |-> field, operator |-> operator, value |-> value,
   severity |-> severity, enabled |-> enabled]

Speak(op)  == Form("resource", "timeout", op, t60, "warning", TRUE)
Quiet(op)  == [Speak(op) EXCEPT !.enabled = FALSE]
Other(op)  == Form("schedule", "state", op, t90, "info", TRUE)
Deep       == Form("resource", "state", "not_contains", t90, "info", TRUE)
Broken     == Form("resource", "timeout", "regex", tOff, "critical", TRUE)
Loud       == Form("resource", "timeout", "regex", t60, "critical", TRUE)
MCRuleForms ==
  {Speak(op) : op \in Operators} \cup {Other(op) : op \in {"not_equals", "gt", "lt"}}
  \cup {Quiet("lt"), Deep, Broken, Loud}

\* The second and the third rule have one name.
MCRuleName     == <<1, 2, 2>>
MCInitialRules ==
  {<<Speak(pair[1]), Speak(pair[2]), NoRule>> : pair \in Opposites}
  \cup {<<Other("lt"), Other("gt"), NoRule>>, <<Speak("gt"), Quiet("lt"), Speak("lt")>>,
        <<Broken, Speak("contains"), Loud>>}
=============================================================================
