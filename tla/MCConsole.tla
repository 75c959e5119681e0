----------------------------- MODULE MCConsole -----------------------------
(* Console with few requests: one scan, three endpoints of two users, one of them broken. *)
EXTENDS Console, TLC

MCUserOf == <<"ann", "ben", "ann">>

MCSub(min, enabled) == [min |-> min, enabled |-> enabled]

\* All, one that is not enabled, one with a high threshold, none.
MCInitialSubs ==
  {<<MCSub(10, TRUE), MCSub(10, TRUE), MCSub(10, TRUE)>>,
   <<MCSub(30, TRUE), MCSub(10, FALSE), MCSub(10, TRUE)>>,
   <<NoSub, NoSub, MCSub(30, TRUE)>>}
=============================================================================
