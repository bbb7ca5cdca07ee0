--------------------------- MODULE MCPreferences ---------------------------
(* Devices of different hosts and users with a few intents each.  The PWA   *)
(* may retain two operations of an earlier release in one domain, so that   *)
(* one can hide the other.                                                  *)
EXTENDS Preferences

CONSTANTS task, other, focus, short, long

OnTask(kinds) == [kind : kinds, task : {task}]
Rename == [kind : {"renameTask"}, task : {task}, new : {other}]
Lengthen == [kind : {"setDuration"}, phase : {focus}, value : {long}]
Shorten == [kind : {"setDuration"}, phase : {focus}, value : {short}]
Switch == [kind : {"setAutoStart"}, value : {"on", "off"}]

Deselect == [kind : {"selectTask"}, task : {None}]

TaskIntents ==
  OnTask({"selectTask", "upsertTask", "deleteTask"}) \cup Rename
PreferenceIntents ==
  OnTask({"addAndSelectTask", "selectTask", "deleteTask"})
    \cup Deselect \cup Lengthen \cup Shorten \cup Switch

OnePwa == <<"pwa">>

TheProfiles ==
  {<<"apple", "desktop">>, <<"android", "pwa">>, OnePwa}

\* A PWA alone is examined more closely.
Either(alone, two) == [P \in TheProfiles |-> IF P = OnePwa THEN alone ELSE two]

TheIntents == Either(PreferenceIntents, TaskIntents)
TheOps     == Either(4, 3)
TheStamps  == Either(4, 3)
TheLead    == Either(3, 0)

OldRows ==
  {[slot |-> focus, value |-> long, hlc |-> 1, device |-> 1],
   [slot |-> focus, value |-> short, hlc |-> 2, device |-> 1]}

TheLegacy == Either(OldRows, {})
=============================================================================
