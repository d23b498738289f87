---------------------------- MODULE MCAttribution ----------------------------
(* A person's tap; an automation at dawn, with no parent; a child context of  *)
(* its actions; a script it starts; and a script started from the dashboard.  *)
EXTENDS Attribution

CONSTANTS tap, dawn, act, script, scene

Origins == [c \in Contexts |->
    CASE c = tap -> "person" [] c = dawn -> "automation" [] c = act -> "child"
      [] OTHER -> "script"]

Parents == [c \in Contexts |-> IF c \in {act, script} THEN dawn ELSE NoContext]

==============================================================================
