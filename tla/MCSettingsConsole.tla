------------------------- MODULE MCSettingsConsole -------------------------
(* SettingsConsole on small instances: one hot setting, one that needs a       *)
(* restart, and a cross-field rule over them.                                  *)
EXTENDS SettingsConsole

CONSTANTS Hot, Slow

MCValid == {s \in [{Hot, Slow} -> Value] : s[Hot] <= s[Slow]}

MCDefaults == [k \in {Hot, Slow} |-> IF k = Hot THEN 1 ELSE 2]
=============================================================================
