-------------------------------- MODULE Tables --------------------------------
(* Functions used as tables, with entries put in and dropped.                *)

Put(table, key, value) ==
  [i \in DOMAIN table \cup {key} |-> IF i = key THEN value ELSE table[i]]
Drop(table, key) == [i \in DOMAIN table \ {key} |-> table[i]]
=============================================================================
