-------------------------- MODULE MCPermuteInPlace --------------------------
(* Edge records reduced to one link: -1 is noEdge, any other value a slot.    *)
(* Moving a record rewrites its link, as storeEdge does.                      *)
EXTENDS PermuteInPlace

CONSTANT MCSize

Links == -1 .. (MCSize - 1)

Relink(p, link) == IF link = -1 THEN -1 ELSE p[link]
=============================================================================
