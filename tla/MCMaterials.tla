---- MODULE MCMaterials ----
(***************************************************************************)
(* The TLC instance of Materials.                                          *)
(***************************************************************************)
EXTENDS Materials

MCKeys == {CopyKey(ids) : ids \in Sets} \cup {ReviewKey(ids) : ids \in Sets}

MCOps == {PlainCopy} \cup 70..94

====
