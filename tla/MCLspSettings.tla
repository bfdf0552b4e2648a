---------------------------- MODULE MCLspSettings ----------------------------
(***************************************************************************)
(* Instances of the settings for TLC: a folder, one inside it, and a file  *)
(* in each.                                                                *)
(***************************************************************************)
EXTENDS LspSettings

NestedFolders == {<<1>>, <<1, 1>>}
OneFolder == {<<1>>}
NestedFiles == {<<1, 2>>, <<1, 1, 2>>}

SettingsSymmetry == Permutations(Contents)

=============================================================================
