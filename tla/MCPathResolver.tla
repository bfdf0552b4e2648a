--------------------------- MODULE MCPathResolver ---------------------------
(***************************************************************************)
(* An instance of the resolver for TLC: directories that are siblings,     *)
(* parents and children of each other, one of them a sibling that sorts    *)
(* between a directory and its children.                                   *)
(***************************************************************************)
EXTENDS PathResolver

SomeDirectories == {<<1>>, <<1, 1>>, <<1, 1, 2>>, <<1, 2>>, <<2>>}
SomeLookups == SomeDirectories \cup {<<1, 1, 1>>, <<1, 1, 2, 1>>, <<3>>}

=============================================================================
