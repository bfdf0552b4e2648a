-------------------------- MODULE MCFormatCommand --------------------------
(***************************************************************************)
(* A project with a folder, a folder that is excluded by default with      *)
(* another one in it, a file that is no R file and one that git ignores;    *)
(* the project and its folders may have an air.toml.                        *)
(***************************************************************************)
EXTENDS FormatCommand

Root == <<>>
Project == <<1>>
Sub == <<1, 2>>
Renv == <<1, 4>>
A == <<1, 3>>
SubA == <<1, 2, 3>>
RenvSub == <<1, 4, 2>>
RenvA == <<1, 4, 2, 3>>
Notes == <<1, 5>>
Ignored == <<1, 2, 6>>
Nowhere == <<1, 9>>

MCTree == {Root, Project, Sub, Renv, RenvSub, A, SubA, RenvA, Notes, Ignored}
MCFolders == {Root, Project, Sub, Renv, RenvSub}
MCHidden == {Ignored}

Name(name) == [name |-> name, directory |-> FALSE, anchored |-> FALSE, whitelist |-> FALSE]
MCDefaultExcluded == <<[Name(4) EXCEPT !.directory = TRUE]>>
MCDefaultIncluded == <<Name(3), Name(6)>>

Toml(exclude, defaultExclude, style) ==
  [exclude |-> exclude, defaultExclude |-> defaultExclude, style |-> style]

ProjectTomls ==
  {Absent, Broken, Toml(<<>>, FALSE, 1),
   Toml(<<[Name(2) EXCEPT !.directory = TRUE]>>, TRUE, 1),
   Toml(<<[Name(3) EXCEPT !.anchored = TRUE]>>, TRUE, 1),
   Toml(<<Name(3), [Name(3) EXCEPT !.whitelist = TRUE, !.anchored = TRUE]>>, FALSE, 1)}

SubTomls == {Absent, Broken, Toml(<<[Name(3) EXCEPT !.directory = TRUE]>>, TRUE, 2)}

\* Besides the project one of its folders has an air.toml.
MCTomls ==
  {Project :> p @@ Sub :> s : p \in ProjectTomls, s \in SubTomls}
  \cup {Project :> p @@ RenvSub :> Toml(<<>>, TRUE, 2) : p \in ProjectTomls}

\* The files of which something is to be seen; the others are to be formatted.
Disk(a, subA) == [f \in MCTree \ MCFolders |-> CASE f = A -> a [] f = SubA -> subA [] OTHER -> Raw]
MCDisks == {Disk(Raw, Unreadable), Disk(Locked, Invalid), Disk(1, Raw)}

Suppliable == {Project, Sub, SubA, RenvA, Nowhere}

MCCommands ==
  [paths : {<<p>> : p \in Suppliable \cup {A, Notes, Ignored}},
   stdin : {None}, check : BOOLEAN, force : BOOLEAN]
  \cup [paths : Suppliable \X Suppliable, stdin : {None}, check : {FALSE}, force : {FALSE}]
  \cup [paths : {<<>>, <<A>>}, stdin : {A, SubA, RenvA, Notes, Nowhere},
        check : BOOLEAN, force : BOOLEAN]

\* The threads of a walk are alike.
ThreadSymmetry == Permutations(Threads)

=============================================================================
