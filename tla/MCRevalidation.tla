---------------------------- MODULE MCRevalidation --------------------------
(* TLC instances of Revalidation. *)
EXTENDS Revalidation, TLC

K(directory, mentions, own, tool) ==
    [directory |-> directory, mentions |-> mentions, own |-> own, tool |-> tool]

\* An editor in the workspace, a build that names it, a shell whose directory cannot
\* be read, somebody else's daemon and somebody else's node.
ManyKinds ==
    {K("inside", FALSE, TRUE, FALSE), K("elsewhere", TRUE, FALSE, FALSE),
     K("hidden", FALSE, TRUE, FALSE), K("hidden", FALSE, FALSE, FALSE),
     K("hidden", FALSE, FALSE, TRUE)}

\* A plain project, one among the documents, one whose approved root is in a synced
\* folder and one with a suspicious name.  One user directory is the file system's
\* root, which would deny everything.
ManyPlaces ==
    {<<"home", "code", "app">>, <<"home", "documents", "app">>, <<"dropbox", "code", "app">>,
     <<"home", "code", "nextcloud-app">>}

ManyRoots == {<< >>, <<"home", "documents">>, <<"home", "code", "app", "cache">>}

Symmetry == Permutations(Procs)
=============================================================================
