--------------------------- MODULE MCRepoPublish ---------------------------
(* The package repository with the suites trixie (1) and unstable (2), and  *)
(* two packages: one in both suites, as hd-base, and one in unstable only,  *)
(* as hd-desktop.                                                           *)
EXTENDS RepoPublish

MCSuitesOf == [p \in Packages |->
                 IF p = 1 THEN {1, 2} ELSE {2}]

\* The last commit raises the version of package 1, and only that.
MCVersionOf == [c \in Commits |-> [p \in Packages |->
                 IF p = 1 /\ c = MaxCommit THEN 2 ELSE 1]]

\* The names sort like the versions.
MCGlob == [v \in Versions |-> v]
\* They sort the other way, as 1.10 and 1.9 do.
MCGlobTurned == [v \in Versions |-> MaxCommit - v]
=============================================================================
