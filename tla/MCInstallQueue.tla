--------------------------- MODULE MCInstallQueue ---------------------------
(* InstallQueue on a few skills, for TLC. *)
EXTENDS InstallQueue

\* Skills are alike and known to the queue only once they were asked for, so it is
\* enough to look at those that are first asked for in the order of their numbers.
FirstInOrder ==
    \A id \in DOMAIN item :
        \A s \in Slugs : s < SlugOf(id) => \E before \in 1 .. id : SlugOf(before) = s

=============================================================================
