--------------------------- MODULE MCProjectChooser ---------------------------
(* An instance of ProjectChooser for TLC. *)
EXTENDS ProjectChooser, TLC

CONSTANTS here, there, first, second

\* One repository is found under both sources, one under the first only.
MCListed == first :> {here, there} @@ second :> {here}

Server(index, id, root, status) ==
  [source |-> first, index |-> index,
   job |-> [id |-> id, root |-> root, status |-> status, ofSource |-> TRUE]]

\* Nothing open, a first project being opened, one open, being refreshed or
\* replaced, or the first one failed: every case but for names.
MCStarted == {[source |-> first, index |-> NoRoot, job |-> NoJob],
              Server(NoRoot, 1, here, "running"), Server(here, 1, here, "succeeded"),
              Server(here, 2, here, "running"), Server(here, 2, there, "running"),
              Server(NoRoot, 1, here, "failed")}
=============================================================================
