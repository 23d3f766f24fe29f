------------------------- MODULE MCWorkspaceBarModel -------------------------
(***************************************************************************)
(* WorkspaceBarModel for TLC: a workspace file that opens locally or on a  *)
(* remote host, a folder on that host and a folder on another one, so that *)
(* groups of hosts can be torn apart and put together again.               *)
(***************************************************************************)
EXTENDS WorkspaceBarModel

CONSTANTS file, folder, other, local, h1, h2

MCEntry   == {file, folder, other}
MCHostsOf == [e \in MCEntry |-> CASE e = file   -> {local, h1}
                                 [] e = folder -> {h1}
                                 [] e = other  -> {h2}]

\* The user edits entries that share a host; the third one follows.
MCTwoEdited == {file, folder}

\* For the clock the hosts do not matter.
MCOneHost == [e \in MCEntry |-> {local}]
MCOneEdited == {file}
=============================================================================
