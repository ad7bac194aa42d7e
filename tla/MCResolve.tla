----------------------------- MODULE MCResolve -----------------------------
(***************************************************************************)
(* Every filesystem over four paths, each missing, a directory, a file or  *)
(* a symlink: chains longer than the hop limit, cycles, links through      *)
(* links, targets that climb, missing directories on the way.              *)
(***************************************************************************)
EXTENDS Resolve

Links == {<<"b">>, <<"..", "b">>, <<"", "b", "c">>, <<"c", "..", "b">>, <<"a", "b">>}

Entries == {[kind |-> k, link |-> << >>] : k \in {"dir", "reg"}}
             \cup {[kind |-> "symlink", link |-> l] : l \in Links}

MCPaths == {<<"a">>, <<"b">>, <<"b", "b">>, <<"b", "c">>}

MCFilesystems == UNION {[S -> Entries] : S \in SUBSET MCPaths}

MCRequests == {<<".">>, <<"a">>, <<"", "a", "b">>, <<"b", "c">>, <<"a", "b", "c">>,
               <<"a", "..", "b">>}
=============================================================================
