---------------------------- MODULE MCRemoteTree ----------------------------
(* Small instance of RemoteTree for TLC. *)
EXTENDS RemoteTree

\* top/       a file or a link, and a directory with a file, are in a directory the
\*   x, d/f   user may remove; another directory far/ holds the same names; and a
\* far/f      link names the first one.
MCName == {"top", "far", "alias", "x", "d", "f"}
MCPlace ==
  {<<>>, <<"top">>, <<"top", "x">>, <<"top", "d">>, <<"top", "d", "f">>,
   <<"far">>, <<"far", "f">>, <<"alias">>}
MCTargets == {<<"top">>, <<"far">>}

LinkTo(p) == [kind |-> "link", to |-> p]
MCStartTree ==
  [p \in MCPlace |->
    CASE p = <<"alias">> -> LinkTo(<<"top">>)
      [] p = <<"top", "x">> -> LinkTo(<<"far">>)
      [] p \in {<<"top", "d", "f">>, <<"far", "f">>} -> Plain
      [] OTHER -> Directory]
=============================================================================
