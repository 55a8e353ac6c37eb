---------------------------- MODULE MCEditorSync ----------------------------
(***************************************************************************)
(* An event that leads to an action, which is also a Load node, and the    *)
(* sessions of a run: every pair of edits; each edit with a lost request;  *)
(* each with an execution; and longer ones that bring a connection into a  *)
(* removal or a refresh.                                                   *)
(***************************************************************************)
EXTENDS EditorSync
MCKinds == {"event", "action"}
MCTempId == [k \in MCKinds |-> [i \in 1 .. 5 |-> <<k, i>>]]
MCServerName == [i \in 1 .. 6 |-> <<"node", i>>]
MCNullName == <<"null", 0>>
MCEmptyName == <<"", 0>>
MCGiven == {<<"action", 3>>, <<"given", 1>>, MCNullName}
MCNames == {<<s, i>> : s \in {"event", "action", "node", "given", "null", ""}, i \in 0 .. 9}
MCFirstNodes == <<"event", "action">>
MCFirstLinks == {<<1, 2>>}
Edits == {"add", "delete", "connect", "disconnect", "rename", "clear", "refresh"}
Of(edits, losses, visits) == [edits |-> edits, losses |-> losses, visits |-> visits]
MCSessions ==
  {Of(<<x, y>>, 0, 0) : x, y \in Edits}
    \cup {Of(<<x>>, 1, 0) : x \in Edits} \cup {Of(<<"connect", "delete">>, 1, 0)}
    \cup {Of(<<"play", x>>, 0, 1) : x \in Edits \cup {"stop"}}
    \cup {Of(<<"play", x>>, 0, 2) : x \in {"rename", "refresh", "stop"}}
    \cup {Of(<<"play", "stop", "delete">>, 0, 1), Of(<<"play", "delete">>, 1, 1), Of(<<"play">>, 0, 3)}
    \cup {Of(x, 0, 0) : x \in
          {<<"disconnect", "connect", "delete">>, <<"disconnect", "connect", "disconnect">>,
           <<"rename", "add", "connect">>, <<"add", "connect", "refresh">>,
           <<"connect", "delete", "clear">>, <<"clear", "add", "refresh">>,
           <<"delete", "delete", "add">>}}
=============================================================================
