------------------------------- MODULE MCPage -------------------------------
EXTENDS Page, MCCanvas
(* Startup: all.xml with its scripts that matter, and the files of two     *)
(* plugins that name the same script, of which the page gets one.          *)
MCFiles == [all |-> {"lua_event", "wait"}, python2 |-> {"python2event"}, python3 |-> {"python3event"}]
MCScripts == [lua_event |-> {"lua", "codemirror"}, wait |-> {},
              python2event |-> {"python", "codemirror_python"},
              python3event |-> {"python", "codemirror_python"}]
MCWaits == [lua |-> {"codemirror", "codemirror_python"}, python |-> {"codemirror", "codemirror_python"},
            codemirror |-> {}, codemirror_python |-> {}]
MCRegisters == [lua |-> {"lua_event"}, python |-> {"python2event"}, codemirror |-> {}, codemirror_python |-> {}]
(* Dialog: a node of each kind that reads the form.                        *)
MCReads == [n \in Nodes |-> CASE n \in {"start1", "web"} -> "visible" [] n = "timer" -> "always" [] OTHER -> "coded"]
MCFields == [n \in Nodes |-> IF n = "web" THEN <<"url">> ELSE IF n = "start1" THEN <<"nodeon">> ELSE <<"", "nodeon">>]
(* Alarms: two of them, and a month of each length.                        *)
MCFirstDates == [a |-> DateOf(31, 0), b |-> DateOf(1, 3)]
MCLastDay == [m \in Months |-> IF m = 1 THEN 28 ELSE IF m = 3 THEN 30 ELSE 31]
(* File browser: a folder in a folder, and files.                          *)
MCDirs == {<<>>, <<"a">>, <<"a", "b">>}
MCStored == {<<<<"a">>, "f">>, <<<<>>, "f">>}
=============================================================================
