------------------------------- MODULE MCTurn -------------------------------
(***************************************************************************)
(* Turn on small instances.                                                *)
(***************************************************************************)
EXTENDS Turn

TwoTools == 1 :> "bash" @@ 2 :> "deploy"
Editor == 1 :> "edit"

PlainStyle == [named |-> FALSE, cr |-> FALSE, ids |-> "once"]
AllStyles ==
  {PlainStyle, [named |-> TRUE, cr |-> TRUE, ids |-> "repeat"], [PlainStyle EXCEPT !.ids = "omit"]}
OneStyle == {PlainStyle}

Lua(name, replay, params) == Definition("lua", name, replay, params)
Deploy == Lua("deploy", "never", <<Param("where", TRUE, "here")>>)
LuaBash == Lua("bash", "safe", <<Param("command", FALSE, None), Param("where", TRUE, None)>>)
AllDirs ==
  {<<>>, <<[path |-> 2, tools |-> <<LuaBash>>], [path |-> 1, tools |-> <<Deploy>>]>>}
NoDirs == {<<>>}
TwiceDeclared ==
  {<<[path |-> 1, tools |-> <<Deploy>>],
     [path |-> 2, tools |-> <<Lua("deploy", "safe", <<>>)>>]>>}

AllChains ==
  {<<>>, <<"watch", "guard">>, <<"strip", "guard">>, <<"guard", "strip">>,
   <<"strip", "broken">>}
NoChains == {<<>>}

Args ==
  "bash" :> [command |-> "make", raw |-> TRUE] @@ "deploy" :> [raw |-> TRUE]
    @@ "edit" :> [path |-> Workspace, old |-> <<"a">>, new |-> <<"b">>]
TwoLines == "edit" :> [path |-> Workspace, old |-> <<"a", "a">>, new |-> <<"b">>]

EditCall == [tool |-> "edit", args |-> [path |-> Workspace, old |-> <<"c">>, new |-> <<"d">>]]
WriteCall == [tool |-> "write", args |-> [path |-> Workspace, content |-> <<"x">>]]
BashCall == [tool |-> "bash", args |-> [command |-> "ls", where |-> "there"]]
ReadCall == [tool |-> "read", args |-> [path |-> SpillPath(1, 1), offset |-> 1]]
ListCall == [tool |-> "ls", args |-> NoArgs]
AllOthers == {EditCall, WriteCall, BashCall, ReadCall, ListCall}

File == <<"a", "c">>
Threes == <<"a", "a", "a">>
Texts == {<<"x">>, <<"x", "y", "z">>, <<"p", "q", "r", "s">>}

Setting(keep, window) == [enabled |-> TRUE, reserve |-> 1, keep |-> keep, window |-> window]
AllSettings == {Setting(0, 2), Setting(2, 3), Setting(5, 3)}
=============================================================================
