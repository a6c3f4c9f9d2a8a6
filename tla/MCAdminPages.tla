---------------------------- MODULE MCAdminPages ----------------------------
(* AdminPages for TLC: a wrapper and three more pids, of which two are      *)
(* listed before its own, and a target that is a dll.                       *)
EXTENDS AdminPages

MCPids == {2, 3, 10, 11}
MCDirOrder == <<10, 11, 2, 3>>
MCCmdlines == {<<"sh">>, <<"dotnet", "app.dll">>}

\* Threads of both kinds, with frames and details; a text that begins within a
\* thread; one of blank lines.
MCTexts == { <<"thread", "frame", "worker", "frame">>,
             <<"frame", "worker", "detail", "thread">>,
             <<"blank", "blank", "blank", "blank">> }
=============================================================================
