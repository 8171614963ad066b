----------------------------- MODULE MCNetServer ------------------------------
(* Small instances of NetServer for TLC.                                      *)
EXTENDS NetServer

\* The first unit of a message is shorter than the five bytes a protocol is
\* recognised by; a request may arrive in three pieces.
Units == [get |-> 2, upg |-> 2, txt |-> 2, ping |-> 1, cls |-> 1, bad |-> 2]
CONSTANTS c1, c2
Dialogs == [c \in {c1, c2} |->
              IF c = c1 THEN {<<"upg", "ping", "txt", "cls">>, <<"get", "get">>, <<"bad">>}
              ELSE {<<>>}]
Acts == [timerjob |-> {"connect"}, domessage |-> {"send", "close", "delay"},
         onDisconnect |-> {"send"}, onDisconnected |-> {"connect", "close"},
         onTcpOutConnected |-> {"send"}]
=============================================================================
