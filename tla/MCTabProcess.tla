---------------------------- MODULE MCTabProcess ----------------------------
(* A tab of each kind: a plain one and one created to run a command.       *)
EXTENDS TabProcess

CONSTANTS plain, command

TwoTabs == {plain, command}
OneCommand == {command}
=============================================================================
