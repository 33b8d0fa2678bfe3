---------------------------- MODULE MCWindowTabs ----------------------------
(* Two tabs of one window, in the settings that the runs choose.  *)
EXTENDS WindowTabs

CONSTANTS a, b

TwoTabs == {a, b}

(* The tabs are interchangeable where none is a command tab.              *)
TabSymmetry == Permutations(Tabs)
=============================================================================
