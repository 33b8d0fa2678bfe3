---------------------------- MODULE MCWindowView ----------------------------
EXTENDS WindowView
CONSTANTS w1, w2, t1, t2

MCWindows == {w1, w2}
MCBig == {w1}
MCTabs == {t1, t2}
MCFirst == <<t1, t2>>
=============================================================================
