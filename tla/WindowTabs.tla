----------------------------- MODULE WindowTabs -----------------------------
(***************************************************************************)
(* One window and its tabs (src/src/ptyxis-window.c, ptyxis-parking-lot.c, *)
(* ptyxis-close-dialog.c): tabs are opened, pinned, closed into a parking  *)
(* lot, brought back by undo, and force-quit when they have been parked    *)
(* for too long or when the user confirms the close dialog.                *)
(*                                                                         *)
(* Everything runs on the UI's main loop, but ptyxis_tab_is_running asks   *)
(* the agent synchronously by running the main loop inside the handler     *)
(* (ptyxis_tab_poll_agent).  frames is that C stack: each element is a     *)
(* handler suspended in such a nested loop, and only the topmost can go    *)
(* on; anything else may be dispatched before it does.                     *)
(***************************************************************************)
EXTENDS TabProcess, SequencesExt

CONSTANTS
    Pinnable,        \* the tabs the user may pin
    PromptSettings,  \* what prompt-on-close may be when it is read
    MaxFrames,       \* bound: nested main loops at a time
    MaxParked,       \* bound: entries of the parking lot (see CloseParks)
    MaxForced        \* bound: tabs force-quit while the window is there

ASSUME WindowAssumption ==
    /\ Pinnable \subseteq Tabs
    /\ PromptSettings \subseteq BOOLEAN /\ PromptSettings # {}
    /\ MaxFrames \in Nat /\ MaxFrames >= 2
    /\ MaxParked \in Nat /\ MaxParked >= 1
    /\ MaxForced \in Nat

VARIABLES
    open,         \* the window was not destroyed
    pages,        \* the tabs of the AdwTabView, pinned ones first
    pinned,       \* the pinned ones
    closing,      \* pages whose close-page signal awaits its finish
    pageDialogs,  \* tabs a close dialog asks about, one dialog each
    winDialog,    \* the tabs the window's close dialog asks about
    lot,          \* the parking lot, oldest first
    frames        \* the suspended handlers, innermost last

windowVars == << open, pages, pinned, closing, pageDialogs, winDialog, lot, frames >>
vars == << tabVars, windowVars >>

Shown  == ToSet(pages)
Parked == ToSet(lot)

(* The handlers that can be suspended.  busy: the tab had a process when   *)
(* the agent was asked.  "look" is the close-request loop between two      *)
(* tabs, which is not suspended: it goes on before anything else happens.  *)
(* left counts the pages it has still to visit, asked are the tabs found   *)
(* running, live says that the page it visits is still in the view.        *)
Frames ==
    [op : {"close", "undo"}, tab : Tabs, busy : BOOLEAN]
      \cup [op : {"winclose"}, tab : Tabs, busy : BOOLEAN, live : BOOLEAN,
            left : Nat, asked : SUBSET Tabs]
      \cup [op : {"look"}, left : Nat, asked : SUBSET Tabs]

WindowTypeOK ==
    /\ TypeOK
    /\ open \in BOOLEAN
    /\ pages \in Seq(Tabs) /\ lot \in Seq(Tabs) /\ frames \in Seq(Frames)
    /\ pinned \subseteq Shown /\ closing \subseteq Shown
    /\ pageDialogs \subseteq Tabs /\ winDialog \subseteq Tabs
    /\ Len(frames) <= MaxFrames

On(op)  == frames # << >> /\ Last(frames).op = op
Looking == On("look")

(* Any callback of the main loop, nested or not.                           *)
MainLoop == ~Looking

Room(n) == Len(frames) + n <= MaxFrames

MayForce(t) == Cardinality({ s \in Tabs : forcedExit[s] } \ {t}) < MaxForced

(* ptyxis_tab_is_running: without a process the answer is no; with one the *)
(* agent says whether the foreground program is not the shell, and whether *)
(* it still is by the time the answer is used nobody knows.                *)
Answers == IF Last(frames).busy THEN BOOLEAN ELSE {FALSE}

Poll(op, t) == [op |-> op, tab |-> t, busy |-> process[t]]

-----------------------------------------------------------------------------
(* The tab view and the window *)

NPinned == Cardinality(pinned)

(* adw_tab_view_insert at the 0-based position p, which refuses a position *)
(* inside the pinned section and a tab that is in a view already.          *)
InsertPage(t, p) ==
    pages' = IF p < NPinned \/ t \in Shown THEN pages ELSE InsertAt(pages, p + 1, t)

(* The other pages, when that of t is detached or put elsewhere.           *)
Without(t) == RemoveAt(pages, CHOOSE k \in DOMAIN pages : pages[k] = t)

(* ptyxis_window_add_tab: next to the selected page, which may be any, or  *)
(* last, as the new-tab-position setting says.                             *)
AddTab(t) ==
    \E p \in IF pages = << >> THEN {0} ELSE 1 .. Len(pages) : InsertPage(t, p)

(* gtk_window_destroy: the view and its dialogs go; what suspended         *)
(* handlers would still do is refused by the disposed widgets.             *)
Destroyed ==
    /\ open' = FALSE
    /\ pages' = << >> /\ pinned' = {} /\ closing' = {}
    /\ pageDialogs' = {} /\ winDialog' = {}
    /\ lot' = << >> /\ frames' = << >>

(* A close-request loop suspended on a page that leaves the view holds a   *)
(* dead page.                                                              *)
ForgetPage(stack, t) ==
    [k \in DOMAIN stack |->
        IF stack[k].op = "winclose" /\ stack[k].tab = t
        THEN [stack[k] EXCEPT !.live = FALSE] ELSE stack[k]]

(* The page of t leaves the view, its tab having been parked, and the tabs *)
(* of quit having been force-quit.  With the last page the window goes     *)
(* (update_visible_and_maybe_close), and with it the parking lot, which    *)
(* force-quits what it holds.                                              *)
DetachParked(t, stack, quit) ==
    LET parked == Append(lot, t) IN
    IF Shown = {t}
    THEN /\ Destroyed
         /\ ForceQuit(quit \cup ToSet(parked))
    ELSE /\ pages' = Without(t)
         /\ pinned' = pinned \ {t} /\ closing' = closing \ {t}
         /\ pageDialogs' = pageDialogs \ {t}
         /\ lot' = parked
         /\ frames' = ForgetPage(stack, t)
         /\ ForceQuit(quit)
         /\ UNCHANGED << open, winDialog >>

-----------------------------------------------------------------------------
(* Opening and pinning *)

(* ptyxis_window_new_tab_action with a tab nobody has seen yet.            *)
NewTab(t) ==
    /\ MainLoop /\ open
    /\ state[t] = "INITIAL" /\ ~forcedExit[t]
    /\ t \notin Shown \cup Parked /\ \A k \in DOMAIN frames : frames[k].op = "undo" => frames[k].tab # t
    /\ AddTab(t)
    /\ UNCHANGED << tabVars, open, pinned, closing, pageDialogs, winDialog, lot, frames >>

(* The tab is selected, so its widget is mapped.                           *)
MapTab(t) ==
    /\ MainLoop /\ t \in Shown
    /\ Map(t)
    /\ UNCHANGED windowVars

(* tab.pin: the page moves to the end of the pinned section.               *)
Pin(t) ==
    /\ MainLoop /\ t \in (Shown \cap Pinnable) \ pinned
    /\ pages' = InsertAt(Without(t), NPinned + 1, t)
    /\ pinned' = pinned \cup {t}
    /\ UNCHANGED << tabVars, open, closing, pageDialogs, winDialog, lot, frames >>

(* The page of t leaves the pinned section, if it is in it.                *)
Unpinned(t) ==
    /\ pages' = IF t \in pinned THEN InsertAt(Without(t), NPinned, t) ELSE pages
    /\ pinned' = pinned \ {t}

Unpin(t) ==
    /\ MainLoop /\ t \in pinned
    /\ Unpinned(t)
    /\ UNCHANGED << tabVars, open, closing, pageDialogs, winDialog, lot, frames >>

-----------------------------------------------------------------------------
(* Closing a tab *)

(* adw_tab_view_close_page on a page that is not closing yet emits         *)
(* close-page, and ptyxis_window_close_page_cb asks the agent.             *)
CloseTab(t) ==
    /\ MainLoop /\ t \in Shown \ closing /\ Room(1)
    /\ closing' = closing \cup {t}
    /\ frames' = Append(frames, Poll("close", t))
    /\ UNCHANGED << tabVars, open, pages, pinned, pageDialogs, winDialog, lot >>

(* The rest of close_page_cb: something runs and the user wants to know.   *)
CloseAsks ==
    /\ On("close")
    /\ TRUE \in Answers /\ TRUE \in PromptSettings
    /\ pageDialogs' = pageDialogs \cup {Last(frames).tab}
    /\ frames' = Front(frames)
    /\ UNCHANGED << tabVars, open, pages, pinned, closing, winDialog, lot >>

(* Otherwise the tab is parked and the default handler finishes the close, *)
(* which refuses it for a pinned page (that page can be parked again and   *)
(* again: MaxParked is the bound).                                         *)
CloseParks ==
    /\ On("close")
    /\ FALSE \in Answers \/ FALSE \in PromptSettings
    /\ LET t == Last(frames).tab IN
         \/ /\ t \notin pinned
            /\ DetachParked(t, Front(frames), {})
         \/ /\ t \in pinned /\ Len(lot) < MaxParked
            /\ lot' = Append(lot, t)
            /\ closing' = closing \ {t}
            /\ frames' = Front(frames)
            /\ UNCHANGED << tabVars, open, pages, pinned, pageDialogs, winDialog >>

(* ptyxis_window_close_page_dialog_cb; a confirmed close of a pinned page  *)
(* is not refused.                                                         *)
DialogDiscard(t) ==
    /\ MainLoop /\ t \in pageDialogs /\ MayForce(t)
    /\ DetachParked(t, frames, {t})

(* Wrong: Cancel does not finish the close of the page.                   *)
CancelLeavesClosing(t) ==
    /\ MainLoop /\ t \in pageDialogs
    /\ pageDialogs' = pageDialogs \ {t}
    /\ UNCHANGED << tabVars, open, pages, pinned, closing, winDialog, lot, frames >>

DialogCancel(t) ==
    /\ MainLoop /\ t \in pageDialogs
    /\ pageDialogs' = pageDialogs \ {t}
    /\ closing' = closing \ {t}
    /\ UNCHANGED << tabVars, open, pages, pinned, winDialog, lot, frames >>

(* Wrong: a tab without a process stays.                                  *)
TimeoutNeedsProcess ==
    /\ MainLoop /\ lot # << >> /\ process[Head(lot)]
    /\ lot' = Tail(lot)
    /\ ForceQuit({Head(lot)})
    /\ UNCHANGED << open, pages, pinned, closing, pageDialogs, winDialog, frames >>

(* ptyxis_parking_lot_source_func.  All timers are equally long, so the    *)
(* oldest is due first.                                                    *)
ParkTimeout ==
    /\ MainLoop /\ lot # << >> /\ MayForce(Head(lot))
    /\ lot' = Tail(lot)
    /\ ForceQuit({Head(lot)})
    /\ UNCHANGED << open, pages, pinned, closing, pageDialogs, winDialog, frames >>

(* Wrong: the tab stays in the lot.                                       *)
UndoKeepsTimer ==
    /\ MainLoop /\ lot # << >> /\ Room(1)
    /\ frames' = Append(frames, Poll("undo", Head(lot)))
    /\ UNCHANGED << tabVars, open, pages, pinned, closing, pageDialogs, winDialog, lot >>

(* ptyxis_window_undo_close_tab_action up to its question to the agent.    *)
UndoClose ==
    /\ MainLoop /\ lot # << >> /\ Room(1)
    /\ lot' = Tail(lot)
    /\ frames' = Append(frames, Poll("undo", Head(lot)))
    /\ UNCHANGED << tabVars, open, pages, pinned, closing, pageDialogs, winDialog >>

(* The rest of it: a tab that is "not running" gets its banner shown.      *)
UndoShows ==
    /\ On("undo")
    /\ LET t == Last(frames).tab IN
         /\ \/ TRUE \in Answers /\ UNCHANGED tabVars
            \/ FALSE \in Answers /\ ShowBanner(t)
         /\ AddTab(t)
    /\ frames' = Front(frames)
    /\ UNCHANGED << open, pinned, closing, pageDialogs, winDialog, lot >>

-----------------------------------------------------------------------------
(* Closing the window *)

(* ptyxis_window_close_request.  Without prompts the window goes at once;  *)
(* the tabs it shows are not force-quit, those it has parked are.          *)
(* Bound: one close request at a time.                                     *)
WinClose ==
    /\ MainLoop /\ open /\ winDialog = {} /\ Room(2)
    /\ \A k \in DOMAIN frames : frames[k].op # "winclose"
    /\ \/ /\ FALSE \in PromptSettings
          /\ Destroyed
          /\ ForceQuit(Parked)
       \/ /\ TRUE \in PromptSettings
          /\ frames' = Append(frames, [op |-> "look", left |-> Len(pages), asked |-> {}])
          /\ UNCHANGED << tabVars, open, pages, pinned, closing, pageDialogs, winDialog, lot >>

(* The loop takes the page at the next index below, which it computed      *)
(* from the number of pages before its first question; where there is no   *)
(* such page any more, is_running and close_page refuse the NULL.          *)
LookAtPage ==
    /\ Looking /\ Last(frames).left > 0
    /\ LET f == Last(frames) IN
         frames' = Append(Front(frames),
            IF f.left <= Len(pages)
            THEN [op |-> "winclose", tab |-> pages[f.left],
                  busy |-> process[pages[f.left]], live |-> TRUE,
                  left |-> f.left - 1, asked |-> f.asked]
            ELSE [f EXCEPT !.left = @ - 1])
    /\ UNCHANGED << tabVars, open, pages, pinned, closing, pageDialogs, winDialog, lot >>

(* The loop is over: ask about the tabs found running, or let GTK destroy  *)
(* the window.                                                             *)
LookIsOver ==
    /\ Looking /\ Last(frames).left = 0
    /\ LET asked == Last(frames).asked IN
         \/ /\ asked = {}
            /\ Destroyed
            /\ ForceQuit(Parked)
         \/ /\ asked # {}
            /\ winDialog' = asked
            /\ frames' = Front(frames)
            /\ UNCHANGED << tabVars, open, pages, pinned, closing, pageDialogs, lot >>

Looked(f, more) == [op |-> "look", left |-> f.left, asked |-> f.asked \cup more]

(* The tab of this round runs something: ask about it later.               *)
WinCloseKeeps ==
    /\ On("winclose") /\ TRUE \in Answers
    /\ frames' = Append(Front(frames), Looked(Last(frames), {Last(frames).tab}))
    /\ UNCHANGED << tabVars, open, pages, pinned, closing, pageDialogs, winDialog, lot >>

(* It runs nothing: close its page, which asks the agent once more.  A     *)
(* page that is closing already, or that left the view, is left alone.     *)
WinCloseCloses ==
    /\ On("winclose") /\ FALSE \in Answers
    /\ LET f == Last(frames)
           emits == f.live /\ f.tab \notin closing
       IN /\ closing' = IF emits THEN closing \cup {f.tab} ELSE closing
          /\ frames' = Append(Front(frames), Looked(f, {}))
                         \o (IF emits THEN << Poll("close", f.tab) >> ELSE << >>)
    /\ UNCHANGED << tabVars, open, pages, pinned, pageDialogs, winDialog, lot >>

(* Wrong: all tabs are ended, not those asked about.                      *)
DiscardQuitsAll ==
    /\ MainLoop /\ winDialog # {}
    /\ Destroyed
    /\ ForceQuit(Shown \cup winDialog \cup Parked)

(* ptyxis_window_close_request_cb.                                         *)
WinDialogDiscard ==
    /\ MainLoop /\ winDialog # {}
    /\ Destroyed
    /\ ForceQuit(winDialog \cup Parked)

WinDialogCancel ==
    /\ MainLoop /\ winDialog # {}
    /\ winDialog' = {}
    /\ UNCHANGED << tabVars, open, pages, pinned, closing, pageDialogs, lot, frames >>

-----------------------------------------------------------------------------
(* The tabs' own callbacks, in their window *)

(* Wrong: no look at the state.                                           *)
RestartsRunning(t) ==
    /\ MainLoop /\ t \in Shown
    /\ bannerVisible[t] /\ label[t] = "restart"
    /\ \E launched \in Launches : Respawn(t, launched, label[t])
    /\ UNCHANGED << process, forcedExit, child, waitCalls, killArmed >>
    /\ UNCHANGED windowVars

RestartTab(t) ==
    /\ MainLoop /\ t \in Shown
    /\ RespawnAction(t)
    /\ UNCHANGED windowVars

(* ptyxis_tab_wait_cb with exit action CLOSE, on a tab that is in a view:  *)
(* it is unpinned and its page closed, unless that is under way already.   *)
WaitClosesPage(t) ==
    /\ MainLoop /\ t \in Shown /\ Room(1)
    /\ WaitClose(t)
    /\ Unpinned(t)
    /\ closing' = closing \cup {t}
    /\ frames' = IF t \in closing THEN frames
                 ELSE Append(frames, [op |-> "close", tab |-> t, busy |-> FALSE])
    /\ UNCHANGED << open, pageDialogs, winDialog, lot >>

TabSpawned(t) ==
    /\ MainLoop
    /\ SpawnDone(t) \/ SpawnFailed(t)
    /\ UNCHANGED windowVars

TabExits(t) ==
    /\ MainLoop
    /\ Exit(t)
    /\ UNCHANGED windowVars

TabWaited(t) ==
    \/ /\ MainLoop
       /\ \/ WaitForced(t) \/ WaitSignaled(t) \/ WaitRestart(t) \/ WaitShow(t)
          \/ t \notin Shown /\ WaitClose(t)
       /\ UNCHANGED windowVars
    \/ WaitClosesPage(t)

TabKillTimer(t) ==
    /\ MainLoop
    /\ KillTimer(t)
    /\ UNCHANGED windowVars

-----------------------------------------------------------------------------
(* A window is created with its first tab.                                 *)
Init ==
    /\ TabInit
    /\ open = TRUE
    /\ pages \in { << t >> : t \in Tabs }
    /\ pinned = {} /\ closing = {} /\ pageDialogs = {} /\ winDialog = {}
    /\ lot = << >> /\ frames = << >>

(* The nested main loop of the innermost handler has its answer.           *)
Resume == CloseAsks \/ CloseParks \/ UndoShows \/ WinCloseKeeps \/ WinCloseCloses

UserStep ==
    \/ \E t \in Tabs :
          \/ NewTab(t)
          \/ MapTab(t)
          \/ Pin(t)
          \/ Unpin(t)
          \/ CloseTab(t)
          \/ DialogDiscard(t)
          \/ DialogCancel(t)
          \/ RestartTab(t)
    \/ UndoClose
    \/ WinClose
    \/ WinDialogDiscard
    \/ WinDialogCancel

LoopStep == Resume \/ LookAtPage \/ LookIsOver \/ ParkTimeout

ProcessStep ==
    \E t \in Tabs :
        \/ TabSpawned(t)
        \/ TabExits(t)
        \/ TabWaited(t)
        \/ TabKillTimer(t)

Next == UserStep \/ LoopStep \/ ProcessStep

Safety == Init /\ [][Next]_vars

(* GLib dispatches a source that is due however often others are ready     *)
(* too, so a callback that is due again and again is dispatched (SF: the   *)
(* close-request loop disables it in between), and the agent answers.  The *)
(* user may do nothing.                                                    *)
Fairness ==
    /\ SF_vars(Resume)
    /\ WF_vars(LookAtPage \/ LookIsOver)
    /\ SF_vars(ParkTimeout)

Spec == Safety /\ Fairness

-----------------------------------------------------------------------------
(* Properties *)

Awaiting(op, t) == { k \in DOMAIN frames : frames[k].op = op /\ frames[k].tab = t }

(* adw_tab_view_close_page ignores a page whose close has begun, so each   *)
(* begun close must be finished by exactly one party: the suspended        *)
(* close_page_cb or one open dialog.  A close with no party would make its *)
(* tab impossible to close, one with two would be finished twice.          *)
ClosesAccountedFor ==
    \A t \in Tabs :
        Cardinality(Awaiting("close", t)) + (IF t \in pageDialogs THEN 1 ELSE 0)
            = IF t \in closing THEN 1 ELSE 0

(* How often t is in the tab view, in the parking lot, or taken out of it  *)
(* by an undo that is not done.                                            *)
Places(t) ==
    Cardinality({ k \in DOMAIN pages : pages[k] = t })
      + Cardinality({ k \in DOMAIN lot : lot[k] = t })
      + Cardinality(Awaiting("undo", t))

(* A tab is in one place at a time, so the parking timer never ends a tab  *)
(* the user looks at (a pinned one is parked while it stays in the view);  *)
(* and while the window is there, a launched or running tab is in some     *)
(* place or was force-quit: no close, undo, timeout or exit in between     *)
(* loses track of a process (with two pinned pages the tab view may refuse *)
(* a tab that is added after the first of them).                           *)
OnePlace ==
    /\ \A t \in Tabs \ Pinnable : Places(t) <= 1
    /\ (\A s, t \in Pinnable : s = t) /\ open =>
          \A t \in Tabs :
             state[t] \in {"SPAWNING", "RUNNING"} /\ ~forcedExit[t] => Places(t) >= 1

(* A shown tab is only force-quit when the user confirmed a dialog that    *)
(* asked about it, never by a timer or by the end of another tab (or when  *)
(* closing it, the last one, closes the window).  Again but for those that *)
(* the user may pin.                                                       *)
ShownTabsAskedFirst ==
    [][\A t \in Tabs \ Pinnable :
          t \in Shown /\ ~forcedExit[t] /\ forcedExit'[t] =>
              \/ t \in pageDialogs \cup winDialog
              \/ ~open' /\ Shown = {t} /\ On("close")]_vars

(* A closed tab does not linger in the parking lot with its process: it is *)
(* brought back or force-quit, however many are closed after it.           *)
ParkedLeaves == \A t \in Tabs : t \in Parked ~> t \notin Parked \/ forcedExit[t]

(* Whatever the window does, each of its tabs behaves as in TabProcess.    *)
TabsBehave == TabSafety
=============================================================================
