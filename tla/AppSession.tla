------------------------------ MODULE AppSession ------------------------------
(* The session of the application: which windows and tabs it opens when it is *)
(* asked to, what it writes to session.gvariant when they go away and what it *)
(* opens again from that file (ptyxis-application.c, ptyxis-session.c,         *)
(* ptyxis-window.c, main.c).                                                  *)
(*                                                                            *)
(* "main" is the unique instance of the application, which every further      *)
(* start and the desktop talk to. "solo" is one started as a standalone       *)
(* instance: it answers its own command line only. Both use the same file.    *)
(*                                                                            *)
(* A tab is Plain or, once it is pinned, one of Pinnable, so that it can be   *)
(* told from the others after a restart; pinned tabs come first in a window.  *)
(* Titles, sizes, directories, profiles, the selected tab, and the            *)
(* --maximize, --fullscreen and --title options are left out.                 *)
EXTENDS Integers, Sequences, SequencesExt, FiniteSets

CONSTANTS Pinnable,     \* tabs that may be pinned
          Plain,        \* a tab that is not pinned
          NoSession,    \* no session file, or none that can be read
          MaxInstances, \* bounds the instances that run at a time
          MaxWindows,   \* [Instances -> Nat], bounds the windows of an instance
          MaxTabs,      \* bounds the tabs of a window
          MaxWrites     \* bounds the writes of an instance under way

Instances == {"main", "solo"}

Tab == Pinnable \cup {Plain}
SavedWindow == Seq(Tab)

ASSUME SessionAssumption ==
    /\ Plain \notin Pinnable
    /\ NoSession \notin Seq(SavedWindow)
    /\ MaxInstances \in Nat \ {0}
    /\ MaxWindows \in [Instances -> Nat]
    /\ MaxTabs \in Nat \ {0}
    /\ MaxWrites \in Nat \ {0}

VARIABLES
    file,             \* the windows session.gvariant holds, or NoSession
    restore_session,  \* the user's setting
    phase,            \* "off", "started" (nothing asked yet) or "running"
    session,          \* what the instance read at its startup, until it is restored
    has_restored_session,
    windows,          \* the windows of an instance
    preferences,      \* whether its preferences window is open
    writes,           \* sessions being written, in the order they were saved
    kept,             \* history: pinned tabs that the user did not close, nor a crash took
    unsaved,          \* history: those of them that no file has had since they were pinned
    excused           \* history: something happened that can lose tabs

sessionVars == <<file, restore_session, phase, session, has_restored_session, windows,
                 preferences, writes, kept, unsaved, excused>>

(* asking: a dialog asks whether to close the window; "saved" if the session  *)
(* was saved when the user asked for that, "unsaved" if it was not.           *)
PinnedFirst == {tabs \in Seq(Tab) : \A k \in 2..Len(tabs) : tabs[k] # Plain => tabs[k - 1] # Plain}
Window == [tabs : PinnedFirst, single : BOOLEAN, asking : {"no", "saved", "unsaved"}]

WindowOf(tabs) == [tabs |-> tabs, single |-> FALSE, asking |-> "no"]

IdsIn(tabs) == ToSet(tabs) \cap Pinnable
Shown(ws) == UNION {IdsIn(ws[w].tabs) : w \in DOMAIN ws}
Recorded(s) == IF s = NoSession THEN {} ELSE UNION {IdsIn(s[w]) : w \in DOMAIN s}

(* ---- ptyxis-session.c --------------------------------------------------- *)
(* The tabs that come back: all, or the pinned ones.                         *)
Worth(whole) == IF whole THEN Tab ELSE Pinnable

(* The elements of a list that are in a set, in their order.                 *)
Only(list, set) == FoldLeft(LAMBDA l, x : IF x \in set THEN Append(l, x) ELSE l, << >>, list)
Nonempty(list) == Only(list, Seq(Tab) \ {<<>>})

(* The windows of a list with the tabs that come back, without those that      *)
(* have none: a restore does not open them.                                  *)
Returning(list, whole) == Nonempty([w \in DOMAIN list |-> Only(list[w], Worth(whole))])

(* Every window is saved with the tabs that are to come back. One that has    *)
(* none is written too, and left out here.                                   *)
Saved(ws, whole) == Returning([w \in DOMAIN ws |-> ws[w].tabs], whole)

(* When only the pinned tabs come back, a plain tab is added to each window. *)
Opened(tabs, whole) == WindowOf(IF whole THEN tabs ELSE Append(tabs, Plain))

(* Wrong: the first window with nothing to bring back ends the restore.      *)
RestoresUpToEmpty(s, whole) ==
    LET Back(w) == Only(s[w], Worth(whole))
        first == {w \in DOMAIN s : \A v \in 1..w : Back(v) # <<>>}
    IN  [w \in first |-> Opened(Back(w), whole)]

Restored(s, whole) ==
    LET back == Returning(s, whole) IN [w \in DOMAIN back |-> Opened(back[w], whole)]
----------------------------------------------------------------------------
SessionInit ==
    /\ file = NoSession
    /\ restore_session \in BOOLEAN
    /\ phase = [i \in Instances |-> "off"]
    /\ session = [i \in Instances |-> NoSession]
    /\ has_restored_session = [i \in Instances |-> FALSE]
    /\ windows = [i \in Instances |-> <<>>]
    /\ preferences = [i \in Instances |-> FALSE]
    /\ writes = [i \in Instances |-> <<>>]
    /\ kept = {}
    /\ unsaved = {}
    /\ excused = FALSE

(* ptyxis_application_startup reads the session file. Two instances at a time *)
(* write over one another's sessions; MaxInstances says whether there can be. *)
Start(i) ==
    /\ phase[i] = "off" /\ Cardinality({j \in Instances : phase[j] # "off"}) < MaxInstances
    /\ phase' = [phase EXCEPT ![i] = "started"]
    /\ session' = [session EXCEPT ![i] = file]
    /\ UNCHANGED <<file, restore_session, has_restored_session, windows, preferences,
                   writes, kept, unsaved, excused>>

(* ---- Opening ------------------------------------------------------------ *)
CanRestore(i) == ~has_restored_session[i] /\ session[i] # NoSession

(* ptyxis_application_restore: the windows it adds, and its flag.            *)
Restoring(i) == IF CanRestore(i) THEN Restored(session[i], restore_session) ELSE <<>>

MarksRestored(i) ==
    /\ has_restored_session' = [has_restored_session EXCEPT ![i] = @ \/ CanRestore(i)]
    /\ session' = [session EXCEPT ![i] = NoSession]

LeavesSession == UNCHANGED <<has_restored_session, session>>

(* A request leaves the instance with the windows ws. It opens them unaware of *)
(* the session if it left it unread, or if the instance outlived its windows. *)
Serves(i, ws) ==
    /\ Len(ws) <= MaxWindows[i]
    /\ \A w \in DOMAIN ws : Len(ws[w].tabs) <= MaxTabs
    /\ phase' = [phase EXCEPT ![i] = "running"]
    /\ windows' = [windows EXCEPT ![i] = ws]
    /\ excused' = (excused \/
          /\ ws # <<>>
          /\ \/ session'[i] # NoSession
             \/ windows[i] = <<>> /\ phase[i] = "running" /\ ~CanRestore(i))
    /\ UNCHANGED <<file, restore_session, writes, kept, unsaved>>

OneMore(ws) == Append(ws, WindowOf(<<Plain>>))
AtLeastOne(ws) == IF ws = <<>> THEN OneMore(ws) ELSE ws

(* A tab more in the current window, any of those there are, or in a new one. *)
WithTab(ws) ==
    IF ws = <<>> THEN {OneMore(ws)}
                 ELSE {[ws EXCEPT ![w].tabs = Append(@, Plain)] : w \in DOMAIN ws}

(* A command line reaches the unique instance at any time, a standalone one   *)
(* once. The unique one restores first (ptyxis_application_command_line).    *)
Asks(i) == phase[i] = "started" \/ (i = "main" /\ phase[i] = "running")
Present(i) == windows[i] \o (IF i = "main" THEN Restoring(i) ELSE <<>>)
RestoresFirst(i) == IF i = "main" THEN MarksRestored(i) ELSE LeavesSession

(* --tab with --new-window: an error, before anything else is done.          *)
Refused(i) ==
    /\ Asks(i)
    /\ LeavesSession /\ UNCHANGED preferences
    /\ Serves(i, windows[i])

(* --preferences, or a command that cannot be parsed.                        *)
OpensNoTab(i) ==
    /\ Asks(i)
    /\ RestoresFirst(i)
    /\ Serves(i, Present(i))
    /\ \E asked \in BOOLEAN : preferences' = [preferences EXCEPT ![i] = @ \/ asked]

(* --tab and --tab-with-profile, with a command or without.                  *)
OpenTab(i) ==
    /\ Asks(i)
    /\ RestoresFirst(i)
    /\ \E ws \in WithTab(Present(i)) : Serves(i, ws)
    /\ UNCHANGED preferences

(* --new-window is content with what the session brought back, or adds its    *)
(* tab there if it comes with a directory. With a command or with             *)
(* --tab-with-profile it always opens a window.                              *)
OpenWindow(i) ==
    /\ Asks(i)
    /\ RestoresFirst(i)
    /\ \/ Serves(i, OneMore(Present(i)))
       \/ /\ Present(i) # windows[i]
          /\ \E ws \in WithTab(Present(i)) \cup {Present(i)} : Serves(i, ws)
    /\ UNCHANGED preferences

(* A command alone makes the instance a standalone one, with a window of a     *)
(* single terminal (check_early_opts, ptyxis_window_new_for_command).        *)
OpenCommand ==
    /\ Asks("solo")
    /\ LeavesSession /\ UNCHANGED preferences
    /\ Serves("solo", <<[tabs |-> <<Plain>>, single |-> TRUE, asking |-> "no"]>>)

(* A command line without options ends in the same way as an activation by   *)
(* the desktop, which restores if there is no window.                        *)
Activate(i) ==
    /\ Asks(i)
    /\ \/ RestoresFirst(i) /\ Present(i) # <<>> /\ Serves(i, Present(i))
       \/ windows[i] # <<>> /\ LeavesSession /\ Serves(i, windows[i])
       \/ /\ windows[i] = <<>>
          /\ MarksRestored(i)
          /\ Serves(i, AtLeastOne(Restoring(i)))
    /\ UNCHANGED preferences

(* Files to open go to a window that the session brought back, or else to a   *)
(* new one; there is no tab for a URI that cannot be parsed.                 *)
Open(valid) ==
    LET i == "main"
        brought == Restoring(i) # <<>>
        ws == windows[i] \o Restoring(i)
    IN  /\ Asks(i)
        /\ MarksRestored(i)
        /\ CASE brought /\ valid -> \E more \in WithTab(ws) : Serves(i, more)
             [] brought /\ ~valid -> Serves(i, ws)
             [] ~brought -> Serves(i, Append(ws, WindowOf(IF valid THEN <<Plain>> ELSE <<>>)))
        /\ UNCHANGED preferences

(* The actions app.new-tab, app.new-window and app.preferences, which the     *)
(* desktop can activate in an instance that it starts for that: none restores. *)
AppAction ==
    /\ Asks("main")
    /\ LeavesSession
    /\ \/ \E ws \in {OneMore(windows["main"])} \cup WithTab(windows["main"]) :
            Serves("main", ws) /\ UNCHANGED preferences
       \/ /\ Serves("main", windows["main"])
          /\ preferences' = [preferences EXCEPT !["main"] = TRUE]

(* ---- Windows and tabs ---------------------------------------------------- *)
Unused == Pinnable \ (kept \cup Recorded(file)
                 \cup (UNION {Shown(windows[i]) \cup Recorded(session[i]) : i \in Instances})
                 \cup (UNION {UNION {Recorded(s) : s \in ToSet(writes[i])} : i \in Instances}))

(* The user closes or unpins these tabs.                                     *)
Forgets(ids) == kept' = kept \ ids /\ unsaved' = unsaved \ ids

KeepsTheRest(i) ==
    UNCHANGED <<file, restore_session, phase, session, has_restored_session, preferences, excused>>

(* win.new-tab; a dialog is modal to its window.                             *)
NewTab(i, w) ==
    /\ windows[i][w].asking = "no" /\ ~windows[i][w].single
    /\ Len(windows[i][w].tabs) < MaxTabs
    /\ windows' = [windows EXCEPT ![i][w].tabs = Append(@, Plain)]
    /\ KeepsTheRest(i) /\ UNCHANGED <<writes, kept, unsaved>>

(* win.new-window                                                            *)
NewWindow(i, w) ==
    /\ windows[i][w].asking = "no" /\ ~windows[i][w].single
    /\ Len(windows[i]) < MaxWindows[i]
    /\ windows' = [windows EXCEPT ![i] = OneMore(@)]
    /\ KeepsTheRest(i) /\ UNCHANGED <<writes, kept, unsaved>>

(* win.preferences: the window belongs to the application.                   *)
OpenPreferences(i, w) ==
    /\ windows[i][w].asking = "no"
    /\ preferences' = [preferences EXCEPT ![i] = TRUE]
    /\ UNCHANGED <<file, restore_session, phase, session, has_restored_session, windows, writes,
                   kept, unsaved, excused>>

(* tab.pin and tab.unpin: the tab moves to the pinned ones, or after them.   *)
Pin(i, w) ==
    /\ windows[i][w].asking = "no" /\ ~windows[i][w].single
    /\ \E id \in Unused :
         LET tabs == windows[i][w].tabs
             pinned == Cardinality(IdsIn(tabs))
         IN  /\ Plain \in ToSet(tabs)
             /\ windows' = [windows EXCEPT ![i][w].tabs = ReplaceAt(tabs, pinned + 1, id)]
             /\ kept' = kept \cup {id} /\ unsaved' = unsaved \cup {id}
    /\ KeepsTheRest(i) /\ UNCHANGED writes

Unpin(i, w) ==
    /\ windows[i][w].asking = "no"
    /\ \E id \in IdsIn(windows[i][w].tabs) :
         /\ windows' = [windows EXCEPT ![i][w].tabs =
                            Append(Only(@, Tab \ {id}), Plain)]
         /\ Forgets({id})
    /\ KeepsTheRest(i) /\ UNCHANGED writes

(* ptyxis_application_save_session, of the windows as they are.              *)
Save(i, ws) ==
    /\ Len(writes[i]) < MaxWrites
    /\ writes' = [writes EXCEPT ![i] = Append(@, Saved(ws, restore_session))]

(* Closing a window while others are open closes its tabs for good.          *)
Forgotten(i, w) == IF Len(windows[i]) > 1 THEN IdsIn(windows[i][w].tabs) ELSE {}

(* A tab is closed or its process ends. The window goes with its last tab, and *)
(* the session is saved without it unless the window is asking (page_detached_cb, *)
(* update_visible_and_maybe_close).                                          *)
TabGone(i, w) ==
    \E k \in DOMAIN windows[i][w].tabs :
      LET left == [windows[i] EXCEPT ![w].tabs = RemoveAt(@, k)]
          last == left[w].tabs = <<>>
      IN  /\ windows' = [windows EXCEPT ![i] = IF last THEN RemoveAt(left, w) ELSE left]
          /\ IF last /\ left[w].asking = "no" THEN Save(i, left) ELSE UNCHANGED writes
          /\ Forgets({windows[i][w].tabs[k]})
          /\ KeepsTheRest(i)

(* Wrong: the session is saved when the window is gone.                      *)
RequestSavesNone(i, w) == FALSE

(* ptyxis_window_close_request: the last window saves the session.           *)
RequestSaves(i, w) == ~windows[i][w].single /\ Len(windows[i]) = 1

SavesOnRequest(i, w) ==
    IF RequestSaves(i, w) THEN Save(i, windows[i]) ELSE UNCHANGED writes

(* Nothing runs in the window, or the user does not want to be asked.        *)
CloseWindow(i, w) ==
    /\ windows[i][w].asking = "no"
    /\ SavesOnRequest(i, w)
    /\ windows' = [windows EXCEPT ![i] = RemoveAt(@, w)]
    /\ Forgets(Forgotten(i, w))
    /\ KeepsTheRest(i)

(* Something does: plain tabs in which nothing runs close, and the user is     *)
(* asked about the others.                                                   *)
AskToClose(i, w) ==
    /\ windows[i][w].asking = "no"
    /\ SavesOnRequest(i, w)
    /\ \E plain \in 0..Len(windows[i][w].tabs) :
         LET tabs == windows[i][w].tabs
             pinned == Cardinality(IdsIn(tabs))
         IN  /\ plain \in pinned..Len(tabs) /\ plain # 0
             /\ windows' = [windows EXCEPT ![i][w] =
                   [@ EXCEPT !.tabs = SubSeq(tabs, 1, plain),
                             !.asking = IF RequestSaves(i, w) THEN "saved" ELSE "unsaved"]]
    /\ KeepsTheRest(i) /\ UNCHANGED <<kept, unsaved>>

(* ptyxis_window_close_request_cb destroys the window and saves nothing, even  *)
(* when it has become the last one since the user asked.                     *)
CloseAnswered(i, w) ==
    /\ windows[i][w].asking # "no"
    /\ \/ /\ windows' = [windows EXCEPT ![i] = RemoveAt(@, w)]
          /\ Forgets(Forgotten(i, w))
          /\ excused' = (excused \/ (Len(windows[i]) = 1 /\ windows[i][w].asking = "unsaved"))
       \/ /\ windows' = [windows EXCEPT ![i][w].asking = "no"]
          /\ UNCHANGED <<kept, unsaved, excused>>
    /\ UNCHANGED <<file, restore_session, phase, session, has_restored_session, preferences, writes>>

(* ---- The instance -------------------------------------------------------- *)
WriteLands(i) ==
    /\ writes[i] # <<>>
    /\ file' = Head(writes[i])
    /\ writes' = [writes EXCEPT ![i] = Tail(@)]
    /\ unsaved' = unsaved \ Recorded(file')
    /\ UNCHANGED <<restore_session, phase, session, has_restored_session, windows, preferences,
                   kept, excused>>

Ends(i) ==
    /\ phase' = [phase EXCEPT ![i] = "off"]
    /\ session' = [session EXCEPT ![i] = NoSession]
    /\ has_restored_session' = [has_restored_session EXCEPT ![i] = FALSE]
    /\ windows' = [windows EXCEPT ![i] = <<>>]
    /\ preferences' = [preferences EXCEPT ![i] = FALSE]
    /\ writes' = [writes EXCEPT ![i] = <<>>]
    /\ UNCHANGED <<file, restore_session, excused>>

(* Nothing holds the application any more: no window and no write.           *)
Quit(i) ==
    /\ phase[i] = "running"
    /\ windows[i] = <<>> /\ ~preferences[i] /\ writes[i] = <<>>
    /\ Ends(i)
    /\ UNCHANGED <<kept, unsaved>>

(* The agent is gone (ptyxis_application_client_closed_cb exits), or the       *)
(* program crashed, before what it was writing was in the file. It takes the *)
(* unsaved tabs with it, and no others may be lost.                          *)
Dies(i) ==
    /\ phase[i] # "off"
    /\ Ends(i)
    /\ Forgets(unsaved)

ClosePreferences(i) ==
    /\ preferences[i]
    /\ preferences' = [preferences EXCEPT ![i] = FALSE]
    /\ UNCHANGED <<file, restore_session, phase, session, has_restored_session, windows, writes,
                   kept, unsaved, excused>>

ChangeSetting ==
    /\ restore_session' = ~restore_session
    /\ UNCHANGED <<file, phase, session, has_restored_session, windows, preferences, writes,
                   kept, unsaved, excused>>

SessionNext ==
    \/ \E i \in Instances :
         \/ Start(i) \/ Refused(i) \/ OpensNoTab(i) \/ OpenTab(i) \/ OpenWindow(i)
         \/ Activate(i)
         \/ WriteLands(i) \/ Quit(i) \/ Dies(i) \/ ClosePreferences(i)
         \/ \E w \in DOMAIN windows[i] :
              \/ NewTab(i, w) \/ NewWindow(i, w) \/ OpenPreferences(i, w)
              \/ Pin(i, w) \/ Unpin(i, w) \/ TabGone(i, w)
              \/ CloseWindow(i, w) \/ AskToClose(i, w) \/ CloseAnswered(i, w)
    \/ OpenCommand \/ AppAction \/ ChangeSetting
    \/ \E valid \in BOOLEAN : Open(valid)

SessionSpec == SessionInit /\ [][SessionNext]_sessionVars
----------------------------------------------------------------------------
(* Every variable has the values the code can give it; in every window the    *)
(* pinned tabs come first, however it was opened (adw_tab_view_set_page_pinned, *)
(* the order in which ptyxis_session_restore adds tabs).                     *)
SessionTypeOK ==
    /\ file \in {NoSession} \cup Seq(SavedWindow)
    /\ restore_session \in BOOLEAN /\ excused \in BOOLEAN
    /\ phase \in [Instances -> {"off", "started", "running"}]
    /\ session \in [Instances -> {NoSession} \cup Seq(SavedWindow)]
    /\ has_restored_session \in [Instances -> BOOLEAN]
    /\ windows \in [Instances -> Seq(Window)]
    /\ preferences \in [Instances -> BOOLEAN]
    /\ writes \in [Instances -> Seq(Seq(SavedWindow))]
    /\ kept \subseteq Pinnable /\ unsaved \subseteq kept

(* Where a pinned tab can still be found.                                    *)
Safe(id) ==
    \/ id \in Recorded(file)
    \/ \E i \in Instances :
         \/ id \in Shown(windows[i])
         \/ \E s \in ToSet(writes[i]) : id \in Recorded(s)

(* With one instance at a time, a tab that the user pinned and did not close   *)
(* is shown, or is in the session to be brought back, through any order of     *)
(* requests, closes, writes, ends and crashes. There are three ways to lose   *)
(* one (ptyxis-application.c, ptyxis-window.c, ptyxis-session.c). A crash     *)
(* takes the tabs that were pinned since the last save that reached the file,  *)
(* and only these (Dies). The other two are excused: a window opened with the *)
(* session unread, or again in an instance that outlived its windows; and a   *)
(* window became the last one while a dialog asked whether to close it.       *)
PinnedNeverLost == excused \/ \A id \in kept : Safe(id)

(* What ptyxis_session_restore makes of what ptyxis_session_save wrote, for the *)
(* windows the program can have, whatever the setting was then and is now: the  *)
(* windows with their tabs in order, or those with pinned tabs with these only, *)
(* to each of which a plain one is added where only pinned tabs come back.     *)
RoundTrip ==
    \A i \in Instances, then, now \in BOOLEAN :
      LET all == [w \in DOMAIN windows[i] |-> windows[i][w].tabs]
          pinned == [w \in DOMAIN all |-> SubSeq(all[w], 1, Cardinality(IdsIn(all[w])))]
          worth == Nonempty(IF then /\ now THEN all ELSE pinned)
          back == Restored(Saved(windows[i], then), now)
      IN  /\ Len(back) = Len(worth)
          /\ \A w \in DOMAIN back :
               back[w].tabs = IF now THEN worth[w] ELSE Append(worth[w], Plain)
=============================================================================
