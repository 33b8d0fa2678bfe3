------------------------------ MODULE WindowView ------------------------------
(***************************************************************************)
(* What a window shows of its tabs (src/src/ptyxis-window.c), together     *)
(* with its dressing and session-context chip (ptyxis-window-dressing.c),  *)
(* its find bar (ptyxis-find-bar.c), its full-screen box                   *)
(* (ptyxis-fullscreen-box.c) and the drawing of a tab while the overview   *)
(* opens and closes (ptyxis-tab.c).                                        *)
(*                                                                         *)
(* All of it is a copy of the state of the shown tab, kept true by signal  *)
(* groups, bindings and callbacks when another tab is shown and when the   *)
(* shown tab changes.  Handlers run on the main loop, one at a time; the   *)
(* timers, idles, layout and drawing in between are actions of their own.  *)
(***************************************************************************)
EXTENDS Naturals, Sequences, FiniteSets, SequencesExt, FullscreenBox

CONSTANTS Windows, Tabs, Profiles, NoTab,
          Big,          \* the windows that may become full-screen
          First,        \* the tabs of the first window
          Kinds,        \* process leader kinds, "unknown" among them
          MaxZoom,      \* levels above and below the default; 14 in the code
          \* Bounds on what happens to pages, in tabs and in windows.
          MaxPage, MaxTab, MaxWindow

ASSUME ViewAssumption ==
  /\ First \in Seq(Tabs) /\ First # <<>> /\ IsInjective(First) /\ NoTab \notin Tabs
  /\ Big # {} /\ Big \subseteq Windows
  /\ Profiles # {} /\ "unknown" \in Kinds /\ MaxZoom \in Nat \ {0}
  /\ {MaxPage, MaxTab, MaxWindow} \subseteq Nat

VARIABLES
  pages,      \* the tabs of each window, in order (AdwTabView)
  selected,   \* the shown tab of each window
  pinned,     \* the pinned tabs
  tab,        \* what each tab keeps
  win,        \* what each window keeps
  box,        \* its full-screen box
  look,       \* of each profile: its palette, its scrollback, ...
  events      \* how many events of each sort there have been

vars == <<pages, selected, pinned, tab, win, box, look, events>>

Looks == {"before", "after"}
Texts == {"", "valid", "invalid"}
ZoomDefault == MaxZoom
ZoomLevels == 0 .. 2 * MaxZoom

ZoomGroup == {"zoom-in", "zoom-one", "zoom-out"}
PinGroup == {"pin", "unpin"}
FullGroup == {"fullscreen", "unfullscreen"}
Actions == ZoomGroup \cup PinGroup \cup FullGroup \cup {"search"}

\* ptyxis_window_init and _constructed, before a tab is there.
NewWindow == [
  open |-> FALSE,                       \* the window exists
  enabled |-> Actions \ {"unfullscreen"},
  page |-> NoTab,                       \* target of selected_page_signals
  follows |-> NoTab,                    \* target of active_tab_signals
  bound |-> NoTab,                      \* source of active_tab_bindings
  chipTab |-> NoTab,                    \* target of session_context_tab_signals
  css |-> "unknown", chip |-> "unknown",
  palette |-> "none", loaded |-> "none", queued |-> TRUE,
  searching |-> FALSE, terminal |-> NoTab, text |-> "",
  overview |-> FALSE, animating |-> FALSE, focusTimer |-> FALSE ]

\* ptyxis_tab_init and _constructed.  Two fields are history: seen is the leader
\* kind when the tab was last shown, and left says that the tab was shown again
\* with a search of its own, over which the find bar has said nothing since.
NewTab(p) == [
  profile |-> p, signals |-> p, applied |-> look[p],
  zoom |-> ZoomDefault, kind |-> "unknown", seen |-> "unknown",
  attention |-> FALSE, regex |-> "", left |-> FALSE,
  texture |-> FALSE, behind |-> FALSE, dirty |-> FALSE, resize |-> FALSE ]

NoPage == [NewTab(CHOOSE p \in Profiles : TRUE) EXCEPT !.applied = "none"]

Shown(t) == \E w \in Windows : selected[w] = t
Holder(t) == {w \in Windows : Contains(pages[w], t)}
Placed == {t \in Tabs : Holder(t) # {}}
NPinned(w) == Cardinality({t \in pinned : Contains(pages[w], t)})
IndexIn(w, t) == CHOOSE i \in DOMAIN pages[w] : pages[w][i] = t
Without(w, t) == RemoveAt(pages[w], IndexIn(w, t))

-----------------------------------------------------------------------------
(* What a window makes of the tab it follows. *)

SetEnabled(enabled, group, on) == (enabled \ group) \cup on

\* ptyxis_window_notify_zoom_cb
ZoomActions(zoom) ==
  {a \in ZoomGroup : \/ a = "zoom-in" /\ zoom # 2 * MaxZoom
                     \/ a = "zoom-one" /\ zoom # ZoomDefault
                     \/ a = "zoom-out" /\ zoom # 0}

NotifyZoom(r, zoom) ==
  [r EXCEPT !.enabled = SetEnabled(@, ZoomGroup, ZoomActions(zoom))]

\* ptyxis_window_notify_process_leader_kind_cb
NotifyLeaderKind(r, kind) == [r EXCEPT !.css = kind]

\* ptyxis_window_selected_page_notify_pinned_cb
NotifyPinned(r, isPinned) ==
  [r EXCEPT !.enabled = SetEnabled(@, PinGroup,
                          IF isPinned THEN {"unpin"} ELSE {"pin"})]

\* ptyxis_window_active_tab_bind_cb
ActiveTabBind(r, tt) == NotifyZoom(NotifyLeaderKind(r, tt.kind), tt.zoom)

\* ptyxis_window_dressing_set_palette: an idle loads the style sheet again.
SetPalette(r, palette) ==
  [r EXCEPT !.palette = palette, !.queued = @ \/ palette # r.palette]

\* Wrong: the chip goes on listening to the tab it was made for.
UpdateContextOnly(r, t, kind) ==
  [r EXCEPT !.chipTab = IF @ = NoTab THEN t ELSE @, !.chip = kind]

\* ptyxis_window_dressing_update_session_context
UpdateSessionContext(r, t, kind) == [r EXCEPT !.chipTab = t, !.chip = kind]

\* Wrong: the text stays when the bar gets another terminal.
FindBarKeepsText(r, t) == [r EXCEPT !.terminal = t]

\* ptyxis_find_bar_set_terminal: a text left from another terminal is erased.
FindBarSetTerminal(r, t) ==
  [r EXCEPT !.terminal = t, !.text = IF t = r.terminal THEN @ ELSE ""]

\* ptyxis_find_bar_entry_changed_cb, on the terminal the bar has by then.
EntryChanged(tt, text) ==
  [tt EXCEPT !.regex = IF text = "valid" THEN text ELSE "", !.left = FALSE]

\* The focus ends in `where` unless hiding the bars moved it into the content.
FocusChanges(b, where) ==
  LET c == SetFocus(b, where)
  IN  IF TookFocus(c) THEN {c, [c EXCEPT !.lastFocus = "tab"]} ELSE {c}

\* ptyxis_window_notify_selected_page_cb, when t is shown.
NotifySelectedPage(r, t, tt, isPinned) ==
  LET bound == ActiveTabBind([NotifyPinned(r, isPinned) EXCEPT
                                !.page = t, !.follows = t], tt)
      search == [FindBarSetTerminal(bound, t) EXCEPT !.enabled = @ \cup {"search"}]
      dressed == SetPalette([search EXCEPT !.bound = t], look[tt.profile])
  IN  UpdateSessionContext(dressed, t, tt.kind)

\* It takes the focus to the tab and then reveals the bars.
RevealFor(b) == Reveal(SetFocus(b, "tab"))

Opened(tt, t) == NotifySelectedPage([NewWindow EXCEPT !.open = TRUE], t, tt, FALSE)

\* Wrong: attention stays on.
ShowTabStillAsking(r, t, tt) ==
  LET erased == r.terminal # t /\ r.text # ""
      s == [tt EXCEPT !.seen = tt.kind, !.dirty = TRUE, !.left = tt.regex # ""]
  IN  IF erased THEN EntryChanged(s, "") ELSE s

\* What it does to that tab: attention is off, a draw is due, and if the find
\* bar had a text, erasing it clears the search of this terminal.  If it had
\* none, no change is signalled and the tab keeps the search it was left with.
ShowTab(r, t, tt) ==
  LET erased == r.terminal # t /\ r.text # ""
      s == [tt EXCEPT !.attention = FALSE, !.seen = tt.kind, !.dirty = TRUE,
                      !.left = tt.regex # ""]
  IN  IF erased THEN EntryChanged(s, "") ELSE s

-----------------------------------------------------------------------------
\* A window has opened and got its tabs (ptyxis_window_new_for_profile,
\* ptyxis_window_add_tab_at_end), its style is loaded and its first frame drawn.
Settled(r) == [r EXCEPT !.queued = FALSE, !.loaded = r.palette]

Init ==
  LET w == CHOOSE o \in Big : TRUE
      p == CHOOSE q \in Profiles : TRUE
      first(others, it) == [o \in Windows |-> IF o = w THEN it ELSE others]
  IN  /\ look = [q \in Profiles |-> "before"]
      /\ pages = first(<<>>, First)
      /\ selected = first(NoTab, Head(First))
      /\ pinned = {}
      /\ tab = [t \in Tabs |-> IF t \in ToSet(First) THEN NewTab(p) ELSE NoPage]
      /\ win = first(NewWindow, Settled(Opened(NewTab(p), Head(First))))
      /\ box = first(NewBox, [RevealFor(NewBox) EXCEPT !.forced = FALSE])
      /\ events = [page |-> 0, tab |-> 0, window |-> 0]

Event(sort, bound) ==
  events[sort] < bound /\ events' = [events EXCEPT ![sort] = @ + 1]

PageEvent == Event("page", MaxPage)

\* adw_tab_view_set_selected_page, and the handler of notify::selected-page.
ShowPage(w, t, ts) ==
  /\ selected' = [selected EXCEPT ![w] = t]
  /\ win' = [win EXCEPT ![w] = NotifySelectedPage(@, t, ts[t], t \in pinned)]
  /\ box' = [box EXCEPT ![w] = RevealFor(@)]
  /\ tab' = [ts EXCEPT ![t] = ShowTab(win[w], t, @)]

\* The events that leave the pages and the profiles alone.
InTab == Event("tab", MaxTab) /\ UNCHANGED <<pages, selected, pinned, box, look>>
\* A tab goes back to what it was at first, which needs no bound.
BackInTab == UNCHANGED <<pages, selected, pinned, box, look, events>>
InWindow == Event("window", MaxWindow) /\ UNCHANGED <<pages, selected, pinned, look>>

\* The keyboard focus of a window goes to `where`.
GrabFocus(w, where) ==
  \E b \in FocusChanges(box[w], where) : box' = [box EXCEPT ![w] = b]

(* Windows and pages. *)

\* ptyxis_window_new_for_profile_and_command: a window opens with a tab.
OpenWindow(w, t, p) ==
  /\ PageEvent /\ ~win[w].open /\ t \notin Placed
  /\ pages' = [pages EXCEPT ![w] = <<t>>]
  /\ selected' = [selected EXCEPT ![w] = t]
  /\ tab' = [tab EXCEPT ![t] = NewTab(p)]
  /\ win' = [win EXCEPT ![w] = Opened(NewTab(p), t)]
  /\ box' = [box EXCEPT ![w] = RevealFor(NewBox)]
  /\ UNCHANGED <<pinned, look>>

\* Where ptyxis_window_add_tab inserts: after the shown tab, or last.  The tab
\* view refuses a place before the pinned tabs and the program stops there.
InsertPositions(w) ==
  {i \in {IndexIn(w, selected[w]) + 1, Len(pages[w]) + 1} : i > NPinned(w)}

\* ptyxis_window_new_tab_action: profile and zoom are those of the shown tab.
OpenTab(w, t) ==
  /\ PageEvent /\ win[w].open /\ t \notin Placed
  /\ LET active == tab[selected[w]]
         new == [NewTab(active.profile) EXCEPT !.zoom = active.zoom]
     IN  /\ \E i \in InsertPositions(w) :
              pages' = [pages EXCEPT ![w] = InsertAt(@, i, t)]
         /\ ShowPage(w, t, [tab EXCEPT ![t] = new])
  /\ UNCHANGED <<pinned, look>>

\* ptyxis_window_add_tab_at_end: the tab is added and not shown.
AddTabAtEnd(w, t) ==
  /\ PageEvent /\ win[w].open /\ t \notin Placed
  /\ pages' = [pages EXCEPT ![w] = Append(@, t)]
  /\ tab' = [tab EXCEPT ![t] = NewTab(tab[selected[w]].profile)]
  /\ UNCHANGED <<selected, pinned, win, box, look>>

PageAt(w, i) == pages[w][i]

\* The tab that is shown when the shown one leaves: the next, else the previous.
Neighbour(w, t) ==
  LET i == IndexIn(w, t)
  IN  IF i < Len(pages[w]) THEN PageAt(w, i + 1) ELSE PageAt(w, i - 1)

\* A page leaves for good; the last one takes the window with it
\* (update_visible_and_maybe_close, ptyxis_window_dispose).
ClosePage(w, t) ==
  /\ PageEvent /\ t \in ToSet(pages[w])
  /\ pages' = [pages EXCEPT ![w] = Without(w, t)]
  /\ pinned' = pinned \ {t}
  /\ LET gone == [tab EXCEPT ![t] = NoPage]
     IN  \/ /\ pages[w] = <<t>>
            /\ selected' = [selected EXCEPT ![w] = NoTab]
            /\ win' = [win EXCEPT ![w] = NewWindow]
            /\ box' = [box EXCEPT ![w] = NewBox]
            /\ tab' = gone
         \/ /\ Len(pages[w]) > 1 /\ t = selected[w]
            /\ ShowPage(w, Neighbour(w, t), gone)
         \/ t # selected[w] /\ tab' = gone /\ UNCHANGED <<selected, win, box>>
  /\ UNCHANGED look

\* ptyxis_window_detach_action: the shown tab moves to a window of its own.
Detach(w, o) ==
  /\ PageEvent /\ win[w].open /\ ~win[o].open /\ Len(pages[w]) > 1
  /\ LET t == selected[w]
         n == Neighbour(w, t)
     IN  /\ pages' = [pages EXCEPT ![w] = Without(w, t), ![o] = <<t>>]
         /\ selected' = [selected EXCEPT ![w] = n, ![o] = t]
         /\ win' = [win EXCEPT
              ![w] = NotifySelectedPage(@, n, tab[n], n \in pinned),
              ![o] = NotifySelectedPage([@ EXCEPT !.open = TRUE],
                                        t, tab[t], t \in pinned)]
         /\ box' = [box EXCEPT ![w] = RevealFor(@), ![o] = RevealFor(NewBox)]
         /\ tab' = [tab EXCEPT ![n] = ShowTab(win[w], n, @),
                               ![t] = ShowTab(win[o], t, @)]
  /\ UNCHANGED <<pinned, look>>

\* What adw_tab_view_set_selected_page does of another page than the shown one.
SelectPage(w, t) ==
  /\ t # selected[w] /\ ShowPage(w, t, tab)
  /\ UNCHANGED <<pages, pinned, look>>

\* ptyxis_window_page_next_action and _previous_action wrap around.
PageNext(w) ==
  /\ PageEvent /\ win[w].open
  /\ SelectPage(w, PageAt(w, (IndexIn(w, selected[w]) % Len(pages[w])) + 1))

PagePrevious(w) ==
  /\ PageEvent /\ win[w].open
  /\ LET n == Len(pages[w])
     IN  SelectPage(w, PageAt(w, ((IndexIn(w, selected[w]) + n - 2) % n) + 1))

\* ptyxis_window_tab_focus_action: a position past the end is the last page.
TabFocus(w, position) ==
  /\ PageEvent /\ win[w].open
  /\ SelectPage(w, PageAt(w, IF position \in 1 .. Len(pages[w]) THEN position
                             ELSE Len(pages[w])))

\* ptyxis_window_tab_pin_action and _unpin_action: the page goes to the border
\* between pinned and other pages.
SetPinned(w, on) ==
  /\ PageEvent /\ win[w].open
  /\ LET t == selected[w]
         border == IF on THEN NPinned(w) + 1 ELSE NPinned(w)
     IN  /\ on = (t \notin pinned)
         /\ pinned' = IF on THEN pinned \cup {t} ELSE pinned \ {t}
         /\ pages' = [pages EXCEPT ![w] = InsertAt(Without(w, t), border, t)]
         /\ win' = [o \in Windows |->
                      IF win[o].page = t THEN NotifyPinned(win[o], on) ELSE win[o]]
  /\ UNCHANGED <<selected, tab, box, look>>

\* ptyxis_window_move_left_action and _right_action, within pinned or others; the
\* tab is raised and takes the focus, also when it cannot move.
MovePage(w, i, j) ==
  /\ PageEvent /\ win[w].open /\ PageAt(w, i) = selected[w]
  /\ LET moves == j \in DOMAIN pages[w] /\ (PageAt(w, i) \in pinned <=> PageAt(w, j) \in pinned)
     IN  pages' = IF moves
                  THEN [pages EXCEPT ![w] = [@ EXCEPT ![i] = PageAt(w, j), ![j] = PageAt(w, i)]]
                  ELSE pages
  /\ GrabFocus(w, "tab")
  /\ UNCHANGED <<selected, pinned, tab, win, look>>

MoveLeft(w) == \E i \in DOMAIN pages[w] : MovePage(w, i, i - 1)
MoveRight(w) == \E i \in DOMAIN pages[w] : MovePage(w, i, i + 1)

-----------------------------------------------------------------------------
(* What changes in a tab, shown or not. *)

\* ptyxis_tab_set_zoom, from an action, a key or Ctrl and the wheel.
SetZoom(w, zoom) ==
  /\ win[w].open
  /\ IF zoom = ZoomDefault THEN BackInTab ELSE InTab
  /\ LET t == selected[w]
     IN  /\ zoom \in ZoomLevels /\ zoom # tab[t].zoom
         /\ tab' = [tab EXCEPT ![t].zoom = zoom]
         /\ win' = [o \in Windows |->
                      IF win[o].follows = t THEN NotifyZoom(win[o], zoom) ELSE win[o]]

ZoomIn(w) == SetZoom(w, tab[selected[w]].zoom + 1)
ZoomOut(w) == SetZoom(w, tab[selected[w]].zoom - 1)
ZoomOne(w) == SetZoom(w, ZoomDefault)

\* notify::process-leader-kind reaches the CSS class of the window that follows
\* the tab and the chip of the window that shows it; tab' is given.
NotifyKind(t, kind) ==
  LET css(r) == IF r.follows = t THEN NotifyLeaderKind(r, kind) ELSE r
      chip(r, w) == IF r.chipTab = t
                    THEN UpdateSessionContext(r, selected[w], tab'[selected[w]].kind)
                    ELSE r
  IN  win' = [w \in Windows |-> chip(css(win[w]), w)]

\* ptyxis_tab_poll_agent_cb: the agent answers with another leader.
LeaderKindChanges(t, kind) ==
  /\ InTab /\ t \in Placed /\ kind # tab[t].kind
  /\ tab' = [tab EXCEPT ![t].kind = kind,
                        ![t].attention = @ \/ ~Shown(t),
                        ![t].seen = IF Shown(t) THEN kind ELSE @]
  /\ NotifyKind(t, kind)

\* ptyxis_tab_poll_agent_async of a tab whose process has gone: its kind is
\* forgotten, for which no attention is asked.
KindForgotten(t) ==
  /\ BackInTab /\ t \in Placed /\ tab[t].kind # "unknown"
  /\ tab' = [tab EXCEPT ![t].kind = "unknown", ![t].seen = "unknown"]
  /\ NotifyKind(t, "unknown")

\* A terminal with another palette drops its cached texture and is drawn again.
Recolour(tt) == [tt EXCEPT !.texture = FALSE, !.dirty = TRUE]

\* ptyxis_tab_apply_profile: the signal group binds the new profile, and the
\* notification takes the window's dressing to it.
ApplyProfile(t, p) ==
  /\ InTab /\ t \in Placed /\ p # tab[t].profile
  /\ tab' = [tab EXCEPT ![t] = Recolour([@ EXCEPT !.profile = p, !.signals = p,
                                                  !.applied = look[p]])]
  /\ win' = [w \in Windows |->
               IF win[w].bound = t THEN SetPalette(win[w], look[p]) ELSE win[w]]

\* A profile is edited: every tab and every window bound to it follows.
EditProfile(p) ==
  /\ Event("tab", MaxTab)
  /\ \E l \in Looks \ {look[p]} : look' = [look EXCEPT ![p] = l]
  /\ tab' = [t \in Tabs |->
       LET scrolled == IF t \in Placed /\ tab[t].signals = p
                       THEN [tab[t] EXCEPT !.applied = look'[p]] ELSE tab[t]
       IN  IF t \in Placed /\ tab[t].profile = p THEN Recolour(scrolled)
           ELSE scrolled]
  /\ win' = [w \in Windows |->
       IF win[w].bound # NoTab /\ tab[win[w].bound].profile = p
       THEN SetPalette(win[w], look'[p]) ELSE win[w]]
  /\ UNCHANGED <<pages, selected, pinned, box>>

\* The program of a tab writes: its frame is behind and a draw is due.
Output(t) ==
  /\ InTab /\ t \in Placed
  /\ tab' = [tab EXCEPT ![t].behind = TRUE, ![t].dirty = TRUE]
  /\ UNCHANGED win

-----------------------------------------------------------------------------
(* The find bar. *)

\* ptyxis_window_search_action
Search(w) ==
  /\ InWindow /\ win[w].open /\ "search" \in win[w].enabled
  /\ win' = [win EXCEPT ![w].searching = TRUE]
  /\ GrabFocus(w, "find")
  /\ UNCHANGED tab

Type(w, text) ==
  /\ InWindow /\ win[w].searching /\ box[w].lastFocus = "find"
  /\ text # win[w].text
  /\ win' = [win EXCEPT ![w].text = text]
  /\ tab' = [tab EXCEPT ![win[w].terminal] = EntryChanged(@, text)]
  /\ UNCHANGED box

\* ptyxis_find_bar_dismiss: the text and the search stay.
Dismiss(w) ==
  /\ InWindow /\ win[w].searching
  /\ win' = [win EXCEPT ![w].searching = FALSE]
  /\ GrabFocus(w, "tab")
  /\ UNCHANGED tab

-----------------------------------------------------------------------------
(* Full screen: what the user and the compositor do, and the timer. *)

BoxEvent(w) == InWindow /\ w \in Big /\ win[w].open /\ UNCHANGED <<win, tab>>

\* The box becomes b; if that hid the bars, the focus may have moved.
BoxBecomes(w, b) ==
  \E f \in {b.lastFocus} \cup IF TookFocus(b) THEN {"tab"} ELSE {} :
    box' = [box EXCEPT ![w] = [b EXCEPT !.lastFocus = f]]

FocusHeader(w) ==
  /\ BoxEvent(w) /\ box[w].lastFocus # "bar" /\ box[w].revealed
  /\ GrabFocus(w, "bar")

PointerMoves(w, y) == BoxEvent(w) /\ BoxBecomes(w, Motion(box[w], y))

Touch(w, y) ==
  BoxEvent(w) /\ box' = [box EXCEPT ![w] = Press(@, y)]

\* ptyxis_window_toplevel_state_changed_cb
ToplevelStateChanges(w) ==
  /\ InWindow /\ w \in Big /\ win[w].open
  /\ LET full == ~box[w].fullscreen
         changed == SetFullscreen(box[w], full)
         on == {IF full THEN "unfullscreen" ELSE "fullscreen"}
     IN  /\ win' = [win EXCEPT ![w].enabled = SetEnabled(@, FullGroup, on)]
         /\ box' = [box EXCEPT ![w] = IF full THEN Reveal(changed) ELSE changed]
  /\ UNCHANGED tab

\* ptyxis_window_active_tab_commit_cb: the user types in the shown tab.
Commit(w) ==
  /\ BoxEvent(w) /\ box[w].fullscreen /\ box[w].lastFocus = "tab"
  /\ box' = [box EXCEPT ![w] = Unreveal(@)]

\* clear_forced_timeout, 1500 ms after the last reveal.
ForcedRevealEnds(w) ==
  /\ box[w].forced
  /\ BoxBecomes(w, ClearForcedTimeout(box[w]))
  /\ UNCHANGED <<pages, selected, pinned, win, tab, look, events>>

-----------------------------------------------------------------------------
(* The overview, the style sheet, layout and drawing. *)

\* ptyxis_window_tab_overview_notify_open_cb
ToggleOverview(w) ==
  /\ InWindow /\ win[w].open
  /\ LET opens == ~win[w].overview
     IN  /\ win' = [win EXCEPT ![w].overview = opens, ![w].animating = TRUE,
                               ![w].focusTimer = ~opens]
         /\ IF opens THEN UNCHANGED box ELSE GrabFocus(w, "tab")
  /\ UNCHANGED tab

\* Wrong: no layout of the tab is asked for.
FocusActiveTabOnly(w) ==
  /\ win[w].focusTimer
  /\ win' = [win EXCEPT ![w].focusTimer = FALSE, ![w].animating = FALSE]
  /\ GrabFocus(w, "tab")
  /\ UNCHANGED <<pages, selected, pinned, tab, look, events>>

\* ptyxis_window_focus_active_tab_cb, when the overview has closed.
FocusActiveTab(w) ==
  /\ win[w].focusTimer
  /\ win' = [win EXCEPT ![w].focusTimer = FALSE, ![w].animating = FALSE]
  /\ GrabFocus(w, "tab")
  /\ tab' = [tab EXCEPT ![selected[w]].resize = TRUE]
  /\ UNCHANGED <<pages, selected, pinned, look, events>>

\* ptyxis_window_dressing_update_idle
LoadStyle(w) ==
  /\ win[w].open /\ win[w].queued
  /\ win' = [win EXCEPT ![w].queued = FALSE, ![w].loaded = win[w].palette]
  /\ UNCHANGED <<pages, selected, pinned, tab, box, look, events>>

\* ptyxis_tab_size_allocate, in the layout of the next frame.
SizeAllocate(t) ==
  /\ Shown(t) /\ tab[t].resize
  /\ tab' = [tab EXCEPT ![t].resize = FALSE, ![t].texture = FALSE, ![t].dirty = TRUE]
  /\ UNCHANGED <<pages, selected, pinned, win, box, look, events>>

\* ptyxis_tab_snapshot: while the overview opens or closes the shown tab is
\* drawn from a texture, made once.
Snapshot(t) ==
  /\ tab[t].dirty
  /\ \E w \in Windows :
       /\ selected[w] = t
       /\ LET cached == win[w].animating /\ tab[t].texture
          IN  tab' = [tab EXCEPT ![t].dirty = FALSE,
                                 ![t].texture = win[w].animating,
                                 ![t].behind = @ /\ cached]
  /\ UNCHANGED <<pages, selected, pinned, win, box, look, events>>

-----------------------------------------------------------------------------
PageStep ==
  \/ \E w \in Windows, t \in Tabs :
       \/ \E p \in Profiles : OpenWindow(w, t, p)
       \/ OpenTab(w, t)
       \/ AddTabAtEnd(w, t)
       \/ ClosePage(w, t)
  \/ \E w, o \in Windows : Detach(w, o)
  \/ \E w \in Windows :
       \/ PageNext(w)
       \/ PagePrevious(w)
       \/ \E position \in 1 .. Cardinality(Tabs) : TabFocus(w, position)
       \/ \E on \in BOOLEAN : SetPinned(w, on)
       \/ MoveLeft(w)
       \/ MoveRight(w)

TabStep ==
  \/ \E w \in Windows : ZoomIn(w) \/ ZoomOut(w) \/ ZoomOne(w)
  \/ \E t \in Tabs :
       \/ KindForgotten(t)
       \/ \E kind \in Kinds : LeaderKindChanges(t, kind)
       \/ \E p \in Profiles : ApplyProfile(t, p)
       \/ Output(t)
  \/ \E p \in Profiles : EditProfile(p)

WindowStep ==
  \E w \in Windows :
    \/ Search(w)
    \/ \E text \in Texts : Type(w, text)
    \/ Dismiss(w)
    \/ FocusHeader(w)
    \/ \E y \in Heights : PointerMoves(w, y) \/ Touch(w, y)
    \/ ToplevelStateChanges(w)
    \/ Commit(w)
    \/ ToggleOverview(w)

\* Timers, idles, layout and drawing.
LoopStep ==
  \/ \E w \in Windows : ForcedRevealEnds(w) \/ FocusActiveTab(w) \/ LoadStyle(w)
  \/ \E t \in Tabs : SizeAllocate(t) \/ Snapshot(t)

Next == PageStep \/ TabStep \/ WindowStep \/ LoopStep

\* The main loop runs its timers, idles and frames.  Users, programs and the
\* compositor owe nothing.
Fairness ==
  /\ \A w \in Windows : WF_vars(ForcedRevealEnds(w)) /\ WF_vars(FocusActiveTab(w))
                        /\ WF_vars(LoadStyle(w))
  /\ \A t \in Tabs : WF_vars(SizeAllocate(t)) /\ WF_vars(Snapshot(t))

Spec == Init /\ [][Next]_vars /\ Fairness

-----------------------------------------------------------------------------
(* Properties *)

OpenWindows == {w \in Windows : win[w].open}

\* A window tells of the tab it shows, whatever tabs are switched, closed and
\* moved and whatever tab's leader, zoom or profile changes: its chip and CSS
\* class (docs/wardveil-runtime-acceptance.md:71: "the chip follows the active
\* tab without lag, stale state"), the actions it enables, and its style, which
\* is loaded or about to be; and each tab has the settings of its own profile.
WindowFollowsShownTab ==
  /\ \A w \in OpenWindows :
       LET t == selected[w]
       IN  /\ win[w].chip = tab[t].kind /\ win[w].css = tab[t].kind
           /\ win[w].enabled \cap ZoomGroup = ZoomActions(tab[t].zoom)
           /\ win[w].enabled \cap PinGroup = IF t \in pinned THEN {"unpin"} ELSE {"pin"}
           /\ win[w].palette = look[tab[t].profile]
           /\ win[w].queued \/ win[w].loaded = win[w].palette
  /\ \A t \in Placed : tab[t].applied = look[tab[t].profile]

\* A session that changed its kind while another tab was shown asks for
\* attention until it is shown (or has ended), and a shown tab does not ask.
ChangedSessionsAsk ==
  \A t \in Placed : /\ Shown(t) => ~tab[t].attention
                    /\ tab[t].kind # tab[t].seen => tab[t].attention

\* What the find bar says is what its buttons search, in the shown tab: nothing,
\* if it says nothing.  There is one exception: a tab that is shown again with
\* the bar empty goes on with the search it was left with, until a text is
\* entered or erased over it.
FindBarSearchesWhatItSays ==
  \A w \in OpenWindows :
    LET t == selected[w]
    IN  /\ win[w].terminal = t
        /\ \/ tab[t].regex = EntryChanged(tab[t], win[w].text).regex
           \/ win[w].text = "" /\ tab[t].left

\* What keeps the bars of a full-screen window.
Held(b) ==
  ~b.fullscreen \/ b.forced \/ b.lastFocus = "bar" \/ (b.lastY = "bar" /\ ~b.isTouch)

\* The bars of a window are shown while something keeps them, and do not stay
\* over the terminal when nothing does; a touch in the bars leaves them as they
\* are.
BarsShownWhileHeld ==
  \A w \in Windows :
    /\ Held(box[w]) => box[w].revealed
    /\ box[w].revealed => Held(box[w]) \/ box[w].lastY = "bar"

\* What a program writes in a shown tab is drawn, once the overview that froze
\* the tab has closed.
FramesCatchUp ==
  \A t \in Tabs :
    (Shown(t) /\ tab[t].behind) ~>
      (~Shown(t) \/ ~tab[t].behind \/ \E w \in Holder(t) : win[w].overview)
=============================================================================
