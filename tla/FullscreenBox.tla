---------------------------- MODULE FullscreenBox ----------------------------
(***************************************************************************)
(* The box that hides the bars of a full-screen window                     *)
(* (src/src/ptyxis-fullscreen-box.c), as functions of its state: what each *)
(* event makes of it.  A WindowView holds one box per window.              *)
(*                                                                         *)
(* Pointer heights are told apart only by get_titlebar_area_height():      *)
(* "bar" is at most the height of the bars, "away" is below it.  autohide  *)
(* is TRUE in every window, nothing sets it.                               *)
(***************************************************************************)

Heights == {"bar", "away"}

\* What holds the keyboard focus of the window: the terminal of the shown tab,
\* the find bar (both in the content), or something in the bars on top.
Focuses == {"tab", "find", "bar"}

Boxes == [fullscreen : BOOLEAN, revealed : BOOLEAN,
          hiding : BOOLEAN,        \* timeout_id: the bars are hidden in 300 ms
          forced : BOOLEAN,        \* forced_reveal_id: shown for 1500 ms
          lastY : Heights, isTouch : BOOLEAN, lastFocus : Focuses]

\* last_y starts at 0, the top of the window.
NewBox == [fullscreen |-> FALSE, revealed |-> TRUE, hiding |-> FALSE,
           forced |-> FALSE, lastY |-> "bar", isTouch |-> FALSE,
           lastFocus |-> "tab"]

ShowUi(b) == [b EXCEPT !.hiding = FALSE, !.revealed = TRUE]

HideUi(b) == [b EXCEPT !.hiding = FALSE, !.revealed = @ /\ ~b.fullscreen]

StartHideTimeout(b) == [b EXCEPT !.hiding = @ \/ b.revealed]

IsFocusingTitlebar(b) == b.lastFocus = "bar"

\* update(): a forced reveal is left alone until the pointer enters the bars.
Update(b, immediately) ==
  LET inBar == b.lastY = "bar"
      c == [b EXCEPT !.forced = FALSE]
  IN  IF ~b.fullscreen \/ (b.forced /\ ~inBar) THEN b
      ELSE IF (inBar /\ ~b.isTouch) \/ IsFocusingTitlebar(b) THEN ShowUi(c)
      ELSE IF immediately THEN HideUi(c)
      ELSE StartHideTimeout(c)

Motion(b, y) == Update([b EXCEPT !.isTouch = FALSE, !.lastY = y], TRUE)

Press(b, y) ==
  LET c == [b EXCEPT !.isTouch = TRUE]
  IN  IF y = "away" THEN Update(c, TRUE) ELSE c

SetFocus(b, widget) == Update([b EXCEPT !.lastFocus = widget], TRUE)

SetFullscreen(b, fullscreen) ==
  LET c == [b EXCEPT !.fullscreen = fullscreen]
  IN  IF fullscreen = b.fullscreen THEN b
      ELSE IF fullscreen THEN Update(c, FALSE) ELSE ShowUi(c)

\* The pointer is taken to be away, so that only a motion keeps the bars.
Reveal(b) == [ShowUi(b) EXCEPT !.lastY = "away", !.forced = TRUE]

\* Wrong: the timeout goes and nobody looks again.
UnrevealQuietly(b) == [b EXCEPT !.forced = FALSE]

Unreveal(b) == IF b.forced THEN Update([b EXCEPT !.forced = FALSE], TRUE) ELSE b

ClearForcedTimeout(b) == Update([b EXCEPT !.forced = FALSE], TRUE)

\* hide_ui() ran: it moves the focus into the content of the box, and the
\* toolkit decides where it lands there.
TookFocus(b) == b.fullscreen /\ ~b.revealed
=============================================================================
