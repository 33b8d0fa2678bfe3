------------------------------- MODULE Shortcuts -------------------------------
(* The keyboard shortcuts: what is stored (ptyxis-shortcuts.c), the menus and  *)
(* rows that show it (ptyxis-shortcut-row.c), and the dialog that takes a new   *)
(* one from the keyboard (ptyxis-shortcut-accel-dialog.c).                     *)
EXTENDS Naturals, FiniteSets, Functions

CONSTANTS
    Names,          \* the actions that have a shortcut
    DefaultAccel,   \* of each, the accelerator in the schema
    Keys            \* keys of the keyboard, by what Shift does to them

ASSUME ShortcutsAssumption ==
    /\ Keys \subseteq {"letter", "digit", "function", "arrow", "tab", "Escape", "BackSpace"}
    /\ DefaultAccel = [n \in Names |-> DefaultAccel[n]]

VARIABLES
    accels,     \* what is stored
    menus,      \* what the menus of windows and terminals show
    rows,       \* what the rows of the preferences window show
    dialog      \* the dialog, if any

shortcutVars == << accels, menus, rows, dialog >>

Modifiers == {"Control", "Shift", "Lock"}
Accel(key, mods) == [key |-> key, mods |-> mods]
Disabled == Accel("none", {})
NoDialog == [name |-> "none"]
Editing == dialog # NoDialog /\ dialog.editing

(* What a key says with these modifiers held: its symbol, and that in lower    *)
(* case (gdk_keyval_to_lower).                                                *)
Shifted(key, mods) ==
    \/ key = "letter" /\ ~("Shift" \in mods <=> "Lock" \in mods)
    \/ key \in {"digit", "tab"} /\ "Shift" \in mods

Keyval(key, mods) ==
    CASE Shifted(key, mods) /\ key = "letter" -> "LETTER"
      [] Shifted(key, mods) /\ key = "digit" -> "symbol"
      [] Shifted(key, mods) /\ key = "tab" -> "ISO_Left_Tab"
      [] OTHER -> key

ToLower(keyval) == IF keyval = "LETTER" THEN "letter" ELSE keyval

SanitizeModifierMask(mods) == mods \ {"Lock"}

(* The arrows keep their Shift.                                              *)
ShouldDropShift(was, is) == "arrow" \notin {was, is} /\ was = is

(* Wrong: Caps Lock counts as Shift.                                          *)
LockIsShift(key, mods) ==
    LET keyval == Keyval(key, mods)
        kept == SanitizeModifierMask(mods)
    IN  Accel(ToLower(keyval),
              IF ToLower(keyval) # keyval THEN kept \cup {"Shift"} ELSE kept)

(* The accelerator that ptyxis_shortcut_accel_dialog_key_pressed makes.        *)
PressedAccel(key, mods) ==
    LET keyval == Keyval(key, mods)
        lower == ToLower(keyval)
        kept == SanitizeModifierMask(mods)
        dropped == IF ShouldDropShift(lower, keyval) THEN kept \ {"Shift"} ELSE kept
        put == IF "Lock" \notin mods /\ lower # keyval THEN dropped \cup {"Shift"} ELSE dropped
    IN  IF lower = "ISO_Left_Tab" /\ put = {"Control"}
        THEN Accel("tab", {"Control", "Shift"}) ELSE Accel(lower, put)

-----------------------------------------------------------------------------
ShortcutsInit ==
    /\ accels = DefaultAccel /\ menus = DefaultAccel
    /\ rows = DefaultAccel /\ dialog = NoDialog

(* ptyxis_shortcuts_update_menu, of every menu, on notify.                    *)
UpdateMenu == menus' = accels'

(* ptyxis_shortcut_row_set_accelerator                                        *)
SetAccelerator(n, accel) == rows' = [rows EXCEPT ![n] = accel]

(* A shortcut is stored, and ptyxis_shortcuts_settings_changed_cb notifies.     *)
Store(n, accel) ==
    /\ accels' = [accels EXCEPT ![n] = accel]
    /\ UpdateMenu /\ SetAccelerator(n, accel)

(* Another program, or dconf.                                                 *)
StoredElsewhere(n, accel) ==
    /\ accel # accels[n] /\ Store(n, accel)
    /\ UNCHANGED dialog

(* ptyxis_shortcut_row_select_shortcut: the dialog starts with what the row     *)
(* shows.  asked is history: what the keys of this dialog asked for last.      *)
SelectShortcut(n) ==
    /\ dialog = NoDialog
    /\ dialog' = [name |-> n, accel |-> rows[n], first |-> "none", editing |-> TRUE,
                  asked |-> rows[n]]
    /\ UNCHANGED << accels, menus, rows >>

CloseDialog == dialog' = NoDialog /\ UNCHANGED << accels, menus, rows >>

(* ptyxis_shortcut_accel_dialog_key_pressed, of a modifier.                   *)
PressModifier(m) ==
    /\ Editing /\ m \in Modifiers
    /\ dialog' = [dialog EXCEPT !.first =
                    IF dialog.accel = Disabled THEN m ELSE @]
    /\ UNCHANGED << accels, menus, rows >>

(* Escape alone cancels, also once a shortcut is shown.                       *)
PressEscape(mods) ==
    /\ dialog # NoDialog /\ mods \subseteq {"Lock"} /\ "Escape" \in Keys
    /\ CloseDialog

(* Backspace alone disables the shortcut. The action that stores is disabled   *)
(* while editing; where the toolkit activates it nevertheless, it closes.      *)
PressBackSpace(mods) ==
    /\ Editing /\ mods \subseteq {"Lock"} /\ "BackSpace" \in Keys
    /\ \/ /\ dialog' = [dialog EXCEPT !.accel = Disabled, !.asked = Disabled]
          /\ UNCHANGED << accels, menus, rows >>
       \/ /\ Store(dialog.name, Disabled) /\ dialog' = NoDialog

(* Shift goes with a key whose symbol it does not change, other than an arrow,  *)
(* and where it undoes Caps Lock.                                             *)
LosesShift(key, mods) ==
    key \in {"function", "Escape", "BackSpace"} \/ (key = "letter" /\ "Lock" \in mods)

(* What is meant by a key with modifiers: Caps Lock is not one of them, and     *)
(* Shift is in the symbol of a digit.                                         *)
Meant(key, mods) ==
    LET held == mods \ {"Lock"}
    IN  CASE key = "digit" /\ "Shift" \in mods -> Accel("symbol", held \ {"Shift"})
          [] key = "tab" /\ held = {"Shift"} -> Accel("ISO_Left_Tab", {})
          [] OTHER -> Accel(key, IF LosesShift(key, mods) THEN held \ {"Shift"} ELSE held)

Press(key, mods) ==
    /\ Editing /\ key \in Keys
    /\ key \in {"Escape", "BackSpace"} => ~(mods \subseteq {"Lock"})
    /\ dialog' = [dialog EXCEPT !.accel = PressedAccel(key, mods), !.editing = FALSE,
                                !.asked = Meant(key, mods)]
    /\ UNCHANGED << accels, menus, rows >>

(* ptyxis_shortcut_accel_dialog_key_released: a shortcut with no modifier, or   *)
(* the release of the modifier that came first, ends the editing.              *)
Release(m) ==
    /\ Editing
    /\ \/ dialog.accel.mods = {}
       \/ m \in Modifiers /\ dialog.accel # Disabled /\ dialog.first = m
    /\ dialog' = [dialog EXCEPT !.editing = FALSE,
                    !.first = IF dialog.accel.mods = {} THEN @ ELSE "none"]
    /\ UNCHANGED << accels, menus, rows >>

(* shortcut_set_cb, enabled once a shortcut is shown.                         *)
Accept ==
    /\ dialog # NoDialog /\ ~dialog.editing
    /\ Store(dialog.name, dialog.accel) /\ dialog' = NoDialog

(* ptyxis_shortcut_accel_dialog_update_reset_button                           *)
CanReset == Editing /\ dialog.accel # DefaultAccel[dialog.name]

(* shortcut_reset_cb                                                          *)
Reset ==
    /\ CanReset
    /\ Store(dialog.name, DefaultAccel[dialog.name]) /\ dialog' = NoDialog

ShortcutsStep ==
    \/ \E m \in Modifiers \cup {"none"} : PressModifier(m) \/ Release(m)
    \/ \E mods \in SUBSET Modifiers :
          \/ PressEscape(mods) \/ PressBackSpace(mods)
          \/ \E key \in Keys : Press(key, mods)
    \/ (dialog # NoDialog /\ CloseDialog) \/ Accept \/ Reset
-----------------------------------------------------------------------------
(* A dialog stores what was last asked of it: the keys that were pressed, in     *)
(* whatever order modifiers came and went, nothing after Backspace, or the      *)
(* default; and the rows and menus show what is stored, by whomever             *)
(* (ptyxis-shortcut-accel-dialog.c:169: "Put shift back if it changed the case  *)
(* of the key").                                                             *)
StoresWhatWasPressed ==
    [][/\ menus' = accels' /\ rows' = accels'
       /\ (dialog # NoDialog /\ accels' # accels /\ dialog' = NoDialog) =>
            LET n == dialog.name IN
            IF dialog.editing THEN accels'[n] \in {DefaultAccel[n], Disabled}
            ELSE accels'[n] = dialog.asked]_shortcutVars
=============================================================================
