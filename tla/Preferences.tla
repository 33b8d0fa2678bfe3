----------------------------- MODULE Preferences -----------------------------
(* The preferences window (ptyxis-preferences-window.c) over the profiles, the *)
(* palettes and the shortcuts: the keys of profiles, the widgets of the main    *)
(* page, which show the default profile, and the tabs that apply them.          *)
(* Keys are of four sorts. A bound key is a property of PtyxisProfile that the  *)
(* window binds (opacity, scrollback, cell scale, login-shell); a silent key is *)
(* one that is bound although ptyxis_profile_changed_cb never notifies it       *)
(* (scroll-on-output, scroll-on-keystroke); a mapped key is bound to the        *)
(* setting itself (erase and exit keys); and there is the palette.             *)
EXTENDS GeneralSettings, UserPalettes, Shortcuts, Terminal

CONSTANTS
    Schema,     \* the values of a new profile: [bound, silent, mapped, palette]
    AtFirstSet, \* those of the first one
    Gnome,      \* the palette for want of another
    Primary     \* the palettes that are always offered

ASSUME PreferencesAssumption ==
    /\ Gnome \in Builtin /\ Primary \subseteq Builtin
    /\ {Schema, AtFirstSet} \subseteq
          [bound : 0 .. 1, silent : 0 .. 1, mapped : 0 .. 1, palette : Builtin]

VARIABLES
    values,     \* what is stored for each profile
    widget,     \* what the widgets of the main page show
    bound,      \* the profile objects that they are bound to
    filter,     \* self->default_palette_id
    showAll,    \* self->filter_show_more
    applied     \* what each tab goes by

pageVars == << values, widget, bound, filter, showAll, applied >>
profilesBut == << settings, objects, current, tabs, prefs, page, editor, toasts, givenUp >>
vars == << profileVars, generalVars, paletteVars, shortcutVars, pageVars, terminalVars >>

Kinds == {"bound", "silent", "mapped"}
Unset == [bound |-> 2, silent |-> 2, mapped |-> 2, palette |-> NoFile]

(* ptyxis_profile_dup_palette, and what a terminal shows for no palette.       *)
Looked(vals) == [vals EXCEPT !.palette = IF Lookup(@) THEN @ ELSE Gnome]

(* A tab takes the values of its profile when it is made, and then those that   *)
(* its profile object notifies.                                              *)
Applied(t, new) ==
    IF tabs'[t] = NoTab THEN Unset
    ELSE LET u == objects'[tabs'[t].profile].uuid IN
         IF tabs[t] = NoTab THEN Looked(new[u])
         ELSE [k \in DOMAIN Unset |->
                  IF k # "silent" /\ new[u][k] # values[u][k] THEN Looked(new[u])[k] ELSE applied[t][k]]

Stores(new) ==
    /\ values' = new
    /\ applied' = [t \in Tabs |-> Applied(t, new)]

With(us, k, v) == [u \in Uuids |-> IF u \in us THEN [values[u] EXCEPT ![k] = v] ELSE values[u]]

Of(os) == { objects[o].uuid : o \in os }

(* The profiles that a widget is bound to: GSettings allows one binding, while  *)
(* every profile that was the default since the window was opened stays bound. *)
Bound(k) ==
    CASE prefs = None -> {}
      [] prefs # None /\ k = "mapped" -> Of({prefs.shows})
      [] prefs # None /\ k # "mapped" -> Of(bound)

-----------------------------------------------------------------------------
(* The main page *)

PageInit ==
    /\ values = [u \in Uuids |-> IF u = First THEN AtFirstSet ELSE Schema]
    /\ widget = Unset /\ bound = {} /\ filter = NoFile /\ showAll = FALSE
    /\ applied = [t \in Tabs |-> Unset]

(* Wrong: the widgets keep what they show.                                    *)
RebindsKeeping ==
    LET d == Default(uuids', default', current') IN
    /\ bound' = (bound \cap DOMAIN objects') \cup {d}
    /\ widget' = widget /\ Stores(values)
    /\ filter' = values[objects'[d].uuid].palette /\ UNCHANGED showAll

(* ptyxis_preferences_window_notify_default_profile_cb, of a window that is    *)
(* there: the widgets take the values of the new default, and what changes is   *)
(* passed on to the profiles they are still bound to. The new binding to a      *)
(* setting may come before the old one goes.                                  *)
Rebinds ==
    LET d == Default(uuids', default', current')
        new == values[objects'[d].uuid]
        alive == bound \cap (DOMAIN objects' \cup ToSet(prefs.rows))
        Passed(u, k) == IF u \in Of(alive) /\ new[k] # widget[k] THEN new[k] ELSE values[u][k]
    IN  /\ bound' = (bound \cap DOMAIN objects') \cup {d}
        /\ widget' = new
        /\ \E both \in BOOLEAN :
              Stores([u \in Uuids |->
                  [values[u] EXCEPT
                      !.bound = Passed(u, "bound"), !.silent = Passed(u, "silent"),
                      !.mapped = IF both /\ u \in Bound("mapped") THEN new.mapped ELSE @]])
        /\ filter' = new.palette /\ UNCHANGED showAll

(* What a step of the profiles does to the main page and the tabs.             *)
PageFollows ==
    IF prefs # None /\ prefs' # None /\ default' # default THEN Rebinds
    ELSE /\ Stores(values)
         /\ bound' = CASE prefs' = None -> {}
                       [] prefs' # None /\ prefs = None -> {D}
                       [] prefs' # None /\ prefs # None -> bound \cap DOMAIN objects'
         /\ IF prefs # None /\ prefs' # None THEN UNCHANGED << widget, filter, showAll >>
            ELSE /\ widget' = IF prefs' = None THEN Unset ELSE values[objects[D].uuid]
                 /\ filter' = widget'.palette /\ showAll' = FALSE

(* The main page takes input unless a dialog is over it.                       *)
Free == dialog = NoDialog /\ ~choosing

(* The user turns a switch or a spin button of the main page.                  *)
SetWidget(k, v) ==
    /\ Spend("values") /\ AtRoot /\ Free
    /\ v # widget[k] /\ widget' = [widget EXCEPT ![k] = v]
    /\ UNCHANGED << profilesBut, bound, filter, showAll >>
    /\ Stores(With(Bound(k), k, v))

(* ptyxis_profile_changed_cb of the objects of a profile: bound widgets follow, *)
(* and so does what else they are bound to; the filter (invalidate_filter).    *)
Changed(u, k, v) ==
    LET heard == k # "silent" /\ u \in Bound(k)
    IN  /\ v # values[u][k]
        /\ UNCHANGED << profilesBut, bound, showAll >>
        /\ widget' = IF heard THEN [widget EXCEPT ![k] = v] ELSE widget
        /\ Stores(With(IF heard /\ k = "bound" THEN Bound(k) ELSE {u}, k, v))

KeyChanges(u, k, v) == Changed(u, k, v) /\ UNCHANGED filter

PaletteChanges(u, id) ==
    LET heard == u \in Of(bound) IN
    /\ id # values[u].palette
    /\ UNCHANGED << profilesBut, bound, showAll, widget >>
    /\ Stores(With({u}, "palette", id))
    /\ filter' = IF heard THEN values'[objects[D].uuid].palette ELSE filter

(* Another program, or the editor of a profile, which is bound to its own.      *)
WrittenElsewhere(u) ==
    /\ Spend("values")
    /\ \/ \E k \in Kinds, v \in 0 .. 1 : KeyChanges(u, k, v)
       \/ \E id \in Builtin \cup Files : PaletteChanges(u, id)

EditorWrites ==
    /\ Spend("values") /\ OnRows /\ page # None /\ Free
    /\ LET u == objects[page.shows].uuid IN
       \/ \E k \in Kinds, v \in 0 .. 1 : KeyChanges(u, k, v)
       \/ \E id \in AllPalettes : PaletteChanges(u, id)

(* do_filter_palettes, in one style of the desktop or the other.               *)
Offered(id) == id \in Primary \/ id = filter \/ showAll
Previews == { id \in AllPalettes : Offered(id) }

ShowAll ==
    /\ budget.values > 0 /\ AtRoot /\ Free
    /\ showAll' = ~showAll
    /\ UNCHANGED << profileVars, values, widget, bound, filter, applied >>

(* The action default-profile.palette: the palette-id of the profile that was   *)
(* the default when the action was made.                                      *)
ActivatePalette(id) ==
    /\ Spend("values") /\ AtRoot /\ Free
    /\ id \in Previews
    /\ PaletteChanges(objects[prefs.shows].uuid, Looked([palette |-> id]).palette)

PageStep ==
    \/ \E k \in Kinds, v \in 0 .. 1 : SetWidget(k, v)
    \/ \E u \in used : WrittenElsewhere(u)
    \/ EditorWrites \/ ShowAll
    \/ \E id \in Builtin \cup Files : ActivatePalette(id)

-----------------------------------------------------------------------------
ProfilesStep ==
    \/ /\ Elsewhere \/ (Free /\ InPreferences)
       /\ PageFollows
    \/ \E i \in DOMAIN uuids, u \in Uuids :
          /\ Free /\ Duplicate(i, u)
          /\ Stores([values EXCEPT ![u] = values[uuids[i]]])
          /\ bound' = bound \cap DOMAIN objects'
          /\ UNCHANGED << widget, filter, showAll >>

PaletteDrops == { << f >> : f \in Files } \cup { << f, g >> : f, g \in Files \cup {Other} }

FilesStep ==
    /\ UNCHANGED profilesBut
    /\ \/ Spend("files") /\ \E f \in Files, c \in FileContents \cup {NoFile} : FileChanges(f, c)
       \/ /\ Spend("files") /\ AtRoot /\ Free
          /\ \E names \in PaletteDrops, c \in FileContents : DropPalettes(names, c)
       \/ PalettesLoop /\ UNCHANGED budget

KeysStep ==
    /\ UNCHANGED profilesBut
    /\ \/ Spend("keys") /\ AtRoot /\ \E n \in Names : SelectShortcut(n)
       \/ Spend("keys") /\ \E n \in Names, mods \in {{}, {"Control"}} : StoredElsewhere(n, Accel("letter", mods))
       \/ ShortcutsStep /\ UNCHANGED budget

(* A bound: one palette there may be at first, if files are to change.          *)
Init ==
    /\ ProfilesInit /\ GeneralInit /\ PalettesInit /\ ShortcutsInit /\ PageInit /\ TerminalInit
    /\ Cardinality({f \in Files : disk[f] # NoFile}) <= (IF budget.files = 0 THEN 0 ELSE 1)

SettingsStep ==
    /\ UNCHANGED profilesBut
    /\ \/ /\ Spend("general")
          /\ \/ SetPlain \/ SetUseSystemFont
             \/ \E f \in Fonts : FontChosen(f)
             \/ \E f \in SystemFonts : SystemFontChanges(f)
       \/ /\ budget.general > 0 /\ dialog = NoDialog
          /\ SelectCustomFont /\ UNCHANGED budget
       \/ FontCancelled /\ UNCHANGED budget

Next ==
    \/ ProfilesStep /\ GeneralFollows /\ TerminalsFollow /\ UNCHANGED << paletteVars, shortcutVars >>
    \/ PageStep /\ UNCHANGED << generalVars, paletteVars, shortcutVars, terminalVars >>
    \/ SettingsStep /\ UNCHANGED << paletteVars, shortcutVars, pageVars, terminalVars >>
    \/ FilesStep /\ UNCHANGED << generalVars, shortcutVars, pageVars, terminalVars >>
    \/ KeysStep /\ UNCHANGED << generalVars, paletteVars, pageVars, terminalVars >>
    \/ /\ TerminalStep
       /\ UNCHANGED << profilesBut, generalVars, paletteVars, shortcutVars, pageVars >>

MainLoop == PalettesLoop /\ UNCHANGED << profileVars, generalVars, shortcutVars, pageVars, terminalVars >>

DropsGoOn(d) ==
    DropGoesOn(d) /\ UNCHANGED << profileVars, generalVars, paletteVars, shortcutVars, pageVars >>

(* Sources that are due are dispatched; who drops something lets it be read.    *)
Spec == Init /\ [][Next]_vars /\ WF_vars(MainLoop) /\ \A d \in Drops : WF_vars(DropsGoOn(d))
-----------------------------------------------------------------------------
(* Whoever changes a key, and however often the list of profiles is made anew   *)
(* under the objects that widgets and tabs were bound to, the main page shows   *)
(* what is stored for the default profile, and a tab goes by what is stored for *)
(* its own, for all keys that are notified; a palette that is not there is      *)
(* gnome ("another way to track default-palette of default-profile, both of     *)
(* which could change", ptyxis-preferences-window.c:724).                      *)
ShownAsStored ==
    /\ prefs # None =>
          LET now == values[objects[D].uuid] IN
          /\ widget.bound = now.bound /\ widget.mapped = now.mapped /\ filter = now.palette
          /\ pane = general
    /\ \A t \in Tabs : tabs[t] # NoTab =>
          LET now == values[objects[tabs[t].profile].uuid] IN
          /\ applied[t].bound = now.bound /\ applied[t].mapped = now.mapped
          /\ applied[t].palette \in {now.palette, Gnome}
          /\ looks[t].plain = general.plain
          /\ ~general.system /\ general.family # NoFont => looks[t].font = general.family
=============================================================================
