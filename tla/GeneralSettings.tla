---------------------------- MODULE GeneralSettings ----------------------------
(* The settings that are not of a profile (ptyxis-settings.c): what the         *)
(* preferences window shows of them and what each tab goes by, with the font,   *)
(* which is that of the system unless another is chosen.                       *)
EXTENDS Profiles

CONSTANTS Fonts, SystemFonts

VARIABLES
    general,    \* what is stored: [plain, family, system]
    systemFont, \* system_font_name of the application
    pane,       \* what the preferences window shows of them
    choosing,   \* a font is being chosen
    looks       \* what a tab goes by: [plain, font]

generalVars == << general, systemFont, pane, choosing, looks >>

NoFont == "none"
NoPane == [plain |-> 2, family |-> NoFont, system |-> FALSE]
NoLook == [plain |-> 2, font |-> NoFont]

(* ptyxis_settings_dup_font_desc                                              *)
FontDesc(g) == IF g.system \/ g.family = NoFont THEN systemFont ELSE g.family

(* ptyxis_tab_constructed: bindings that start with what is stored.            *)
Look(g) == [plain |-> g.plain, font |-> FontDesc(g)]

(* ptyxis_settings_get_property: what a binding starts with.                   *)
Stored == general

GeneralInit ==
    /\ general = [plain |-> 0, family |-> NoFont, system |-> TRUE]
    /\ systemFont = "Monospace 11"
    /\ pane = NoPane /\ choosing = FALSE /\ looks = [t \in Tabs |-> NoLook]

(* ptyxis_settings_changed_cb: both keys of the font notify its description.   *)
Set(key, v) ==
    LET Follow(look) == IF key = "plain" THEN [look EXCEPT !.plain = v]
                        ELSE [look EXCEPT !.font = FontDesc([general EXCEPT ![key] = v])]
    IN  /\ general' = [general EXCEPT ![key] = v]
        /\ pane' = IF prefs = None THEN pane ELSE general'
        /\ looks' = [t \in Tabs |-> IF tabs[t] = NoTab THEN NoLook ELSE Follow(looks[t])]
        /\ UNCHANGED systemFont

(* A switch of the window, through a property, or another program.             *)
SetPlain == Set("plain", 1 - general.plain) /\ UNCHANGED choosing
SetUseSystemFont == Set("system", ~general.system) /\ UNCHANGED choosing

(* ptyxis_preferences_window_select_custom_font, of a row that can be activated *)
(* while the font is not that of the system; the dialog answers later.         *)
SelectCustomFont ==
    /\ AtRoot /\ ~choosing /\ ~pane.system
    /\ choosing' = TRUE
    /\ UNCHANGED << general, systemFont, pane, looks >>

FontChosen(f) ==
    /\ choosing /\ choosing' = FALSE
    /\ Set("family", f)

FontCancelled ==
    /\ choosing /\ choosing' = FALSE
    /\ UNCHANGED << general, systemFont, pane, looks >>

(* ptyxis_application_on_portal_settings_changed_cb: the settings do not notify *)
(* their font.                                                                *)
SystemFontChanges(f) ==
    /\ f # systemFont /\ systemFont' = f
    /\ UNCHANGED << general, pane, choosing, looks >>

(* Tabs and the window come and go.                                          *)
GeneralFollows ==
    /\ UNCHANGED << general, systemFont, choosing >>
    /\ pane' = CASE prefs' = None -> NoPane
                 [] prefs' # None /\ prefs = None -> Stored
                 [] prefs' # None /\ prefs # None -> pane
    /\ looks' = [t \in Tabs |->
                    CASE tabs'[t] = NoTab -> NoLook
                      [] tabs'[t] # NoTab /\ tabs[t] = NoTab -> Look(Stored)
                      [] tabs'[t] # NoTab /\ tabs[t] # NoTab -> looks[t]]
=============================================================================
