------------------------------- MODULE Profiles -------------------------------
(* The profiles and their custom links: what is stored in the settings, the   *)
(* PtyxisProfile objects that read it, and the preferences window that changes *)
(* it (ptyxis-profile.c, ptyxis-settings.c, ptyxis-profile-row.c,             *)
(* ptyxis-custom-link-row.c, ptyxis-custom-link-editor.c).                    *)
(* Every change of the list of profiles replaces all profile objects of the    *)
(* application, while tabs, rows, pages and toasts keep the ones they have; so  *)
(* a profile has several objects, each with its own list of links.            *)
(* One process: its writes of a setting reach its own objects at once.         *)
EXTENDS Integers, Sequences, FiniteSets, SequencesExt, FiniteSetsExt, Functions

CONSTANTS
    Uuids, First,    \* profiles, and the one there is at first
    Contents, Blank, \* what is in a link: pattern and target; that of a new one
    AtFirst,         \* the links of the first profile
    Tabs,
    MaxObjects,      \* bounds the profile objects at a time
    MaxLinks,        \* bounds the links of a profile
    MaxToasts,       \* bounds the toasts that can be undone
    Budgets          \* bounds what is changed: links, profiles, values of their
                     \* keys, general settings, shortcuts, palette files,
                     \* what happens to a terminal

ASSUME ProfilesAssumption ==
    /\ First \in Uuids /\ Blank \in Contents /\ AtFirst \in Seq(Contents)
    /\ MaxObjects \in Nat /\ MaxLinks \in Nat /\ MaxToasts \in Nat
    /\ Budgets \subseteq [links : Nat, profiles : Nat, values : Nat, general : Nat, keys : Nat, files : Nat,
                    terminal : Nat]

VARIABLES
    uuids, default, stored, \* the settings
    used,       \* the uuids that were ever made
    objects,    \* profile objects that somebody holds: [uuid, links]
    current,    \* self->profiles of the application, in the order of uuids
    tabs,       \* of each tab, its profile object and the links it matches
    prefs,      \* the preferences window's list of links: [shows, rows]
    page,       \* the profile editor on top of it: [shows, rows]
    editor,     \* the link editor on top of them
    toasts,     \* removals that can be undone
    givenUp,    \* history: links, by profile, that the user removed or edited
    budget      \* history: what is left of the budget

settings == << uuids, default, stored, used >>
history == << givenUp, budget >>
profileVars == << settings, objects, current, tabs, prefs, page, editor, toasts, history >>

Objects == 1 .. MaxObjects
None == [shows |-> 0, rows |-> << >>]
NoEditor == [profile |-> 0, of |-> 0, at |-> 0, unsaved |-> FALSE]
NoTab == [profile |-> 0, links |-> << >>]

(* ptyxis_application_dup_default_profile, of a list that is not empty.       *)
Default(ids, uuid, list) == IF Contains(ids, uuid) THEN list[SelectInSeq(ids, LAMBDA u : u = uuid)] ELSE list[1]
D == Default(uuids, default, current)

(* A row is made for the profile that is the default when the row is made,    *)
(* whichever profile's links the list shows.                                *)
RowsOf(object, d, all) == [k \in DOMAIN all[object].links |-> d]
View(object, d, all) == [shows |-> object, rows |-> RowsOf(object, d, all)]

(* Who keeps a profile object alive.                                          *)
Held(list, t, p, g, e, toastSet) ==
    ToSet(list) \cup { t[i].profile : i \in Tabs }
    \cup {p.shows, g.shows, e.profile, e.of} \cup ToSet(p.rows) \cup ToSet(g.rows)
    \cup { x.profile : x \in toastSet }
Keep(all) == objects' = Restrict(all, DOMAIN all \cap Held(current', tabs', prefs', page', editor', toasts'))

ProfilesInit ==
    /\ uuids = << First >> /\ default = First /\ used = {First}
    /\ stored = [u \in Uuids |-> IF u = First THEN AtFirst ELSE << >>]
    /\ objects = [o \in {1} |-> [uuid |-> First, links |-> AtFirst]]
    /\ current = << 1 >> /\ tabs = [t \in Tabs |-> NoTab]
    /\ prefs = None /\ page = None /\ editor = NoEditor /\ toasts = {}
    /\ givenUp = [u \in Uuids |-> {}] /\ budget \in Budgets

Spend(kind) == budget[kind] > 0 /\ budget' = [budget EXCEPT ![kind] = @ - 1]

-----------------------------------------------------------------------------
(* Custom links *)

(* read_custom_links_from_settings: an object whose list is not what is       *)
(* stored makes it anew.                                                      *)
Differs(links, new) == links # new

(* Wrong: the signal is emitted only by an object whose list has changed.      *)
MatchesAnew(all, t, u) ==
    IF t.profile # 0 /\ all[t.profile].uuid = u /\ Differs(all[t.profile].links, stored'[u])
    THEN [t EXCEPT !.links = stored'[u]] ELSE t

(* custom-links-changed, emitted in all cases: ptyxis_tab_update_custom_links. *)
Matches(all, t, u) ==
    IF t.profile # 0 /\ all[t.profile].uuid = u THEN [t EXCEPT !.links = stored'[u]] ELSE t

(* write_custom_links_to_settings of an object, once the lists of objects are  *)
(* as in all, and the views v, g and the editor e show them; every object of   *)
(* the profile then reads what is stored. It is up to dconf whether a value    *)
(* that was there before counts as a change.                                  *)
Save(object, all, v, g, e) ==
    LET u == all[object].uuid
        new == all[object].links
        reads == { o \in DOMAIN all : all[o].uuid = u /\ Differs(all[o].links, new) }
        read == [o \in DOMAIN all |-> IF o \in reads THEN [all[o] EXCEPT !.links = new] ELSE all[o]]
        Fresh(view) == IF view.shows \in reads THEN View(view.shows, D, read) ELSE view
    IN  /\ stored' = [stored EXCEPT ![u] = new]
        /\ \/ /\ tabs' = [t \in Tabs |-> Matches(all, tabs[t], u)]
              /\ prefs' = Fresh(v) /\ page' = Fresh(g)
              /\ editor' = IF e.of \in reads THEN [e EXCEPT !.at = 0] ELSE e
              /\ Keep(read)
           \/ /\ stored[u] = new
              /\ tabs' = tabs /\ prefs' = v /\ page' = g /\ editor' = e
              /\ Keep(all)

(* What a view's rows become when a link of an object comes or goes.          *)
Inserted(view, object, k) ==
    IF view.shows = object THEN [view EXCEPT !.rows = InsertAt(@, k, D)] ELSE view
Dropped(view, object, k) ==
    IF view.shows = object THEN [view EXCEPT !.rows = RemoveAt(@, k)] ELSE view

(* The top page of the preferences window takes the user's input.            *)
Top == IF editor # NoEditor THEN NoEditor ELSE IF page # None THEN page ELSE prefs
OnRows == editor = NoEditor /\ prefs # None

(* ptyxis_preferences_window_add_custom_link and the profile editor's: the    *)
(* default profile's list, or that of the page, gets a blank link, which is   *)
(* not saved before something is typed.                                      *)
AddLink ==
    /\ Spend("links")
    /\ OnRows
    /\ LET o == IF page # None THEN page.shows ELSE D
           n == Len(objects[o].links) + 1
       IN  /\ n <= MaxLinks
           /\ prefs' = Inserted(prefs, o, n) /\ page' = Inserted(page, o, n)
           /\ editor' = [profile |-> o, of |-> o, at |-> n, unsaved |-> FALSE]
           /\ UNCHANGED << settings, current, tabs, toasts, givenUp >>
           /\ Keep([objects EXCEPT ![o].links = Append(@, Blank)])

EditLink(k) ==
    /\ OnRows /\ k \in DOMAIN Top.rows
    /\ editor' = [profile |-> Top.rows[k], of |-> Top.shows, at |-> k, unsaved |-> FALSE]
    /\ UNCHANGED << settings, objects, current, tabs, prefs, page, toasts, history >>

(* The entries of the editor are bound to the link itself, which may have     *)
(* gone from its list meanwhile.                                              *)
Type(c) ==
    /\ Spend("links")
    /\ editor # NoEditor
    /\ editor' = [editor EXCEPT !.unsaved = TRUE]
    /\ IF editor.at = 0
       THEN UNCHANGED << objects, givenUp >>
       ELSE LET old == objects[editor.of].links[editor.at] IN
            /\ c # old
            /\ objects' = [objects EXCEPT ![editor.of].links[editor.at] = c]
            /\ givenUp' = [givenUp EXCEPT ![objects[editor.of].uuid] = @ \cup {old}]
    /\ UNCHANGED << settings, current, tabs, prefs, page, toasts >>

(* ptyxis_custom_link_editor_dispose saves the list of the profile that it was *)
(* given.                                                                    *)
CloseEditor ==
    /\ editor # NoEditor
    /\ UNCHANGED << uuids, default, used, current, toasts, history >>
    /\ IF editor.unsaved
       THEN Save(editor.profile, objects, prefs, page, NoEditor)
       ELSE /\ editor' = NoEditor /\ UNCHANGED << stored, tabs, prefs, page >>
            /\ Keep(objects)

(* The link of a list's object that goes, and what the user sees go.          *)
Removes(o, k, shown) ==
    /\ toasts' = toasts \cup {[profile |-> o, index |-> k, content |-> objects[o].links[k]]}
    /\ givenUp' = [givenUp EXCEPT ![objects[shown].uuid] = @ \cup {objects[shown].links[k]}]
    /\ UNCHANGED << uuids, default, used, current >>
    /\ Save(o, [objects EXCEPT ![o].links = RemoveAt(@, k)], Dropped(prefs, o, k), Dropped(page, o, k), editor)

(* Wrong: the link is taken by its place in the list.                         *)
RemoveLinkByPlace(k) ==
    /\ Spend("links")
    /\ OnRows /\ k \in DOMAIN Top.rows /\ Cardinality(toasts) < MaxToasts
    /\ k \in DOMAIN objects[Top.rows[k]].links
    /\ Removes(Top.rows[k], k, Top.shows)

(* ptyxis_custom_link_row_remove: a row whose profile object is not the one    *)
(* that is shown does not find its link and does nothing.                     *)
RemoveLink(k) ==
    /\ Spend("links")
    /\ OnRows /\ k \in DOMAIN Top.rows /\ Cardinality(toasts) < MaxToasts
    /\ Top.rows[k] = Top.shows
    /\ Removes(Top.rows[k], k, Top.shows)

(* ptyxis_profile_undo_remove_custom_link, at the place it had or at the end. *)
UndoRemoveLink(x) ==
    /\ x \in toasts /\ x.index # 0
    /\ LET o == x.profile
           n == Len(objects[o].links)
           k == IF x.index - 1 <= n THEN x.index ELSE n + 1
           all == [objects EXCEPT ![o].links = InsertAt(@, k, x.content)]
           e == IF editor.of = o /\ editor.at >= k THEN [editor EXCEPT !.at = @ + 1] ELSE editor
       IN  /\ n < MaxLinks
           /\ toasts' = toasts \ {x}
           /\ UNCHANGED << uuids, default, used, current, history >>
           /\ Save(o, all, Inserted(prefs, o, k), Inserted(page, o, k), e)

-----------------------------------------------------------------------------
(* The list of profiles *)

(* ptyxis_application_notify_profile_uuids_cb: all objects are made anew and   *)
(* read what is stored.                                                      *)
Remade(ids) ==
    LET free == Objects \ DOMAIN objects
        new == CHOOSE list \in Injection(DOMAIN ids, free) : TRUE
    IN  /\ Cardinality(free) >= Len(ids)
        /\ uuids' = ids /\ current' = new

Made == [o \in ToSet(current') |->
            LET u == uuids'[SelectInSeq(current', LAMBDA x : x = o)]
            IN  [uuid |-> u, links |-> stored'[u]]]

(* The new objects and those that somebody may still hold.                    *)
WithMade ==
    [o \in DOMAIN Made \cup DOMAIN objects |-> IF o \in DOMAIN Made THEN Made[o] ELSE objects[o]]

(* notify::default-profile: the preferences window shows the links of the     *)
(* profile that is the default now.                                          *)
Rebound(all) ==
    prefs' = IF default' # default /\ prefs # None
             THEN LET d == Default(uuids', default', current') IN View(d, d, all)
             ELSE prefs

(* ptyxis_settings_add_profile_uuid                                           *)
Add(u) ==
    IF Contains(uuids, u)
    THEN /\ UNCHANGED << uuids, current, prefs >> /\ default' = default
         /\ Keep(objects)
    ELSE /\ Remade(Append(uuids, u)) /\ default' = default
         /\ UNCHANGED prefs
         /\ Keep(WithMade)

(* ptyxis_settings_remove_profile_uuid: all strings that are u, of which there  *)
(* is one in the list, go; there is always a profile left, and the first one    *)
(* becomes the default when the default goes.                                *)
RemoveUuid(u, fresh) ==
    LET left == RemoveFirst(uuids, u) IN
    /\ Remade(IF left = << >> THEN << fresh >> ELSE left)
    /\ default' = IF u = default THEN uuids'[1] ELSE default
    /\ used' = used \cup ToSet(uuids')
    /\ Rebound(WithMade)

AtRoot == OnRows /\ page = None

AddProfile(u) ==
    /\ Spend("profiles")
    /\ AtRoot /\ u \notin used
    /\ used' = used \cup {u}
    /\ UNCHANGED << stored, tabs, page, editor, toasts, givenUp >>
    /\ Add(u)

(* ptyxis_profile_duplicate                                                   *)
Duplicate(i, u) ==
    /\ Spend("profiles")
    /\ AtRoot /\ i \in DOMAIN uuids /\ u \notin used
    /\ used' = used \cup {u}
    /\ stored' = [stored EXCEPT ![u] = stored[uuids[i]]]
    /\ UNCHANGED << tabs, page, editor, toasts, givenUp >>
    /\ Add(u)

MakeDefault(i) ==
    /\ AtRoot /\ i \in DOMAIN uuids /\ uuids[i] # default
    /\ default' = uuids[i]
    /\ UNCHANGED << uuids, stored, used, current, tabs, page, editor, toasts, history >>
    /\ Rebound(objects)
    /\ Keep(objects)

(* ptyxis_profile_row_remove, ptyxis_profile_editor_profile_delete            *)
RemoveProfile(i, fresh) ==
    /\ Spend("profiles")
    /\ OnRows /\ Cardinality(toasts) < MaxToasts /\ fresh \notin used
    /\ LET o == IF page # None THEN page.shows ELSE current[i] IN
       /\ IF page # None THEN i = 1 ELSE i \in DOMAIN uuids
       /\ toasts' = toasts \cup {[profile |-> o, index |-> 0, content |-> Blank]}
       /\ page' = None
       /\ UNCHANGED << stored, tabs, editor, givenUp >>
       /\ RemoveUuid(objects[o].uuid, fresh)
       /\ Keep(WithMade)

UndoRemoveProfile(x) ==
    /\ x \in toasts /\ x.index = 0
    /\ toasts' = toasts \ {x}
    /\ UNCHANGED << stored, used, tabs, page, editor, history >>
    /\ Add(objects[x.profile].uuid)

-----------------------------------------------------------------------------
(* Pages, toasts and tabs *)

OpenPreferences ==
    /\ prefs = None /\ prefs' = View(D, D, objects)
    /\ UNCHANGED << settings, objects, current, tabs, page, editor, toasts, history >>

EditProfile(i) ==
    /\ AtRoot /\ i \in DOMAIN uuids
    /\ page' = View(current[i], D, objects)
    /\ UNCHANGED << settings, objects, current, tabs, prefs, editor, toasts, history >>

Back ==
    /\ OnRows /\ page # None /\ page' = None
    /\ UNCHANGED << settings, current, tabs, prefs, editor, toasts, history >>
    /\ Keep(objects)

(* The window goes with its pages and toasts; a link editor saves.            *)
ClosePreferences ==
    /\ prefs # None /\ toasts' = {}
    /\ UNCHANGED << uuids, default, used, current, history >>
    /\ IF editor.unsaved
       THEN Save(editor.profile, objects, None, None, NoEditor)
       ELSE /\ prefs' = None /\ page' = None /\ editor' = NoEditor
            /\ UNCHANGED << stored, tabs >> /\ Keep(objects)

ToastGoes(x) ==
    /\ x \in toasts /\ toasts' = toasts \ {x}
    /\ UNCHANGED << settings, current, tabs, prefs, page, editor, history >>
    /\ Keep(objects)

OpenTab(t) ==
    /\ tabs[t] = NoTab
    /\ tabs' = [tabs EXCEPT ![t] = [profile |-> D, links |-> objects[D].links]]
    /\ UNCHANGED << settings, objects, current, prefs, page, editor, toasts, history >>

CloseTab(t) ==
    /\ tabs[t] # NoTab /\ tabs' = [tabs EXCEPT ![t] = NoTab]
    /\ UNCHANGED << settings, current, prefs, page, editor, toasts, history >>
    /\ Keep(objects)

(* What the user does in the preferences window, but for Duplicate.           *)
InPreferences ==
    \/ AddLink \/ CloseEditor
    \/ \E k \in 1 .. MaxLinks : EditLink(k) \/ RemoveLink(k)
    \/ \E c \in Contents : Type(c)
    \/ \E x \in toasts : UndoRemoveLink(x) \/ UndoRemoveProfile(x)
    \/ \E u \in Uuids : AddProfile(u) \/ \E i \in DOMAIN uuids : RemoveProfile(i, u)
    \/ \E i \in DOMAIN uuids : MakeDefault(i) \/ EditProfile(i)
    \/ Back \/ ClosePreferences

Elsewhere ==
    \/ OpenPreferences
    \/ \E x \in toasts : ToastGoes(x)
    \/ \E t \in Tabs : OpenTab(t) \/ CloseTab(t)
-----------------------------------------------------------------------------
(* Properties *)

(* A link that is stored goes only when the user removes or edits it: no list  *)
(* of another object of the profile, however long a tab, a row or a toast has  *)
(* kept it, is saved over it (ptyxis_profile_changed_cb).                     *)
LinksNeverLost ==
    [][\A u \in Uuids :
          ToSet(stored[u]) \ ToSet(stored'[u]) \subseteq givenUp'[u]]_profileVars

(* What is saved through one object of a profile is what all of them have, and *)
(* what every tab of the profile matches, at once ("We emit the signal in all  *)
(* cases", ptyxis-profile.c:139).                                            *)
SavesReachAll ==
    [][\A u \in Uuids : stored'[u] # stored[u] =>
          /\ \A o \in DOMAIN objects' : objects'[o].uuid = u => objects'[o].links = stored'[u]
          /\ \A t \in Tabs :
               (tabs'[t] # NoTab /\ objects'[tabs'[t].profile].uuid = u)
               => tabs'[t].links = stored'[u]]_profileVars
=============================================================================
