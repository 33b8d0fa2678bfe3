----------------------------- MODULE UserPalettes -----------------------------
(* The palettes a user keeps in files (ptyxis-user-palettes.c), as they are    *)
(* read (ptyxis-palette.c) and listed with those that come with the program.   *)
(* A monitor tells what happens in the directory; files are read 100 ms later, *)
(* when they may have changed again.                                          *)
EXTENDS Naturals, Sequences, FiniteSets, SequencesExt

CONSTANTS
    Files,          \* file names that end in .palette, hence palette ids too
    FileContents,   \* what a file may hold: [groups, complete]
    NoFile,
    Other,          \* a file that is dropped and is not a palette
    Builtin         \* ids of the palettes of the program

Faces == {"Light", "Dark"}

ASSUME PalettesAssumption ==
    /\ FileContents \subseteq [groups : SUBSET ({"Palette"} \cup Faces),
                               complete : SUBSET ({"Palette"} \cup Faces)]
    /\ NoFile \notin FileContents /\ Other \notin Files /\ Files \cap Builtin = {}

VARIABLES
    disk,       \* the files of the directory
    dropped,    \* copies on their way into it: [file, content]
    reports,    \* what the monitor has to tell, oldest first: [file, gone]
    pending,    \* self->pending_reloads
    reloading,  \* self->reload_source is set
    items       \* self->items, in order: [file, content]; its tables hold the same

paletteVars == << disk, dropped, reports, pending, reloading, items >>

(* ptyxis_palette_load_info: there is a [Palette] with a name.                *)
LoadInfo(c) == "Palette" \in c.groups

(* ptyxis_palette_load_face: a section with all of its colours.               *)
LoadFace(c, section) == section \in c.groups \cap c.complete

(* ptyxis_palette_new_from_file: one face, or a light and a dark one.         *)
NewFromFile(c) ==
    /\ c # NoFile /\ LoadInfo(c)
    /\ \/ Faces \cap c.groups = {} /\ LoadFace(c, "Palette")
       \/ Faces \cap c.groups # {} /\ \A face \in Faces : LoadFace(c, face)

Listed == { items[k].file : k \in DOMAIN items }
(* ptyxis_palette_lookup, which finds the user's first; ptyxis_palette_get_all. *)
AllPalettes == Listed \cup Builtin
Lookup(id) == id \in AllPalettes

(* ptyxis_user_palettes_load_file, over a list: a palette takes the place of   *)
(* the one of the same file; a file that cannot be read changes nothing.       *)
LoadFile(list, f) ==
    LET k == SelectInSeq(list, LAMBDA it : it.file = f)
        it == [file |-> f, content |-> disk[f]]
    IN  CASE ~NewFromFile(disk[f]) -> list
          [] NewFromFile(disk[f]) /\ k # 0 -> [list EXCEPT ![k] = it]
          [] NewFromFile(disk[f]) /\ k = 0 -> Append(list, it)

PalettesInit ==
    /\ disk \in [Files -> FileContents \cup {NoFile}]
    /\ dropped = {} /\ reports = << >> /\ pending = {} /\ reloading = FALSE
    (* ptyxis_user_palettes_load *)
    /\ \E order \in SetToSeqs({f \in Files : NewFromFile(disk[f])}) :
          items = FoldLeft(LoadFile, << >>, order)

(* A file is written, at once or in pieces, by whoever can.                   *)
Writes(f, c) ==
    /\ disk' = [disk EXCEPT ![f] = c]
    /\ reports' = Append(reports, [file |-> f, gone |-> c = NoFile])

FileChanges(f, c) ==
    /\ c # disk[f] /\ Writes(f, c)
    /\ UNCHANGED << dropped, pending, reloading, items >>

(* ptyxis_preferences_window_drop_palette_cb: the files before one that is not *)
(* a palette are copied.                                                     *)
DropPalettes(names, c) ==
    LET n == SelectInSeq(names, LAMBDA f : f = Other)
        taken == ToSet(IF n = 0 THEN names ELSE SubSeq(names, 1, n - 1))
    IN  /\ dropped' = dropped \cup { [file |-> f, content |-> c] : f \in taken }
        /\ UNCHANGED << disk, reports, pending, reloading, items >>

CopyEnds(copy) ==
    /\ copy \in dropped /\ dropped' = dropped \ {copy}
    /\ Writes(copy.file, copy.content)
    /\ UNCHANGED << pending, reloading, items >>

(* ptyxis_user_palettes_remove                                                *)
RemovePalette(f) == items' = SelectSeq(items, LAMBDA it : it.file # f)

(* ptyxis_user_palettes_queue_reload                                          *)
QueueReload(f) == pending' = pending \cup {f} /\ reloading' = TRUE

MonitorChanged ==
    /\ reports # << >> /\ reports' = Tail(reports)
    /\ LET f == Head(reports).file IN
       \/ /\ Head(reports).gone
          /\ pending' = pending \ {f} /\ RemovePalette(f) /\ UNCHANGED reloading
       \/ ~Head(reports).gone /\ QueueReload(f) /\ UNCHANGED items
    /\ UNCHANGED << disk, dropped >>

(* Wrong: only one of the files is read.                                      *)
ReloadsOne ==
    /\ reloading /\ reloading' = FALSE /\ pending' = {}
    /\ \E f \in pending : items' = LoadFile(items, f)
    /\ UNCHANGED << disk, dropped, reports >>

(* ptyxis_user_palettes_reload_cb, in the order of a hash table.              *)
Reload ==
    /\ reloading /\ reloading' = FALSE /\ pending' = {}
    /\ \E order \in SetToSeqs(pending) : items' = FoldLeft(LoadFile, items, order)
    /\ UNCHANGED << disk, dropped, reports >>

PalettesLoop == MonitorChanged \/ Reload \/ \E copy \in dropped : CopyEnds(copy)
-----------------------------------------------------------------------------
(* Once the files stay as they are, the list is what is in them: every palette *)
(* that can be read is listed with its latest content, and none that is gone,  *)
(* whatever was written, in pieces or not, while a reload was queued           *)
(* (ptyxis_user_palettes_monitor_changed_cb).                                 *)
Agree ==
    \A f \in Files :
        /\ NewFromFile(disk[f]) => [file |-> f, content |-> disk[f]] \in ToSet(items)
        /\ disk[f] = NoFile => f \notin Listed
PalettesCatchUp == <>[][disk' = disk]_paletteVars => <>[]Agree
=============================================================================
