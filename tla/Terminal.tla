------------------------------- MODULE Terminal -------------------------------
(* The terminal of a tab (ptyxis-terminal.c): what is dropped on it, which is   *)
(* read piece by piece from another program, its clipboard actions, its context *)
(* menu, and the links of its text. The emulator, VteTerminal, is not modelled: *)
(* it selects text and tells what is under the pointer.                         *)
EXTENDS Profiles

CONSTANTS
    Offers,     \* what may be dropped: [sort, lines]
    Links,      \* hyperlinks and addresses in the text of terminals
    MaxDrops,   \* bounds the drops
    Nothing

(* A line of a list of files names one, which is that of the document portal or *)
(* on another machine, or none; a text is one line.                            *)
FileLines == {"native", "document", "remote"}
Lines == FileLines \cup {"comment", "blank"}

ASSUME TerminalAssumption ==
    /\ Offers \subseteq [sort : {"files", "moz", "text"}, lines : Seq(Lines)]
    /\ MaxDrops \in Nat /\ Nothing \notin Offers /\ Nothing \notin Links
    /\ Links \cap Contents = {}

VARIABLES
    drops,      \* [offer, at, left, got, pasted] of each drop
    term,       \* of each tab's terminal, what is selected and what is enabled
    clipboard,  \* what is on the clipboard
    opened      \* history: what was opened last

terminalVars == << drops, term, clipboard, opened >>

Drops == 1 .. MaxDrops
NoDrop == [offer |-> Nothing, at |-> "idle", left |-> << >>, got |-> << >>, pasted |-> Nothing]

HoldsText(c) == c # "picture"

(* ptyxis_terminal_update_clipboard_actions                                    *)
ClipboardActions(m, c) == [m EXCEPT !.copy = m.selected, !.paste = HoldsText(c)]

(* ptyxis_terminal_init                                                       *)
NewTerminal(c) ==
    ClipboardActions([selected |-> FALSE, writable |-> TRUE, menu |-> FALSE, under |-> Nothing, url |-> Nothing,
                      copy |-> FALSE, paste |-> FALSE, link |-> FALSE, apt |-> TRUE], c)

TerminalInit ==
    /\ drops = [d \in Drops |-> NoDrop]
    /\ clipboard = "picture" /\ opened = Nothing
    /\ term = [t \in Tabs |-> NewTerminal(clipboard)]

Alive(t) == tabs[t] # NoTab

(* Tabs come and go; one that comes has a terminal of its own.                 *)
TerminalsFollow ==
    /\ term' = [t \in Tabs |-> IF tabs'[t] = NoTab \/ tabs[t] = NoTab THEN NewTerminal(clipboard) ELSE term[t]]
    /\ UNCHANGED << drops, clipboard, opened >>

-----------------------------------------------------------------------------
(* Drops *)

(* A drop holds the terminal, so it goes on when the tab is closed.            *)
Moves(d, at) == drops' = [drops EXCEPT ![d].at = at] /\ UNCHANGED << term, clipboard, opened >>

(* ptyxis_terminal_drop_file_list: a path, that on the host for a document of   *)
(* the portal that tells it, or a URI.                                        *)
Named(line) ==
    CASE line = "native" -> {"path"}
      [] line = "document" -> {"path", "host path"}
      [] line = "remote" -> {"uri"}

PastedAs(lines) ==
    LET files == SelectSeq(lines, LAMBDA l : l \in FileLines) IN
    { p \in [DOMAIN files -> {"path", "host path", "uri"}] : \A k \in DOMAIN files : p[k] \in Named(files[k]) }

DropFileList(d, lines) ==
    /\ \E p \in PastedAs(lines) :
          drops' = [drops EXCEPT ![d].at = "copied", ![d].left = << >>, ![d].got = << >>, ![d].pasted = p]
    /\ UNCHANGED << term, clipboard, opened >>

Refuses(d) ==
    /\ drops' = [drops EXCEPT ![d].at = "refused", ![d].left = << >>, ![d].got = << >>]
    /\ UNCHANGED << term, clipboard, opened >>

(* ptyxis_terminal_drop_target_drop, of a sort that it knows.                  *)
Drop(d, offer) ==
    /\ Spend("terminal") /\ \E t \in Tabs : Alive(t)
    /\ drops[d] = NoDrop /\ \A e \in 1 .. d - 1 : drops[e] # NoDrop
    /\ drops' = [drops EXCEPT ![d].offer = offer, ![d].at = offer.sort]
    /\ UNCHANGED << term, clipboard, opened >>

(* ptyxis_terminal_drop_file_list_cb: a list of files that cannot be had is     *)
(* asked for once more, as a list of addresses, when it is not found.          *)
FileListCb(d) ==
    /\ drops[d].at = "files"
    /\ DropFileList(d, drops[d].offer.lines) \/ Moves(d, "uris") \/ Refuses(d)

UpToOne(lines) == IF lines = << >> THEN << >> ELSE << Head(lines) >>

ReadsLines(d) ==
    \/ drops' = [drops EXCEPT ![d].at = "line", ![d].left = drops[d].offer.lines]
       /\ UNCHANGED << term, clipboard, opened >>
    \/ Refuses(d)

(* ptyxis_terminal_drop_uri_list_cb                                            *)
UriListCb(d) == drops[d].at = "uris" /\ ReadsLines(d)

(* ptyxis_terminal_drop_moz_url_cb                                             *)
MozUrlCb(d) == drops[d].at = "moz" /\ ReadsLines(d)

(* Wrong: what was read before an error is pasted.                             *)
LineCbKeeps(d) ==
    /\ drops[d].at = "line"
    /\ LET lines == drops[d].got \o UpToOne(drops[d].left) IN
       \/ DropFileList(d, drops[d].got)
       \/ (drops[d].left = << >> \/ drops[d].offer.sort = "moz") /\ DropFileList(d, lines)
       \/ /\ drops[d].left # << >> /\ drops[d].offer.sort # "moz"
          /\ drops' = [drops EXCEPT ![d].left = Tail(@), ![d].got = lines]
          /\ UNCHANGED << term, clipboard, opened >>

(* ptyxis_terminal_drop_uri_list_line_cb: a link of a browser is one line, a    *)
(* list goes on to its end; an error gives up what was read.                   *)
LineCb(d) ==
    /\ drops[d].at = "line"
    /\ LET lines == drops[d].got \o UpToOne(drops[d].left) IN
       \/ Refuses(d)
       \/ (drops[d].left = << >> \/ drops[d].offer.sort = "moz") /\ DropFileList(d, lines)
       \/ /\ drops[d].left # << >> /\ drops[d].offer.sort # "moz"
          /\ drops' = [drops EXCEPT ![d].left = Tail(@), ![d].got = lines]
          /\ UNCHANGED << term, clipboard, opened >>

(* ptyxis_terminal_drop_string_cb: a text is given to the terminal as it is.    *)
StringCb(d) ==
    /\ drops[d].at = "text"
    /\ \/ /\ drops' = [drops EXCEPT ![d].at = "copied", ![d].pasted = drops[d].offer.lines]
          /\ UNCHANGED << term, clipboard, opened >>
       \/ Refuses(d)

DropGoesOn(d) == FileListCb(d) \/ UriListCb(d) \/ MozUrlCb(d) \/ LineCb(d) \/ StringCb(d)

-----------------------------------------------------------------------------
(* The clipboard *)

(* Every terminal hears of a change.                                          *)
Clips(c) ==
    /\ clipboard' = c
    /\ term' = [t \in Tabs |-> IF Alive(t) THEN ClipboardActions(term[t], c) ELSE NewTerminal(c)]
    /\ UNCHANGED << drops, opened >>

(* Another program, or another part of this one.                              *)
ClipboardChanges(c) == Spend("terminal") /\ c # clipboard /\ Clips(c)

(* ptyxis_terminal_selection_changed, after select_all_action, the mouse, or    *)
(* output that takes the selection away.                                      *)
SelectionChanged(t) ==
    /\ Spend("terminal") /\ Alive(t)
    /\ term' = [term EXCEPT ![t] = ClipboardActions([@ EXCEPT !.selected = ~term[t].selected], clipboard)]
    /\ UNCHANGED << drops, clipboard, opened >>

(* copy_clipboard_action and copy_all_clipboard_action, of text that is not     *)
(* blank.                                                                    *)
CopyClipboard(t) ==
    /\ Spend("terminal") /\ Alive(t)
    /\ term[t].copy /\ term[t].selected /\ Clips("selection")

CopyAllClipboard(t) ==
    /\ Spend("terminal") /\ Alive(t)
    /\ Clips("contents")

(* The property read-only of a tab, which a window's menu turns.               *)
SetReadOnly(t) ==
    /\ Spend("terminal") /\ Alive(t)
    /\ term' = [term EXCEPT ![t].writable = ~@]
    /\ UNCHANGED << drops, clipboard, opened >>

-----------------------------------------------------------------------------
(* The context menu and the links *)

(* Wrong: an address is taken only where there is one.                         *)
UrlActionsKeep(m, x) == [m EXCEPT !.link = x # Nothing \/ m.url # Nothing, !.url = IF x = Nothing THEN @ ELSE x]

(* ptyxis_terminal_update_url_actions                                          *)
UrlActions(m, x) == [m EXCEPT !.link = x # Nothing, !.url = x]

(* ptyxis_terminal_setup_context_menu, over x, and with no context when the     *)
(* menu has gone.                                                            *)
SetupContextMenu(t, x) ==
    /\ Spend("terminal") /\ Alive(t) /\ ~term[t].menu
    /\ term' = [term EXCEPT ![t] =
          UrlActions([ClipboardActions(@, clipboard) EXCEPT !.apt = term[t].writable, !.menu = TRUE, !.under = x], x)]
    /\ UNCHANGED << drops, clipboard, opened >>

ContextMenuGoes(t) ==
    /\ term[t].menu
    /\ term' = [term EXCEPT ![t].link = FALSE, ![t].menu = FALSE, ![t].under = Nothing]
    /\ UNCHANGED << drops, clipboard, opened, budget >>

(* open_link_action, copy_link_address_action                                 *)
OpenLink(t) ==
    /\ Spend("terminal") /\ term[t].link /\ term[t].url # Nothing
    /\ opened' = term[t].url /\ UNCHANGED << drops, term, clipboard >>

CopyLinkAddress(t) ==
    /\ Spend("terminal") /\ term[t].link /\ term[t].url # Nothing
    /\ Clips(term[t].url)

(* run_apt_update_action looks again whether the terminal takes input, which    *)
(* may have changed since the menu was set up.                                *)
RunAptUpdate(t) ==
    /\ Spend("terminal") /\ Alive(t) /\ term[t].apt /\ term[t].writable
    /\ opened' = "apt" /\ UNCHANGED << drops, term, clipboard >>

(* ptyxis_terminal_capture_click_pressed_cb, with Control: a hyperlink or an    *)
(* address is opened as it is; where a custom link matched, what its target,    *)
(* which may be edited meanwhile, makes of it, and nothing when its pattern is  *)
(* (a link that left its list is kept as it was).                              *)
ClickLink(t, x) ==
    /\ Spend("terminal") /\ Alive(t)
    /\ opened' = x /\ UNCHANGED << drops, term, clipboard >>

ClickCustomLink(t, k) ==
    /\ Spend("terminal") /\ Alive(t) /\ k \in DOMAIN tabs[t].links
    /\ LET matched == tabs[t].links[k]
           list == objects[tabs[t].profile].links
           now == IF k \in DOMAIN list THEN list[k] ELSE matched
       IN  opened' = now \/ (opened' = opened /\ now # matched)
    /\ UNCHANGED << drops, term, clipboard >>

TerminalStep ==
    \/ \E d \in Drops, o \in Offers : Drop(d, o)
    \/ \E c \in {"picture", "text"} : ClipboardChanges(c)
    \/ \E t \in Tabs :
          \/ SelectionChanged(t) \/ CopyClipboard(t) \/ CopyAllClipboard(t) \/ SetReadOnly(t)
          \/ ContextMenuGoes(t) \/ OpenLink(t) \/ CopyLinkAddress(t) \/ RunAptUpdate(t)
          \/ \E x \in Links \cup {Nothing} : SetupContextMenu(t, x)
          \/ \E x \in Links : ClickLink(t, x)
          \/ \E k \in 1 .. MaxLinks : ClickCustomLink(t, k)
    \/ \E d \in Drops : DropGoesOn(d) /\ UNCHANGED budget
-----------------------------------------------------------------------------
(* Properties *)

(* What the menu and the shortcuts of a terminal offer is what would work, in   *)
(* whatever order text is selected, copied here or elsewhere, menus come and go *)
(* and tabs are made: copying with a selection, pasting with a text on the      *)
(* clipboard, and a link just while a menu is there that was opened over it.    *)
OffersWhatWorks ==
    \A t \in Tabs : Alive(t) =>
        /\ term[t].copy = term[t].selected
        /\ term[t].paste = HoldsText(clipboard)
        /\ term[t].link <=> term[t].menu /\ term[t].under # Nothing
        /\ term[t].link => term[t].url = term[t].under

(* The first line of a browser's link, all of the files of a list, a text.     *)
WholeOffer(o) ==
    CASE o.sort = "files" -> PastedAs(o.lines)
      [] o.sort = "moz" -> PastedAs(UpToOne(o.lines))
      [] o.sort = "text" -> {o.lines}

DA == INSTANCE DropAnswer WITH
    Whole <- WholeOffer,
    taken <- [d \in Drops |-> drops[d].offer],
    answer <- [d \in Drops |-> IF drops[d].at \in {"copied", "refused"} THEN drops[d].at ELSE "none"],
    pasted <- [d \in Drops |-> drops[d].pasted]

(* However a list of files is had, at once, line by line or at the second       *)
(* asking, and whatever fails on the way or happens to the tab meanwhile, each   *)
(* drop is pasted whole and answered as copied, or not at all and refused (the  *)
(* calls of gdk_drop_finish in ptyxis-terminal.c).                             *)
ImplementsDropAnswer == DA!Spec
=============================================================================
