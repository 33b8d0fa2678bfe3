---------------------------- MODULE MCPreferences ----------------------------
(* Up to two profiles, a link that is there and one that is typed, two palette *)
(* files that are written at once or in pieces, and two shortcuts. Behaviours   *)
(* spend what they may change on links and profiles, on keys of profiles, on    *)
(* shortcuts, or on files.                                                    *)
EXTENDS Preferences

CONSTANTS u1, u2, before, after

TwoUuids == {u1, u2}
OneLink == << before >>
AllKeys == {"letter", "digit", "function", "arrow", "tab", "Escape", "BackSpace"}

Budget(l, p, v, g, k, f, t) ==
    [links |-> l, profiles |-> p, values |-> v, general |-> g, keys |-> k, files |-> f, terminal |-> t]
SmallBudgets ==
    { Budget(4, 0, 0, 0, 0, 0, 0), Budget(2, 1, 0, 0, 0, 0, 0), Budget(0, 1, 1, 0, 0, 0, 0), Budget(0, 0, 2, 0, 0, 0, 0),
      Budget(0, 2, 1, 0, 0, 0, 0), Budget(0, 0, 0, 2, 0, 0, 0), Budget(0, 0, 0, 0, 2, 0, 0),
      Budget(0, 0, 0, 0, 0, 2, 0), Budget(0, 0, 1, 0, 0, 1, 0), Budget(0, 0, 0, 0, 0, 0, 3),
      Budget(1, 0, 0, 0, 0, 0, 1) }

Whole == [groups |-> {"Palette"}, complete |-> {"Palette"}]
TwoFaces == [groups |-> {"Palette", "Light", "Dark"}, complete |-> {"Light", "Dark"}]
OneFace == [groups |-> {"Palette", "Light"}, complete |-> {"Light"}]
SomeContents == {Whole, TwoFaces, OneFace}

TwoAccels == [new |-> Accel("letter", {"Control", "Shift"}), full |-> Accel("function", {})]
SchemaValues == [bound |-> 0, silent |-> 0, mapped |-> 0, palette |-> "gnome"]
FirstValues == [bound |-> 1, silent |-> 1, mapped |-> 1, palette |-> "tango"]

SomeOffers ==
    { [sort |-> "files", lines |-> << "native", "document" >>],
      [sort |-> "files", lines |-> << "comment", "remote" >>],
      [sort |-> "moz", lines |-> << "remote", "native" >>], [sort |-> "text", lines |-> << "blank" >>] }
=============================================================================
