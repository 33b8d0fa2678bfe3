# GoreeCloud Terminal: a TLA+ model

GoreeCloud Terminal is a terminal for GNOME, a fork of Ptyxis. This directory
holds TLA+ specifications of the parts of it whose correctness depends on the
order in which things happen, the TLC configurations that check them on small
instances, and proofs, checked by TLAPS, of what holds for every instance.

Every definition is translated from the code in `src/`; `PROJECT.json` gives,
for each one, the file and the lines it stands for (`map`), for each property
a mistake in the code that would break it (`mutants`), what is hard to test in
this code and which property would catch it (`hazards`), and the results that
are proved (`theorems`). What the code does that its authors may not have meant
is in "Known deviations" below.

## The system

Two programs talk over a private D-Bus connection on a socket pair:

* the **UI** (`src/src`), a GTK application: windows with tabs, each tab with a
  terminal and one process;
* the **agent** (`src/agent`), which the UI starts, on the host even when the
  UI is sandboxed, unless that cannot be done: it creates PTYs, spawns processes, on the host or in
  containers, and reports how they end.

Both run one main loop and almost no threads. Within a program a handler runs
without interruption, so what can go wrong is the *order* of callbacks, with
one exception that matters: the UI sometimes asks the agent synchronously by
running its main loop inside a handler (`ptyxis_tab_poll_agent`), and then
anything may happen between two lines of that handler.

A third program is a shell script, `src/tools/migrate-ptyxis-settings.sh`, which
copies settings while the others may write them.

### Components

| Component | State it keeps | Operations | Interacts through | Hard because | Correct when |
|---|---|---|---|---|---|
| Tab and its process (`ptyxis-tab.c`) | state, process, forced_exit, banner | map, respawn, spawn and wait callbacks, force quit, SIGKILL timer | callbacks of the application; called by the window | two asynchronous calls, timers and the user in any order | callbacks find the state they assert; one process per tab, never stale or unwatched; an end is told; a force-quit ends |
| Window, parking lot, dialogs (`ptyxis-window.c`, `ptyxis-parking-lot.c`, `ptyxis-close-dialog.c`) | pages, pinned and closing pages, dialogs, parked tabs; copies of the shown tab's state | open, pin, close, ask, park, undo, move, detach, show, close the window | signals of AdwTabView; signal groups and bindings to the shown tab; nested main loops | handlers suspended in nested loops, timers, a tab that ends by itself; a signal of a tab that is no longer shown | each begun close is finished once; a tab is in one place; nothing is killed without asking; what is shown is the shown tab's |
| Process exit (`ptyxis-process-impl.c`, `ptyxis-client.c`, `ptyxis-application.c`) | process objects; table of exits; pending waits | spawn, announce, wait, ping | D-Bus messages, in order per direction | a process may end before anybody listens | a wait returns once, with the right status, and does return |
| Containers (`ptyxis-podman-provider.c`, `ptyxis-container-provider.c`, `ptyxis-agent-impl.c`, `ptyxis-client.c`) | four lists of containers | monitor, update, merge, list, changed | file monitors, subprocesses, signals by position | changes while an update or the first listing is under way | the lists agree in the end, and positions are never off |
| Starting containers (`ptyxis-podman-container.c`, `ptyxis-application.c`) | has_started, the step of each launch | preferred shell, find shell, spawn, start | subprocesses, D-Bus calls with time limits | two launches at once, a start that fails, an answer after its time limit | the starter waits for the start; what is run is there; each launch ends |
| Run context, fd map (`ptyxis-run-context.c`, `ptyxis-unix-fd-map.c`) | layers, file descriptors | push, merge, spawn | calls | ownership of descriptors, errors half way, quoting through wrappers | no descriptor is leaked or closed twice; the program sees what its layer asked for |
| Tab monitor, notification, inhibit (`ptyxis-tab-monitor.c`, `ptyxis-tab-notify.h`, `ptyxis-tab.c`) | delay, current command line, cookie | poll, back off, preexec, precmd | polls of the agent | late answers | one notification per command; the tab learns what runs; the cookie goes with it |
| Session (`ptyxis-session.c`, `ptyxis-application.c`) | session.gvariant, windows | activate, command line, save, restore | the session file, shared by instances | what is saved when, and by which instance | restored is what was saved; pinned tabs come back |
| Profiles, settings, palettes, shortcuts, preferences (`ptyxis-profile.c`, `ptyxis-settings.c`, `ptyxis-user-palettes.c`, `ptyxis-shortcuts.c`, `ptyxis-preferences-window.c`, editors and rows) | GSettings and the objects, widgets and tabs that copy them | change, rename, remove, undo, make default, capture a key | GSettings signals, bindings, file monitors | several objects for one profile, each with its own list | no stored link is lost; every copy follows; a dialog stores what was pressed |
| Terminal widget (`ptyxis-terminal.c`) | drops being read, enabled actions, link matches | drop, copy, paste, menu, open link | other programs, the portal, VTE | a drop that fails half way or never ends | pasted whole, once, or not at all |
| List models (`ptyxis-gated-list-model.c`, `ptyxis-add-button-list-model.c`) | a wrapped list | renumber changes | items-changed | positions | announced changes are the real ones |
| Settings migration (`src/tools/migrate-ptyxis-settings.sh`) | dconf paths, state directories | migrate, roll back | dconf | failure or a kill between two steps, programs that write meanwhile | nothing of the user's is mixed or lost |
| Native prototype (`src/native`), release tools, packaging, tests, translations, vendored code | - | - | - | - | - |

`PROJECT.json` lists the same components with what is modelled of each.

## Modules

| Module | Models | Checked by | Proofs |
|---|---|---|---|
| `ProcessSlot` | abstract: what a tab promises about its process | as a property of `TabProcess` | |
| `TabProcess` | a tab and its process | `MCTabProcess` | `WindowTabsProofs`, first part |
| `WindowTabs` (extends `TabProcess`) | one window: tab view, parking lot, dialogs, nested loops | `MCWindowTabs` (two instances) | `WindowTabsProofs` |
| `ProcessExit` | agent and UI: how an end becomes the result of a wait | `MCProcessExit` | `ProcessExitProofs` |
| `ContainerTracking` | podman, provider, agent and UI: the list of containers | `MCContainerTracking` | `TrackingAndSessionProofs`, first part |
| `Launch` | UI, agent and host: from a tab to its process | `MCLaunch` | `LaunchProofs` |
| `RunContext` | layers of a command and their file descriptors | `MCRunContext` | `RunContextProofs` |
| `TabWatch` | monitor, notifier and inhibit of a tab | `MCTabWatch` | `TabWatchProofs` |
| `AppSession` | instances of the application and the session file | `MCAppSession` | `TrackingAndSessionProofs`, second part |
| `SettingsMigration` | the script and dconf | `MCSettingsMigration` | `SettingsProofs`, last part |
| `Profiles`, `GeneralSettings`, `UserPalettes`, `Shortcuts`, `Terminal` | the settings, by sort, and the terminal that uses them | composed by `Preferences` | |
| `DropAnswer` | abstract: what a terminal promises to who drops something | as a property of `Preferences` | |
| `Preferences` (extends those five) | the preferences window over all settings | `MCPreferences` | `SettingsProofs` |
| `FullscreenBox` | the box that hides bars, as functions of its state | through `WindowView` | |
| `WindowView` (extends `FullscreenBox`) | what windows show of their tabs | `MCWindowView` | `WindowViewProofs` |

Compositions. `WindowTabs` uses the actions of `TabProcess` (a window's
`CloseParks` calls `ForceQuit`, its `UndoShows` calls `ShowBanner`, ...), and
the run `parking` checks that the tabs of a window are still tabs in the sense
of `TabProcess` (`TabsBehave`). `TabProcess` in turn takes for granted that a
wait is answered once, after the end, with the process's own status; that is
what `ProcessExit` checks of the two programs between the tab and the kernel.
A launch is one step of `TabProcess` (a spawn that is done or fails) and a chain
of calls in `Launch`, whose `LaunchEnds` is why the step comes. `Preferences`
puts the stored profiles, the objects that read them, the widgets, the tabs and
their terminals together: one action changes a setting in all who are told.

Operators marked *wrong* (`MapsAnew`, `PrecmdKeeps`, ...) are variants of the
definition that follows them with a plausible mistake in it. They are used by no
action and show that a property notices the mistake.

### TabProcess

One action per callback: `Map` (`ptyxis_tab_map`), `RespawnAction` (the
banner's Restart button), `SpawnDone` and `SpawnFailed`
(`ptyxis_tab_spawn_cb`), `WaitDone` (`ptyxis_tab_wait_cb`, one disjunct per
way through it), `ForceQuit`, `KillTimer` (`ptyxis_tab_force_quit_in_idle`),
`ShowBanner`, and `Exit` for the process itself. `state`, `process`,
`forcedExit` are the fields of the C structure; `label` and `bannerVisible`
are the banner; `spawnCalls` and `waitCalls` count the asynchronous calls whose
callback has not run; `child` is the process as the kernel knows it.

Abstractions: the exit status is one of ok, error and signal (a lost status is
an error: `wait_finish` returns -1); the exit action of the profile is read when
the process ends and may be any; the texts of the banner are three classes;
several pending SIGKILL timers are one, since each hits whatever process the tab
has when it fires; any respawn may fail at once, as creating its PTY may.

### WindowTabs

`pages`, `pinned` and `closing` are AdwTabView's (external: modelled from how
`ptyxis-window.c` uses it); `lot` is the parking lot; `pageDialogs` and
`winDialog` the close dialogs. `frames` is the C stack of the UI's main loop:
`CloseTab` is `ptyxis_window_close_page_cb` up to its question to the agent,
after which the main loop runs nested; `CloseAsks` and `CloseParks` are the rest
of it. The same for `UndoClose`/`UndoShows` and for the loop of
`ptyxis_window_close_request` (`WinClose`, `LookAtPage`, `WinCloseKeeps`,
`WinCloseCloses`, `LookIsOver`). Only the innermost suspended handler may go on.

Abstractions: dialogs do not block the window (they are created before their
own nested question is answered, so a second close can start); destroying the
window disposes of everything at once; one close request of the window at a
time; parking timers run out in the order they were started (they are equally
long). A tab stays in its window here; detaching one is in `WindowView`.

### ProcessExit

Two FIFO queues are the connection. The agent's actions handle the head of
theirs, `AgentAnnounces` is `ptyxis_process_impl_wait_cb` with its two signals
and the removal of the object. The UI's actions follow a launch: `Spawn`,
`GotSpawned`, `GotProxy`, `Wait` (which connects to the process's signals and
sends the ping), and the handlers that may complete the wait. `PingTimesOut` is
the D-Bus time limit of the ping, for an agent that is busy (`SlowPings`).

### ContainerTracking

`disk` is podman (external), `provider` and `agent` the agent's two lists,
`toUI` the messages under way and `mirror` the UI's copy. An update is three
steps: it starts `podman ps`, podman reads its containers and prints them, and
the output is merged, which announces removals from the last one down and then
additions. Two files are watched, `containers.json` and `db.sql`, each with a
monitor of its own that queues an update (`ContainersJsonChanged`,
`StorageDirChanged`). A container's labels decide its kind (`TypeOf`, in the
order of `LabelToType`); the agent's own list starts with the session and, where
`~/.jhbuildrc` exists, jhbuild, which no provider has. `ptyxis_client_new`
connects to the signals before it asks for the list and takes the answer before
its main loop runs.

Abstractions: podman does not reuse ids; a container's definition is a number
(renaming increments it); the order in which podman prints is arbitrary; the UI
gets a proxy for every container it is told of.

### Launch

`step[t]` is where the launch of tab `t` is: it creates a PTY, asks the agent
for the preferred shell, has it looked for in the container
(`ptyxis_application_spawn_async` and the callbacks it chains), then spawns with
what was found, or `bash` or `sh`. The session's container runs its processes on
the host and looks for programs and directories where the agent is
(`LooksElsewhere`, `FoundInPath`, `SessionDirectory`), which for a sandboxed
agent is somewhere else. Which it is (`sandboxed`) is settled when the program
starts (`ptyxis_application_startup`), so both are initial states. A podman
container (toolbox and distrobox are podman containers with another command
line) is started by the first call that needs it and remembers
`has_started`; calls that come while it starts do not wait. `UIStep`, `AgentStep`
and `HostStep` are the three parties: what runs on the host (`getent`, which a
sandboxed agent has run there; `podman start`; the search) takes its time and may
fail (`LaunchFails`, `NoProducer`, ...). A question may be given up after the
D-Bus limit and its answer still come.

Abstractions: PTYs are there or not; a directory is unknown, or one that exists
in the agent's sandbox and on the host, in one of them, or nowhere
(`Directories`); profiles are the four choices that change what is run.

### RunContext

A context is a stack of layers (`layer`), each with a command, an environment, a
directory and a descriptor map (`fds`). `Push` is
`ptyxis_run_context_push_*`, `Unwind` one turn of the loop in
`ptyxis_run_context_spawn_with_flags`, which runs the handler of the top layer:
it merges the layer below it and may fail half way (`UnwindFails`). `closes`
counts for each descriptor how often it was closed. `child` is what the child
is given and `Seen` what the program finds through all the wrappers of its
command line.

Abstractions: a command line is the sequence of its wrappers, each with the
environment, directory and descriptors it was told to pass. Streams that are
created for a caller (`ptyxis_run_context_create_stdio_stream`) are left out:
nothing uses them.

### TabWatch

`fg`, `shell`, `ran` and `marks` are the terminal's side: the program in the
foreground, what the shell does, and the marks it wrote and the terminal has not
read. `calls` and `replies` are the questions on their way to the agent and
back; `idle` the answers that the tab gives itself when it has no process. The
notifier's `Preexec` and `Precmd`, the monitor's `UpdateSource` and the dialogs
ask in any order. An error leaves the variables for the results uninitialised;
which value they have is arbitrary (`Answered`). `inhibit` is the cookie.

Abstractions: time is a delay that doubles; a command that took less than
`TIME_WATERMARK_MSEC` may or may not be one.

### AppSession

Two instances: `main`, which is unique on the bus, and `solo`, started
standalone. Actions are the command lines, activations and actions that open
windows, `Pin`, the ways a tab or window closes with or without a dialog, and
the writes of the session, which are asynchronous. `Dies` is a crash, or the exit
of a program whose agent is gone, at any time. Three variables are history: `kept`
are the pinned tabs that the user did not close nor a crash took, `unsaved` those of
them that no file has had since they were pinned, which a crash takes, and `excused`
says whether one of the other two known ways to lose a pinned tab happened (see
"Known deviations").

Abstractions: writes of an instance reach the disk in order, whole, and do not
fail; the session is
consumed once restored; saved windows without tabs are dropped on restore, as in
the code. Left out: titles, sizes, profiles, directories, the selected tab,
`--maximize`, `--title`, detaching, and where a new tab is inserted.

### SettingsMigration

One action per dconf command of the script, in its order, under `set -e`;
`states` are the state directories with what a later rollback asks of them.
`CommandFails`, `LoadFails` and `Killed` may come at each of them,
`ProgramWrites` are the programs that write their settings meanwhile.
`/com/goreecloud/Terminal/Devel/` is below `/com/goreecloud/Terminal/`, so that
resetting production resets development too (`Under`). `disturbed` is history:
another program wrote since the target was dumped. Dry runs and `status` write
nothing and are left out.

### Preferences and the modules under it

* `Profiles`: `stored` is what is in the settings, `objects` the
  `PtyxisProfile` objects. Every change of the list of profiles makes new
  objects for all, while tabs, rows, pages and toasts keep theirs
  (`ptyxis_application_notify_profile_uuids_cb`). A local dconf write signals
  synchronously. Links are edited in rows and in a dialog; an undo toast keeps
  the object it removed. `givenUp` is history: links the user removed or
  replaced.
* `GeneralSettings`: settings without a profile and the font, which is the
  system's unless another was chosen in an asynchronous dialog.
* `UserPalettes`: the directory of palette files (external), the monitor, the
  queued reload, and the list that is corrected file by file.
* `Shortcuts`: what is stored, what menus and rows show, and the dialog that
  captures keys: `Press` and `Release` of modifiers and keys in any order, with
  Caps Lock.
* `Terminal`: drops are read piece by piece (`UriListCb`, `MozUrlCb`, `LineCb`) from a
  program that may fail or not go on; a list of files may need the portal. The
  state of each drop implements `DropAnswer`. The clipboard actions and the
  context menu go by what the selection was when they were last updated. VTE is
  external.
* `Preferences`: the widgets of the main page, bound to the profile that is the
  default, the pages of other profiles, and the tabs. Keys are of four sorts:
  bound, silent (bound but never notified), mapped (to the setting itself) and
  the palette. When another profile becomes the default the old binding may or
  may not be there while the new one synchronises, so both are modelled.

Left out: which preview is marked as selected, toasts' wording, scrolling, the
size label, the highlight of a drop. Dialogs are modal; pages of a profile are
not kept once closed; any desktop style may be set.

### WindowView and FullscreenBox

`win[w]` is what window `w` keeps: the target of each of its signal groups
(`page`, `follows`, `chipTab`), of its bindings (`bound`), the style, actions,
session chip and find bar that follow from them; `tab[t]` what a tab keeps.
`NotifySelectedPage` is `ptyxis_window_notify_selected_page_cb`. Tabs are
opened, closed, moved and pinned in their window, selected, and detached into a
window that opens for them (`Detach`). Two fields of a tab are history: `seen`, its
leader when it was last shown, and `left`, that it was shown again with a search
of its own over which the find bar has said nothing since. `FullscreenBox` holds the
functions of `ptyxis-fullscreen-box.c`; hiding the bars moves the focus into the
content, and where it lands is the toolkit's choice. A tab is drawn from a
frozen texture while the overview animates (`texture`, `behind`, `dirty`).

Left out: menus, the flag that resets the grid, the timer of the visual bell,
single-terminal windows, detaching the only tab of a window, dragging a tab into
a window that is open, and the `set-profile` action. The timeout that hides bars is always cleared by the
handler that reveals them, so it has no state of its own beyond `hiding`.

## Runs

| Run | Instance | What it shows |
|---|---|---|
| `tab_process` | a plain and a command tab, every launch result and end, no bound on restarts | assertions of the callbacks, process never stale, banners, forced tabs stay down, the SIGKILL timer works, refinement of `ProcessSlot` with its liveness |
| `window_tabs` | two tabs, prompts on or off, two nested loops | closes are accounted for, a tab is in one place, no shown tab is killed unasked |
| `parking` | two tabs, one may be pinned; failing launches, signals | closes that the tab view refuses, parked tabs are restored or force-quit, tabs of a window are tabs |
| `process_exit` | two processes, two ways to end, one ping may time out | right status, once; no end is missed |
| `container_mirror` | two containers that may be renamed, one with two labels, podman fails at most once | the UI's list, after the messages on their way, is the agent's, and the agent's the provider's; what is there when an update is queued arrives |
| `launch` | two tabs, session, podman container and distrobox, one question given up; an agent on the host, or in a sandbox without the user's shell and with directories of its own | the starter waits for the start, a shell that is run is there, but for the session of a sandboxed agent, launches end whatever the host answers |
| `run_context` | stacks of two layers over the root, two descriptors, four edits | descriptors are conserved; the program sees what its layer asked for |
| `tab_watch` | two processes with a command each, two calls under way | one notification per command; what runs is noticed; the inhibit follows |
| `app_session` | two tabs that may be pinned, two windows, or one standalone | a pinned tab is lost in three known ways only, a crash among them; restore undoes save |
| `settings_migration` | three runs of the script, one failure, four writes by programs | what was copied can be taken back; no mixing |
| `preferences` | two profiles, two links, two palette files, two shortcuts, one drop | no stored link is overwritten by an older list, a save reaches every object, what is shown is stored, keys pressed are stored, palettes catch up, terminal actions work, drops implement `DropAnswer` |
| `window_view` | two windows, two tabs, two profiles | a window shows the state of its shown tab; changed sessions ask for attention; the find bar searches what it says, but for a tab shown again under an empty bar; bars while held; frames catch up |

### Bounds

* Tabs: two. The tabs of a window interact through the order of `pages` and
  `lot`, the one window and the frames; two are enough for one to be closed,
  asked about or dying while another is.
* `MaxFrames` = 2 nested main loops: one handler inside another. A deeper stack
  suspends more handlers of the same kinds; `WindowTabsProofs` has any depth.
* `MaxParked` bounds only the repeated parking of a pinned page, which is
  parked again with each refused close. `MaxForced` bounds how many tabs are
  force-quit while the window is there: one of the two in `window_tabs`, where
  two would triple the states, and every tab elsewhere.
* Processes: two in `ProcessExit`, so that the table of exits can mix them up.
* Containers: two, next to the agent's own, so that a merge can keep one and
  remove or add another, before or after it, or remove one and add one.
  `MaxVersion` bounds renames, `MaxFailures` how often podman fails; what the
  liveness property asks for is asked once podman works again.
* Launch: `t1` launches in the session or the podman container, twice, `t2` in
  the podman container or the distrobox, once: two calls meet at a container that
  starts, a second launch at one that was started, and one question is given up.
  Tabs ask for a directory that only the agent's sandbox has: an agent there finds
  it, one on the host does not.
* Run context: two layers over the root are every pair of handlers, above and
  below each other; a descriptor goes through at most two merges.
* Tab watch: two processes, so that the answers about one reach a tab with the
  next; two questions not settled, one mark not read. `DELAY_MAX_MSEC` is 1000
  instead of 10000, so that the delay doubles once.
* Session: one instance at a time (`MaxInstances` = 1: a standalone instance next
  to the other overwrites its session, a deviation), one write under way.
* Migration: three runs are a migration, its rollback and another; a failure is
  one command, since a failing command ends the script or its restore.
* Preferences: a behaviour spends one of eleven budgets, of links, profiles,
  values, general settings, keys, files or terminal events, alone or in the pairs
  that share state. One palette file at most is there at first, none when no
  file may change; the filter and the font dialog move while there is budget; one
  drop, because drops share nothing.
* Window view: `MaxPage`, `MaxTab` and `MaxWindow` bound the events of pages, of
  what tabs do, and of what the user does in windows; going back to the default
  zoom and forgetting a leader are not bounded.
* Restarts, force-quits, messages and updates are not bounded.

Symmetry is used in runs of invariants and action properties only, never with
liveness. Deadlock is checked where a process can always do something
(`MCTabProcess`, whose banner can always be shown again, and `MCAppSession`,
whose program can always be started); elsewhere the system may come to rest and
the configuration says `CHECK_DEADLOCK FALSE`.

### Fairness

* A pending callback is dispatched: the agent answers, GLib dispatches sources
  that are due. In `WindowTabs` this is strong fairness, since the handler that
  runs disables the others in between, and GLib dispatches a ready source of the
  same priority in each iteration of a loop, nested or not.
* A process sent SIGKILL ends. A process never has to end by itself.
* `ContainerTracking`: the agent's side and the UI's side each do something that
  is due as long as there is any, and a `podman ps` ends.
* `Launch`: both main loops run, and what was started on the host ends, well or
  not.
* `TabWatch`: the agent answers, the marks are read, timers go off, an end is
  waited for. The shell, the user and the end of a process owe nothing.
* `Preferences`: the main loop reloads palettes, and the other program of a drop
  lets it be read.
* `WindowView`: timers, idles and frames.
* `AppSession`, `RunContext` and `SettingsMigration` state none: they have safety
  properties only.
* Users, podman's users and time limits have no fairness anywhere.

## Proofs

Eight modules hold proofs; TLAPS checks them to the last leaf. They prove every
safety invariant and action property that the runs check, and three refinements,
from the inductive invariants named first.

| Theorem | States |
|---|---|
| `WindowTabsProofs!TypeCorrect`, `AssertionsHold`, `ProcessNeverStale`, `BannerNeverSilent` | of a tab on its own: the four invariants of the run `tab_process` |
| `WindowTabsProofs!ForcedNeverRestarts` | its action property `ForcedStaysDown` |
| `WindowTabsProofs!SlotRefinement` | `TabSafety` implements the safety part of `ProcessSlot` |
| `WindowTabsProofs!CloseInvariant`, `ClosesAlwaysAccountedFor` | `[]ClosesAccountedFor` |
| `WindowTabsProofs!WindowInvariant`, `WindowTypeCorrect`, `NoTabLost` | `[]WindowTypeOK`, `[]OnePlace` |
| `WindowTabsProofs!AskedBeforeQuit` | the action property `ShownTabsAskedFirst` |
| `WindowTabsProofs!TabsRefined`, `TabsSoundInWindow` | a window implements `TabProcess` (`TabsBehave`), and so has all that is proved of tabs and of `ProcessSlot` |
| `ProcessExitProofs!ExitInvariant`, `WaitsAreRight` | `[]RightStatus` |
| `TrackingAndSessionProofs!TrackingInvariant`, `MirrorFollows` | `[]ListsAgree` |
| `TrackingAndSessionProofs!SessionTypeCorrect`, `SavedWindowsComeBack` | `[]SessionTypeOK`, `[]RoundTrip` |
| `TrackingAndSessionProofs!SessionInvariant`, `PinnedTabsComeBack` | `[]PinnedNeverLost`, with one instance at a time |
| `LaunchProofs!LaunchInvariant`, `StarterWaits`, `OnlyWhatIsThere` | `[]FirstWaits`, `[]RunsWhatIsThere` |
| `RunContextProofs!FdInvAlways`, `DescriptorsConserved` | `[]Conserved` |
| `RunContextProofs!SeenInvAlways`, `ProgramSeesWhatWasAsked` | `[]ProgramSeesItsLayer` |
| `TabWatchProofs!WatchInvariant`, `NotifiedAtMostOnce` | `[]AtMostOnePerCommand` |
| `SettingsProofs!MigrationInvariant`, `AlwaysCanRollBack`, `MigrationNeverMerges` | `[]CanRollBack`, `[]NeverMerges` |
| `SettingsProofs!ProfilesHold`, `NoLinkIsLost`, `EverySaveReachesAll` | the action properties `LinksNeverLost`, `SavesReachAll` |
| `SettingsProofs!AlwaysShownAsStored` | `[]ShownAsStored` |
| `SettingsProofs!AlwaysStoresWhatWasPressed` | the action property `StoresWhatWasPressed` |
| `SettingsProofs!AlwaysOffersWhatWorks` | `[]OffersWhatWorks` |
| `SettingsProofs!DropsAreAnswered` | `Preferences` implements the safety part of `DropAnswer` |
| `WindowViewProofs!ViewInvariant`, `FollowsShownTab`, `ChangesAsk`, `FindBarSearches` | `[]WindowFollowsShownTab`, `[]ChangedSessionsAsk`, `[]FindBarSearchesWhatItSays` |
| `WindowViewProofs!BarsRight` | `[]BarsShownWhileHeld` |

They hold for any sets of tabs, windows, processes, containers, descriptors,
settings and so on, and any value of the bounds. The only assumptions are the
named ones on the constants (`TabAssumption`, `WatchAssumption`,
`MigrationAssumption`, ...), which TLC evaluates in the runs. Beyond the types of
constants they say: podman has finitely many containers
(`TrackingAssumption`), there is a session container (`LaunchAssumption`), and
the tabs that are open at first are distinct and some profile exists
(`ViewAssumption`). One theorem is about less than the model can do:
`PinnedTabsComeBack` has the hypothesis `MaxInstances = 1`, since the property is
stated for one instance at a time, as the run has it; two that run together
overwrite each other's file. Each theorem follows from an inductive invariant:

* **TabProcess.** The type, `CallbacksMatchState` and `ProcessMatchesState` are
  inductive together, and neither of the last two is alone: `spawn_cb` sets the
  state to RUNNING without looking at it, so that only "a spawn is outstanding
  exactly while SPAWNING" keeps a second process out; `wait_cb` clears the
  process, so that only "a wait is outstanding exactly while RUNNING" keeps a
  running one from being forgotten. The slot of a tab is computed from the
  outstanding calls and the process itself, never from `self->state`, so the
  refinement mapping is a claim about the code.
* **WindowTabs, closes.** A close is accounted for because each begun close has
  one party: a suspended `ptyxis_window_close_page_cb` on the stack of nested
  loops or a dialog. `FramesOK` says what the stack may look like, `OneParty` is
  kept per tab; the innermost frame is the only one that moves, so the others
  keep their party whatever runs in between.
* **WindowTabs, places.** `Whereabouts` adds where a tab is: once at most in
  `pages`, in the lot, or in the hand of the handler that undoes its close, and
  each handler of the stack (`StackOK`) with the tab it will put back. A page
  that can be pinned may be in `pages` and in the lot at once (a known
  deviation), so that `OnePlace` and `ShownTabsAskedFirst` are about the others.
  That a shown tab is force-quit only after a question follows since the timers
  and the end of a tab act on the lot, and a close that acts on a page has a
  dialog behind it or found nothing to ask. Each step of a window is a step of
  its tabs or leaves them alone (`TabsMove`), which is the refinement.
* **ProcessExit.** `wait_cb` in the agent sends the ProcessExited signal before
  it removes the object, and the connection keeps the order. So an answer "no
  such object" is always behind the announcement (`ToldFirst`), and the table of
  exits has the status by then (`StatusKept`): the one way to "unknown" is the
  ping's time limit.
* **ContainerTracking.** `ListsAgree` is nearly inductive; what it needs is that
  the provider and what podman printed have each container once (`Known`), and
  that the answer to the first listing is ahead of all changes (`ListingFirst`).
  Two facts carry it. Messages compose: to change a list by some and then by
  others is to change it by both (`MoreChanged`), so what a merge sends turns
  the agent's old list, and with it the UI's, into the new one. Order decides:
  parts of one list with the same ids are the same list (`SameOrder`), so
  removals from the last one down, found by id in the agent's list, leave the
  agent with what the provider keeps.
* **AppSession, what comes back.** `Orderly` says of every list of windows, shown,
  stored or on its way to the file, that its pinned tabs come first in each window
  and that no tab is in it twice (`ListsTidy`). The tabs worth saving are then a
  prefix of each window (`OnlyComing`), so that drawing them on the save and again
  on the restore is drawing them once, whatever the setting is at either time.
* **AppSession, pinned tabs.** `PinnedNeverLost` is not inductive: that a kept tab is
  found somewhere does not keep it there. `KeptThere` says where: in a window while
  there are windows, and else in what is written last, the file if no write is on
  its way. Three facts keep that. Who serves nothing has no windows and read the
  session from the file as it is (`Untouched`); a session that is not restored yet
  is still the one in the file, unless a window opened before (`Unread`); and a
  window that asked as the last one has its tabs in what is written last
  (`AskedSaved`), so that it may go without another save. What a crash may take is
  a matter of its own (`Landed`): a kept tab that is not `unsaved` is in the file
  and in every session on its way to it, and what one of these brings, no later one
  drops. So a crash leaves the file, and the file has all but the unsaved. Each action has one lemma
  that says what it does with windows, session and writes, and a few lemmas
  (`AnswersInv`, `RestInv`, ...) take the invariant across any step of that sort.
* **Launch.** A call carries what it found so far (`CallOK`): the program that
  was looked for is installed where it will run, unless that is the session of a
  sandboxed agent (`Has`), and a call that starts a
  container is the one recorded as its starter, of which there is one. A
  container that is starting always has that call (`PodOK`), and a launch has
  one call at a time unless a question was given up (`OneCall`).
* **RunContext, descriptors.** `InBooks` (each descriptor is in one map once, or
  closed once, and never both) is inductive with "a context that is gone holds
  nothing"; every step that closes moves its descriptors out of the maps first.
* **RunContext, the program.** `Seen` is a fold over the wrappers of a command
  line, each a step of what the program is given. `SeenInv` says that what is
  pushed is plain (no wrapper yet) and that the layer being unwound delivers
  what it was asked (`Delivers`); each handler adds one wrapper at the outside,
  which by the trace of the fold is one step at its beginning.
* **TabWatch.** What can still lead to a notification is counted: the
  notifier's questions on their way, their answers, those given at once, and the
  command line that is held. With the notifications sent they are no more than
  the commands that began: a preexec adds one to both sides, and `precmd`
  forgets what it notified.
* **SettingsMigration.** The dump is kept until it is used (`DumpKept`), the last
  state directory is the run's own (`OwnState`), and it has the copy before the
  target is written (`CopiedFirst`); an undisturbed target still is what was
  dumped (`StillDumped`), and for a migration that is empty.
* **Profiles.** `ProfilesInv` says who holds what: the list has an object for each
  uuid, once, and the default is in it; tabs, pages, rows, editors and toasts hold
  objects that are there; a list of links has a row for each link of its object;
  and the link editor's place is in its list. Its heart is `HaveLinks`: an object
  lacks no stored link but those the user gave up. So whichever object saves, and
  however old, loses none (`Saved`), and after the save the others read what is
  stored or had it. New objects are shown to be new, and as many as the list
  needs, from the finiteness of `Objects` (`InjectionThere`).
* **Preferences.** `ShownAsStored` is inductive with what the widgets are bound to:
  the object whose links are shown is among `bound`, and its uuid is the default's.
  A key of the default then reaches the widget, from wherever it is written, and a
  widget the default. A tab's profile never changes and an object's uuid never does
  (`TabsStay`, `SameObjects`), so a tab that hears of its uuid's keys only still goes
  by what is stored.
* **Shortcuts.** That a pressed key is what is meant is a case distinction over keys
  and modifiers (`PressedIsMeant`); the invariant keeps what the dialog shows and
  what was asked of it the same.
* **Terminal.** What is offered is a function of the selection, the clipboard and what
  is under the menu (`Offering`), recomputed by each handler. A drop's lines are in
  the order of the offer: what was read and what is left make up the list (`DropOK`).
* **WindowView.** The windows hold distinct pages, each selected page in its own
  view (`PagesOK`); every open window was told of its selected page, with its
  signal groups, bindings and style those of that page's tab (`Told`); and every
  tab that is somewhere has settings objects for the profile it uses (`Sound`).
  None of the properties is inductive by itself: a tab that changes changes the
  windows that follow it, which is the window that shows it only as long as
  pages are distinct and every switch was told. A tab that is shown under an empty
  bar is the one exception of the find bar, which `left` records (`ShowEffect`).
  The bars are proved from `FullscreenBox` alone (`BarsOK`).

Folds (`FoldLeft`, `FoldFunction`) are recursive functions, and the prover has no
induction over them; the modules that fold go by traces instead. A fold is where
a trace of its steps ends, and what holds along a trace is shown by the least
index at which it would fail, which `WellFoundedInduction` gives
(`NatMin`, `IterationIsTrace`).

Only model-checked is liveness, since the prover does not do it under fairness: `KillTimerReaps`, the fairness of `ProcessSlot` in
`ImplementsProcessSlot`, `ParkedLeaves`, `EndIsReported`, `QueuedUpdateArrives`,
`LaunchEnds`, `Noticed`, `InhibitFollows`, `PalettesCatchUp`, `FramesCatchUp` and
the fairness of `DropAnswer` in `ImplementsDropAnswer`.

## Known deviations

What the code does that a reader may not expect. The models have these
behaviours unless it says otherwise; properties are stated so that they say
what holds besides.

Processes and tabs:

* A tab that is force-quit while its launch is under way runs on: there is no
  process to signal yet, and `ptyxis_tab_spawn_cb` does not look at
  `forced_exit` (`ptyxis-tab.c:1899`). Its entry stays in the table of exits.
* A tab restored after it was force-quit can show an empty banner; the flag
  outlives the process (`ptyxis-tab.c:402`).
* A ping that times out is taken for the end of its process
  (`ptyxis-application.c:2000`).
* A poll whose answer fails leaves `has_foreground_process` uninitialised
  (`ptyxis-tab.c:2005`); the answer to a poll can come after the command ended and
  names it at the next prompt (`ptyxis-tab-notify.h:143`).
* The inhibit of a logout is held on after the process ended until something
  polls (`ptyxis-tab.c:308`); the session chip keeps its kind as long.
* Not every change of what a tab's title and icon are made of is notified
  (`ptyxis-tab.c:498`, `557`, `2045`); not modelled.

Windows:

* A pinned page that is closed is parked although it stays in the window, and the
  parking timer then kills its process (`ptyxis-window.c:190`).
* `ptyxis_window_close_request` indexes pages by a count from before its nested
  loops (`ptyxis-window.c:1402`).
* A new tab after the current one is refused before the pinned pages
  (`ptyxis-window.c:2430`); positions are not modelled.
* Pin and unpin become enabled again in single-terminal windows; the timer of
  the visual bell is not cleared in dispose; not modelled.
* A tab keeps its search when another one is shown, and the bar forgets it: the text
  is erased after the bar has its new terminal, and on the way back it is empty
  already, so that nothing is signalled (`ptyxis-find-bar.c:265`). Search in one
  tab, show another, come back: the bar is empty, and its buttons still find the
  old text (`ptyxis-find-bar.c:108`), until something is entered.
  `FindBarSearchesWhatItSays` makes an exception of this (`left`).
* Hiding the bars of a full-screen window takes the focus from the find bar; its
  toggles do not change a regex that is already set until the text changes.

Containers and launches:

* A renamed container is not exported again: the UI keeps its old definition
  (`ptyxis-container-provider.c:206`).
* A change while `podman ps` runs is missed (`ptyxis-podman-provider.c:394`).
* `has_started` is set before `podman start` is done and stays when it fails
  (`ptyxis-podman-container.c:93`), so a second launch does not wait.
* An agent that is sandboxed, as it is on hosts that are known not to run it or turn
  out not to (`ptyxis-application.c:809`, `938`), looks for the user's shell in its own
  `PATH` and for the directory in its own files (`ptyxis-session-container.c:167`, `103`),
  and the process runs on the host. The shell that is run may not be there, or one
  that is may not be found, and a directory that a container shares with the
  sandbox may be taken for one of the host, although the comment at line 99 says "Make
  sure CWD exists within the user session". `Launch` has the behaviour;
  `RunsWhatIsThere` leaves the session of such an agent out.
* `ptyxis_agent_pty_new` returns -1 without an error when `posix_openpt` fails.

Session:

* Actions that open a window or tab do not restore the session, and the next
  save replaces it (`ptyxis-application.c:1456`). Whether a window is the last
  one is read before its dialog is answered (`ptyxis-window.c:391`). These are the
  two ways in which `PinnedNeverLost` excuses a loss (`excused`).
* Pinning a tab does not save the session: that is done when a window closes or a
  last tab ends (`ptyxis-window.c:392`, `1388`). A crash, or the exit of the program
  when its agent is gone (`ptyxis-application.c:855`), loses what was pinned since
  the last save that reached the file. It is the third way to lose a pinned tab, in
  which `PinnedNeverLost` allows for the `unsaved` ones only.
* A standalone instance overwrites the session of the application.

Settings:

* Making another profile the default writes values of the new one over the old
  (`ptyxis-preferences-window.c:543`).
* `scroll-on-output`, `scroll-on-keystroke`, `preserve-container` and
  `preserve-directory` are not notified by profile objects (`ptyxis-profile.c:182`).
* Open tabs do not follow a change of the system's font
  (`ptyxis-application.c:695`), nor of the file of their palette.
* `ptyxis-settings.c` has no getter for `enable-zoom-scroll-ctrl`;
  `edit_profile` never assigns its profile (`ptyxis-application.c:1215`).
* The rows of links on a profile's page are made with the default profile
  (`ptyxis-profile-editor.c:264`).
* The shortcut dialog loses Shift with function keys, and with Caps Lock.
* A custom link's pattern is compiled again while it is edited: clicking its
  matches opens nothing then, and with two tabs the older one substitutes with
  the newer one's regex. A blank link that a tab was opened with is matched on
  after it is removed. `open_link_action` opens the raw match.
* `drop_file_list_cb` compares an error of one domain with a code of another, so
  a refusal of the portal is not retried.

## Not modelled

* Drawing, layout, wording, titles, icons, progress, thumbnails and scrolling:
  no control of their own. The colours and the parsing of palettes.
* AdwTabView, GTK, GLib, D-Bus, dconf, VTE, podman, toolbox and distrobox are
  modelled only as the code uses them.
* `ptyxis-gated-list-model.c`: an empty or a whole list, one signal either way.
* `goreecloud-session-context.c`: pure functions that nothing else calls yet.
* `src/native`: a prototype of one window and four states, not shipped.
* The agent's utilities (PTY, rlimit and passwd calls) and the generated list of
  symbol versions (`force_link_glibc_2.17.h`): no state.
* The release tools, packaging and tests: one pass over files.
* Vendored helpers and translations.

## Plan

Everything of the first plan is modelled except what "Not modelled" lists.
What is left, most useful first:

1. Positions of pages: a new tab next to the pinned section, close others.
2. Two instances of the application at a time, with what is then promised.
