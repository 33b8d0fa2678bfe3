------------------------------- MODULE TabWatch -------------------------------
(***************************************************************************)
(* What a tab knows of the program in its foreground                       *)
(* (src/src/ptyxis-tab-monitor.c, ptyxis-tab-notify.h and the polling in   *)
(* ptyxis-tab.c).                                                          *)
(*                                                                         *)
(* Only the agent can tell, so the tab asks: its monitor from a timer that *)
(* backs off while nothing changes, its notifier when the shell says that  *)
(* it begins a command, its dialogs while they wait.  From the answers     *)
(* follow the title, the inhibited logout, and the notification of a       *)
(* command that ended.  The terminal's marks, the agent's answers and the  *)
(* end of the process come in no order in particular.                      *)
(***************************************************************************)
EXTENDS Integers, Sequences, FiniteSets, SequencesExt

CONSTANTS
    Commands, Shell, NoLine, Empty,     \* command lines; none; the empty one
    Superuser,                          \* the commands run by the superuser
    MaxProcs, MaxCommands,              \* bounds: processes, commands in them
    DELAY_INTERACTIVE_MSEC, DELAY_MIN_MSEC, DELAY_MAX_MSEC,     \* 100, 500, 10000
    MaxEvents,                          \* bound: keys, output, what the user does
    MaxCalls, MaxMarks                  \* bounds: questions not settled, marks not read

ASSUME WatchAssumption ==
    /\ {Shell, NoLine, Empty} \cap Commands = {}
    /\ Cardinality({Shell, NoLine, Empty}) = 3
    /\ Superuser \subseteq Commands
    /\ MaxProcs \in Nat /\ MaxCommands \in Nat /\ MaxEvents \in Nat /\ MaxCalls \in Nat
    /\ MaxMarks \in Nat
    /\ DELAY_INTERACTIVE_MSEC \in Nat /\ DELAY_MIN_MSEC \in Nat /\ DELAY_MAX_MSEC \in Nat
    /\ DELAY_INTERACTIVE_MSEC < DELAY_MIN_MSEC /\ DELAY_MIN_MSEC < DELAY_MAX_MSEC

VARIABLES
    \* The terminal and the agent
    gen,        \* the processes spawned so far; the last is the tab's
    agent,      \* of that one: "running", "exited", "gone" from the bus
    fg,         \* the group in the foreground: its program and pid
    shell,      \* "prompt", "announced" or "busy"
    ran,        \* commands so far
    marks,      \* the shell's marks that the terminal has not read yet
    calls,      \* questions on their way to the agent
    replies,    \* answers on their way back
    \* The tab
    process,    \* its process, 0 for none
    has_foreground_process, command_line, program_name, pid,
    inhibit,    \* it holds an inhibit cookie
    rooted,     \* it is in a window
    setting,    \* inhibit-logout
    focus,      \* "tab", "sibling" in the same window, "away" and "hidden" when
                \* the window is not active and shows this tab or another
    attention,  \* its page needs attention
    shown,      \* a notification is shown for it
    \* Its monitor
    source, current_delay, is_polling,
    \* Its notifier
    current_cmdline,    \* and the command for which it was asked
    between_preexec_and_precmd,
    idle,               \* answers given without the agent, not delivered yet
    \* History
    commands,   \* begun, as far as the tab has read
    sent,       \* notifications
    moved,      \* it left a window
    events

truth   == << gen, agent, fg, shell, ran, marks >>
wire    == << calls, replies, idle >>
polled  == << has_foreground_process, command_line, program_name, pid >>
view    == << rooted, setting, focus, moved >>
signs   == << attention, shown, sent >>
monitor == << source, current_delay, is_polling >>
notify  == << current_cmdline, between_preexec_and_precmd, commands >>
vars    == << truth, wire, process, polled, inhibit, view, signs, monitor, notify, events >>

Lines     == Commands \cup {Shell, NoLine, Empty}
NoCommand == [line |-> NoLine, of |-> 0]
GarbagePid == -2
Pids      == {GarbagePid, -1} \cup 0 .. MaxProcs + MaxCommands
Who       == {"monitor", "notify", "dialog"}
Questions == [who : Who, gen : 0 .. MaxProcs, of : 0 .. MaxCommands]
Answers   == [who : Who, of : 0 .. MaxCommands, has : BOOLEAN, pid : Pids, line : Lines]

TypeOK ==
    /\ gen \in 0 .. MaxProcs /\ process \in {0, gen}
    /\ agent \in {"running", "exited", "gone"}
    /\ fg \in [line : Commands \cup {Shell}, pid : Pids]
    /\ shell \in {"prompt", "announced", "busy"} /\ ran \in 0 .. MaxCommands
    /\ marks \in Seq({"preexec", "precmd"})
    /\ calls \in Seq(Questions) /\ replies \in Seq(Answers)
    /\ has_foreground_process \in BOOLEAN /\ command_line \in Lines
    /\ program_name \in Commands \cup {Shell, NoLine} /\ pid \in Pids
    /\ inhibit \in BOOLEAN /\ rooted \in BOOLEAN /\ setting \in BOOLEAN
    /\ focus \in {"tab", "sibling", "away", "hidden"}
    /\ attention \in BOOLEAN /\ shown \in BOOLEAN
    /\ source \in BOOLEAN /\ is_polling \in BOOLEAN
    /\ current_delay \in DELAY_INTERACTIVE_MSEC .. DELAY_MAX_MSEC
    /\ current_cmdline \in [line : Lines, of : 0 .. MaxCommands]
    /\ between_preexec_and_precmd \in BOOLEAN /\ idle \in Seq(0 .. MaxCommands)
    /\ commands \in 0 .. MaxCommands /\ sent \in Nat /\ moved \in BOOLEAN /\ events \in 0 .. MaxEvents

Init ==
    /\ gen = 0 /\ agent = "gone" /\ fg = [line |-> Shell, pid |-> 0]
    /\ shell = "prompt" /\ ran = 0 /\ marks = << >>
    /\ calls = << >> /\ replies = << >> /\ idle = << >>
    /\ process = 0
    /\ has_foreground_process = FALSE /\ command_line = NoLine /\ program_name = NoLine
    /\ pid = 0
    /\ inhibit = FALSE /\ rooted = TRUE /\ setting = TRUE
    /\ focus = "tab" /\ attention = FALSE /\ shown = FALSE
    /\ source = FALSE /\ current_delay = DELAY_MIN_MSEC /\ is_polling = FALSE
    /\ current_cmdline = NoCommand /\ between_preexec_and_precmd = FALSE
    /\ commands = 0 /\ sent = 0 /\ moved = FALSE /\ events = 0

Event == events < MaxEvents /\ events' = events + 1

-----------------------------------------------------------------------------
(* The terminal and the agent *)

(* A process is spawned, for a new tab or one that is restarted.           *)
Spawned ==
    /\ process = 0 /\ agent # "running" /\ gen < MaxProcs
    /\ gen' = gen + 1 /\ process' = gen' /\ agent' = "running"
    /\ fg' = [line |-> Shell, pid |-> gen']
    /\ shell' = "prompt" /\ marks' = << >>
    /\ UNCHANGED << ran, wire, polled, inhibit, view, signs, monitor, notify, events >>

ShellActs ==
    /\ agent = "running" /\ Len(marks') <= MaxMarks
    /\ UNCHANGED << gen, agent, wire, process, polled, inhibit, view, signs, monitor, notify >>

(* The shell marks that it begins a command, and what comes before the     *)
(* next prompt.                                                            *)
Announces ==
    /\ shell = "prompt" /\ ran < MaxCommands
    /\ shell' = "announced" /\ ran' = ran + 1 /\ marks' = Append(marks, "preexec")
    /\ UNCHANGED << fg, events >>
    /\ ShellActs

Executes(c) ==
    /\ shell = "announced"
    /\ shell' = "busy" /\ fg' = [line |-> c, pid |-> MaxProcs + ran]
    /\ UNCHANGED << ran, marks, events >>
    /\ ShellActs

(* Nothing was executed for a command the shell has itself.                *)
Prompts ==
    /\ shell # "prompt"
    /\ shell' = "prompt" /\ fg' = [line |-> Shell, pid |-> gen]
    /\ marks' = Append(marks, "precmd")
    /\ UNCHANGED << ran, events >>
    /\ ShellActs

(* An empty line: a prompt with no command before it.                      *)
PromptsAgain ==
    /\ shell = "prompt"
    /\ marks' = Append(marks, "precmd")
    /\ Event
    /\ UNCHANGED << shell, fg, ran >>
    /\ ShellActs

Exits ==
    /\ agent = "running" /\ agent' = "exited"
    /\ UNCHANGED << gen, fg, shell, ran, marks, wire, process, polled, inhibit, view, signs, monitor, notify, events >>

Unexported ==
    /\ agent = "exited" /\ agent' = "gone"
    /\ UNCHANGED << gen, fg, shell, ran, marks, wire, process, polled, inhibit, view, signs, monitor, notify, events >>

(* ptyxis_process_impl_handle_has_foreground_process: with no process left *)
(* the terminal has no foreground group, which is not the process either.  *)
(* A call to what is not there is an error, and an error leaves the caller *)
(* with the uninitialised variables it passed for the results.             *)
Answered(q) ==
    LET answer(has, p, line) == [who |-> q.who, of |-> q.of, has |-> has, pid |-> p, line |-> line] IN
    IF q.gen = gen /\ agent = "running" THEN {answer(fg.pid # gen, fg.pid, fg.line)}
    ELSE IF q.gen = gen /\ agent = "exited" THEN {answer(TRUE, 0, Empty)}
    ELSE { answer(has, GarbagePid, NoLine) : has \in BOOLEAN }

AgentAnswers ==
    /\ calls # << >>
    /\ calls' = Tail(calls)
    /\ \E a \in Answered(Head(calls)) : replies' = Append(replies, a)
    /\ UNCHANGED << truth, idle, process, polled, inhibit, view, signs, monitor, notify, events >>

-----------------------------------------------------------------------------
(* The tab *)

(* ptyxis_tab_update_inhibit: what inhibit becomes.                        *)
Inhibited(has, program, wanted) ==
    /\ wanted
    /\ has /\ program \notin {NoLine, Shell}
    /\ rooted \/ inhibit

(* ptyxis_tab_poll_agent_async, which answers itself when there is no      *)
(* process: it forgets what it knows, except for the program's name.       *)
Ask(who, of) ==
    IF process = 0
    THEN /\ has_foreground_process' = FALSE /\ pid' = -1 /\ command_line' = NoLine
         /\ idle' = IF who = "notify" THEN Append(idle, of) ELSE idle
         /\ UNCHANGED << calls, replies, program_name >>
    ELSE /\ Len(calls \o replies) < MaxCalls
         /\ calls' = Append(calls, [who |-> who, gen |-> process, of |-> of])
         /\ UNCHANGED << replies, idle, polled >>

(* Wrong: the first word is only taken when there was none before.         *)
ProgramOfFirst(line) ==
    IF program_name # NoLine THEN program_name ELSE IF line \in {NoLine, Empty} THEN NoLine ELSE line

(* The first word of a command line, if it has one.                        *)
ProgramOf(line) == IF line \in {NoLine, Empty} THEN NoLine ELSE line

IsActive == rooted /\ focus \in {"tab", "away"}

BackedOff == IF 2 * current_delay > DELAY_MAX_MSEC THEN DELAY_MAX_MSEC
             ELSE IF 2 * current_delay < DELAY_MIN_MSEC THEN DELAY_MIN_MSEC
             ELSE 2 * current_delay

(* The callbacks: ptyxis_tab_monitor_poll_agent_cb for the monitor,        *)
(* ptyxis_tab_notify_shell_preexec_poll_cb for the notifier; a dialog only *)
(* goes on.                                                                *)
Delivered(a, changed) ==
    CASE a.who = "monitor" ->
           /\ is_polling' = FALSE
           /\ current_delay' = IF ~source THEN current_delay
                               ELSE IF changed THEN DELAY_MIN_MSEC ELSE BackedOff
           /\ UNCHANGED << source, current_cmdline >>
      [] a.who = "notify" ->
           /\ current_cmdline' = [line |-> a.line, of |-> a.of]
           /\ UNCHANGED monitor
      [] OTHER -> UNCHANGED << monitor, current_cmdline >>

(* ptyxis_tab_poll_agent_cb and the callback of who asked.                 *)
Reply ==
    /\ replies # << >>
    /\ LET a == Head(replies)
           program == IF a.line # command_line THEN ProgramOf(a.line) ELSE program_name
           changed == a.pid # pid \/ a.has # has_foreground_process \/ a.line # command_line
           leader  == (a.line \in Superuser) # (command_line \in Superuser)
       IN
       /\ replies' = Tail(replies)
       /\ pid' = a.pid /\ has_foreground_process' = a.has
       /\ command_line' = a.line /\ program_name' = program
       /\ attention' = (attention \/ (leader /\ rooted /\ ~IsActive))
       /\ inhibit' = IF a.has # has_foreground_process \/ program # program_name
                     THEN Inhibited(a.has, program, setting) ELSE inhibit
       /\ Delivered(a, changed)
    /\ UNCHANGED << truth, calls, idle, process, view, shown, sent,
                    between_preexec_and_precmd, commands, events >>

(* The notifier's callback for an answer the tab gave itself.              *)
ReplyAtOnce ==
    /\ idle # << >> /\ idle' = Tail(idle)
    /\ current_cmdline' = [line |-> command_line, of |-> Head(idle)]
    /\ UNCHANGED << truth, calls, replies, process, polled, inhibit, view, signs, monitor,
                    between_preexec_and_precmd, commands, events >>

(* ptyxis_tab_wait_cb, as far as it is about the foreground.               *)
WaitCb ==
    /\ process # 0 /\ agent # "running"
    /\ process' = 0
    /\ inhibit' = Inhibited(has_foreground_process, program_name, setting)
    /\ UNCHANGED << truth, wire, polled, view, signs, monitor, notify, events >>

(* A dialog asks whether something runs (ptyxis_tab_is_running,            *)
(* ptyxis_tab_has_foreground_process).                                     *)
DialogAsks ==
    /\ Event
    /\ Ask("dialog", 0)
    /\ UNCHANGED << truth, process, inhibit, view, signs, monitor, notify >>

SetSetting ==
    /\ Event
    /\ setting' = ~setting
    /\ inhibit' = Inhibited(has_foreground_process, program_name, setting')
    /\ UNCHANGED << truth, wire, process, polled, rooted, focus, moved, signs, monitor, notify >>

(* The tab leaves its window, for the parking lot or another window: its   *)
(* page, and the attention of it, are gone.                                *)
Unroot ==
    /\ rooted /\ Event
    /\ rooted' = FALSE /\ moved' = TRUE
    /\ inhibit' = FALSE
    /\ focus' = "hidden" /\ attention' = FALSE
    /\ UNCHANGED << truth, wire, process, polled, setting, shown, sent, monitor, notify >>

(* The user looks elsewhere or back: a page that is selected needs no      *)
(* attention (ptyxis_window_notify_selected_page_cb), a tab that gets the *)
(* focus takes its notification back.                                      *)
FocusMoves(f) ==
    /\ rooted /\ f # focus
    /\ Event
    /\ focus' = f
    /\ attention' = (attention /\ f # "tab" /\ ~(f = "away" /\ focus \in {"sibling", "hidden"}))
    /\ shown' = (shown /\ f # "tab")
    /\ UNCHANGED << truth, wire, process, polled, inhibit, rooted, moved, setting, sent, monitor, notify >>

(* ... and comes back or arrives in another one.                           *)
Root ==
    /\ ~rooted /\ Event
    /\ rooted' = TRUE
    /\ UNCHANGED << truth, wire, process, polled, inhibit, setting, focus, moved, signs, monitor, notify >>

-----------------------------------------------------------------------------
(* The monitor *)

(* ptyxis_tab_monitor_queue_update, when the contents change.              *)
ContentsChanged ==
    /\ agent = "running" /\ Event
    /\ source' = TRUE
    /\ current_delay' = IF ~source \/ current_delay > DELAY_MIN_MSEC THEN DELAY_MIN_MSEC ELSE current_delay
    /\ UNCHANGED << truth, wire, process, polled, inhibit, view, signs, is_polling, notify >>

(* ptyxis_tab_monitor_key_pressed_cb, for Return, Ctrl-C and Ctrl-D.       *)
KeyPressed ==
    /\ source /\ focus = "tab" /\ Event
    /\ current_delay' = DELAY_INTERACTIVE_MSEC
    /\ UNCHANGED << truth, wire, process, polled, inhibit, view, signs, source, is_polling, notify >>

(* Wrong: stops asking at the longest delay.                               *)
UpdateSourceGivesUp ==
    /\ source
    /\ IF process = 0
       THEN source' = FALSE /\ UNCHANGED << is_polling, wire, polled >>
       ELSE /\ ~is_polling /\ current_delay < DELAY_MAX_MSEC /\ is_polling' = TRUE
            /\ Ask("monitor", 0) /\ UNCHANGED source
    /\ UNCHANGED << truth, process, inhibit, view, signs, current_delay, notify, events >>

(* ptyxis_tab_monitor_update_source_func, when the delay is over.          *)
UpdateSource ==
    /\ source
    /\ IF process = 0
       THEN source' = FALSE /\ UNCHANGED << is_polling, wire, polled >>
       ELSE /\ ~is_polling /\ is_polling' = TRUE
            /\ Ask("monitor", 0) /\ UNCHANGED source
    /\ UNCHANGED << truth, process, inhibit, view, signs, current_delay, notify, events >>

-----------------------------------------------------------------------------
(* The notifier *)

(* ptyxis_tab_notify_shell_preexec_cb *)
Preexec ==
    /\ marks # << >> /\ Head(marks) = "preexec"
    /\ marks' = Tail(marks)
    /\ between_preexec_and_precmd' = TRUE /\ commands' = commands + 1
    /\ current_cmdline' = NoCommand
    /\ Ask("notify", commands')
    /\ UNCHANGED << gen, agent, fg, shell, ran, process, inhibit, view, signs, monitor, events >>

(* ptyxis_tab_notify_show_notification *)
ShowNotification ==
    /\ attention' = (attention \/ (rooted /\ focus # "tab"))
    /\ IF rooted /\ focus \in {"away", "hidden"}
       THEN shown' = TRUE /\ sent' = sent + 1
       ELSE UNCHANGED << shown, sent >>

(* Wrong: what was notified is not forgotten.                              *)
PrecmdKeeps ==
    /\ marks # << >> /\ Head(marks) = "precmd"
    /\ marks' = Tail(marks) /\ between_preexec_and_precmd' = FALSE
    /\ \/ current_cmdline.line # NoLine /\ ShowNotification
       \/ UNCHANGED signs
    /\ UNCHANGED << gen, agent, fg, shell, ran, wire, process, polled, inhibit, view, monitor,
                    current_cmdline, commands, events >>

(* ptyxis_tab_notify_shell_precmd_cb; a command that took less than        *)
(* TIME_WATERMARK_MSEC is not worth a notification.                        *)
Precmd ==
    /\ marks # << >> /\ Head(marks) = "precmd"
    /\ marks' = Tail(marks)
    /\ \/ current_cmdline.line # NoLine /\ ShowNotification
       \/ UNCHANGED signs
    /\ between_preexec_and_precmd' = FALSE /\ current_cmdline' = NoCommand
    /\ UNCHANGED << gen, agent, fg, shell, ran, wire, process, polled, inhibit, view, monitor, commands, events >>

Next ==
    \/ Spawned \/ Announces \/ Prompts \/ PromptsAgain \/ Exits \/ Unexported
    \/ \E c \in Commands : Executes(c)
    \/ AgentAnswers \/ Reply \/ ReplyAtOnce \/ WaitCb
    \/ DialogAsks \/ SetSetting \/ Unroot \/ Root
    \/ \E f \in {"tab", "sibling", "away", "hidden"} : FocusMoves(f)
    \/ ContentsChanged \/ KeyPressed \/ UpdateSource
    \/ Preexec \/ Precmd

(* The agent and the main loop go on, and a timer that is set goes off.    *)
(* The shell, the user and the end of a process owe nothing.               *)
Fairness ==
    /\ WF_vars(AgentAnswers) /\ WF_vars(Reply) /\ WF_vars(ReplyAtOnce)
    /\ WF_vars(Preexec) /\ WF_vars(Precmd)
    /\ WF_vars(UpdateSource) /\ WF_vars(WaitCb)

Spec == Init /\ [][Next]_vars /\ Fairness

-----------------------------------------------------------------------------
(* Properties *)

(* However late the answers are, there is at most one notification for a   *)
(* command.                                                                *)
AtMostOnePerCommand == sent <= commands

(* While a process runs that once wrote something, the tab finds out what  *)
(* its foreground is, whatever was answered about processes before it.     *)
Watched == process # 0 /\ source
Noticed ==
    <>[](Watched => /\ has_foreground_process <=> fg.line # Shell
                    /\ command_line = fg.line)

(* ... and holds up a logout just while it is a program, as long as the    *)
(* tab stays in its window.                                                *)
InhibitFollows == <>[](Watched /\ ~moved => (inhibit <=> setting /\ fg.line # Shell))

=============================================================================
