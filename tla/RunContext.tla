------------------------------ MODULE RunContext ------------------------------
(***************************************************************************)
(* How the agent runs a command through layers of other commands           *)
(* (src/agent/ptyxis-run-context.c, ptyxis-unix-fd-map.c and the handlers  *)
(* in ptyxis-podman-container.c and ptyxis-distrobox-container.c).         *)
(*                                                                         *)
(* A context is a stack of layers over a root.  Each has a command, an     *)
(* environment, a directory and a map of file descriptors for the child.   *)
(* Spawning unwinds the stack: the handler of the top layer writes what    *)
(* that layer asks for into the one below, until the root is left, which   *)
(* becomes the child.  Descriptors are moved, never copied.                *)
(***************************************************************************)
EXTENDS Integers, Sequences, SequencesExt

CONSTANTS
    Fds,            \* file descriptors handed to the context
    Dests,          \* their numbers in the child
    Keys, Vals,     \* of environment variables
    Dirs,
    RootEnv,        \* the agent's own environment
    Unset, NoDir, NoFd,
    Sandboxed,      \* the agent runs in a sandbox
    MaxLayers,      \* bound: layers, the root included
    MaxEdits        \* bound: calls that describe the command

ASSUME ContextAssumption ==
    /\ Dests \subseteq Nat
    /\ Unset \notin Vals /\ NoDir \notin Dirs /\ NoFd \notin Fds
    /\ RootEnv \in [Keys -> Vals \cup {Unset}]
    /\ Sandboxed \in BOOLEAN
    /\ MaxLayers \in Nat \ {0} /\ MaxEdits \in Nat

VARIABLES
    phase,      \* "building", "unwinding", "spawned", "failed", "disposed"
    top,        \* the current layer
    layer,      \* what each layer asks for
    fds,        \* its map: the descriptor behind a number of the child's
    closes,     \* how often a descriptor was closed (here, not in the child)
    taken,      \* the descriptors handed over so far
    child,      \* the descriptors the child got
    edits,
    asked       \* what the top layer asked for when spawning began

describeVars == << layer, edits, asked >>
fdVars       == << fds, closes, taken, child >>
vars         == << phase, top, describeVars, fdVars >>

Phases == {"building", "unwinding", "spawned", "failed", "disposed"}
Levels == 1 .. MaxLayers
Kinds  == {"root", "default", "shell", "error", "scope", "host", "podman", "toolbox", "distrobox"}
Env    == [Keys -> Vals \cup {Unset}]
FdMap  == [Dests -> Fds \cup {NoFd}]
NoEnv  == [k \in Keys |-> Unset]
NoFds  == [d \in Dests |-> NoFd]

(* One word of a command that matters: the program, or a command that runs *)
(* the rest with the environment, directory and descriptors that it passes.*)
Word(cmd, env, cwd, passes) == [cmd |-> cmd, env |-> env, cwd |-> cwd, passes |-> passes]
Words == [cmd : Kinds \cup {"program", "env"}, env : Env, cwd : Dirs \cup {NoDir}, passes : SUBSET Dests]

Layer(kind) == [kind |-> kind, env |-> NoEnv, cwd |-> NoDir, argv |-> << >>]

TypeOK ==
    /\ phase \in Phases
    /\ top \in Levels
    /\ \A l \in Levels : /\ layer[l].kind \in Kinds /\ layer[l].env \in Env
                         /\ layer[l].cwd \in Dirs \cup {NoDir} /\ layer[l].argv \in Seq(Words)
    /\ fds \in [Levels -> FdMap]
    /\ closes \in [Fds -> Nat]
    /\ taken \subseteq Fds
    /\ child \in FdMap
    /\ edits \in 0 .. MaxEdits

(* ptyxis_run_context_init: the root has the agent's environment.          *)
Init ==
    /\ phase = "building" /\ top = 1
    /\ layer = [l \in Levels |-> [Layer("root") EXCEPT !.env = IF l = 1 THEN RootEnv ELSE NoEnv]]
    /\ fds = [l \in Levels |-> NoFds]
    /\ closes = [f \in Fds |-> 0]
    /\ taken = {} /\ child = NoFds
    /\ edits = 0
    /\ asked = [env |-> NoEnv, cwd |-> NoDir, fds |-> NoFds, all |-> [d \in Dests |-> {}]]

Held(l) == { fds[l][d] : d \in Dests } \ {NoFd}
Closed(S) == closes' = [f \in Fds |-> IF f \in S THEN closes[f] + 1 ELSE closes[f]]

-----------------------------------------------------------------------------
(* Building *)

(* ptyxis_run_context_push and those that call it; push_host does nothing  *)
(* out of the sandbox.                                                     *)
Push(kind) ==
    /\ phase = "building" /\ top < MaxLayers
    /\ kind = "host" => Sandboxed
    /\ top' = top + 1
    /\ layer' = [layer EXCEPT ![top + 1] = Layer(kind)]
    /\ UNCHANGED << phase, edits, asked, fdVars >>

Edit(new) ==
    /\ phase = "building"
    /\ edits < MaxEdits /\ edits' = edits + 1
    /\ layer' = [layer EXCEPT ![top] = new]
    /\ UNCHANGED << phase, top, asked, fdVars >>

(* ptyxis_run_context_setenv, which unsets when there is no value.         *)
Setenv(k, v)    == Edit([layer[top] EXCEPT !.env[k] = v])
SetCwd(dir)     == Edit([layer[top] EXCEPT !.cwd = dir])
AppendProgram   == Edit([layer[top] EXCEPT !.argv = Append(@, Word("program", NoEnv, NoDir, {}))])

(* Wrong: the descriptor that is replaced is forgotten.                    *)
TakeFdLeaks(f, d) ==
    /\ phase = "building" /\ f \notin taken
    /\ edits < MaxEdits /\ edits' = edits + 1
    /\ taken' = taken \cup {f}
    /\ fds' = [fds EXCEPT ![top][d] = f]
    /\ UNCHANGED << phase, top, layer, asked, child, closes >>

(* ptyxis_run_context_take_fd and ptyxis_unix_fd_map_take: a descriptor    *)
(* that is replaced is closed.                                             *)
TakeFd(f, d) ==
    /\ phase = "building" /\ f \notin taken
    /\ edits < MaxEdits /\ edits' = edits + 1
    /\ taken' = taken \cup {f}
    /\ fds' = [fds EXCEPT ![top][d] = f]
    /\ Closed({fds[top][d]} \ {NoFd})
    /\ UNCHANGED << phase, top, layer, asked, child >>

(* ptyxis_run_context_spawn_with_flags begins; a context spawns once.      *)
Spawn ==
    /\ phase = "building"
    /\ phase' = "unwinding"
    /\ asked' = [env |-> layer[top].env, cwd |-> layer[top].cwd, fds |-> fds[top],
                 all |-> [d \in Dests |-> { fds[l][d] : l \in Levels } \ {NoFd}]]
    /\ UNCHANGED << top, layer, edits, fdVars >>

-----------------------------------------------------------------------------
(* Handlers: what the layer below asks for when it has taken up's wishes.  *)

Overlay(e, f) == [k \in Keys |-> IF f[k] = Unset THEN e[k] ELSE f[k]]

Runs(low, words) == [low EXCEPT !.argv = @ \o words]

(* ptyxis_run_context_default_handler.                                     *)
Default(up, low) ==
    LET placed == [low EXCEPT !.cwd = IF up.cwd # NoDir THEN up.cwd ELSE @] IN
    IF up.argv = << >> THEN [placed EXCEPT !.env = Overlay(@, up.env)]
    ELSE IF up.env = NoEnv THEN Runs(placed, up.argv)
    ELSE Runs(placed, << Word("env", up.env, NoDir, Dests) >> \o up.argv)

(* ptyxis_run_context_shell_handler.                                       *)
Shell(up, low) ==
    Runs([low EXCEPT !.cwd = IF up.cwd # NoDir THEN up.cwd ELSE @],
         << Word("shell", up.env, NoDir, Dests) >> \o up.argv)

(* ptyxis_run_context_push_scope_cb.                                       *)
Scope(up, low) ==
    Runs([low EXCEPT !.cwd = up.cwd, !.env = up.env], << Word("scope", NoEnv, NoDir, Dests) >> \o up.argv)

(* Wrong: asks which descriptors there are when they were moved.           *)
ForwardedNone(map) == {}

(* --forward-fd, for what is not standard input or output.                 *)
Forwarded(map) == { d \in Dests : d > 1 /\ map[d] # NoFd }

(* ptyxis_run_context_host_handler.                                        *)
Host(up, low, map) ==
    Runs(low, << Word("host", up.env, up.cwd, (Dests \cap {0, 1}) \cup Forwarded(map)) >> \o up.argv)

(* --preserve-fds: all numbers up to the largest one.                      *)
Preserved(map) == { d \in Dests : d <= 2 \/ \E e \in Dests : map[e] # NoFd /\ d <= e }

(* ptyxis_podman_container_run_context_cb.                                 *)
Podman(up, low, map) ==
    Runs(low, << Word(up.kind, up.env, IF up.kind = "toolbox" THEN up.cwd ELSE NoDir, Preserved(map)) >> \o up.argv)

(* ptyxis_distrobox_container_run_context_cb, for a directory that exists. *)
Distrobox(up, low, map) ==
    Runs([low EXCEPT !.cwd = IF up.cwd # NoDir THEN up.cwd ELSE @],
         << Word("distrobox", up.env, NoDir, Preserved(map)) >> \o up.argv)

Handled(up, low, map) ==
    CASE up.kind = "default"               -> Default(up, low)
      [] up.kind = "shell"                 -> Shell(up, low)
      [] up.kind = "scope"                 -> Scope(up, low)
      [] up.kind = "host"                  -> Host(up, low, map)
      [] up.kind \in {"podman", "toolbox"} -> Podman(up, low, map)
      [] up.kind = "distrobox"             -> Distrobox(up, low, map)
      [] OTHER                             -> low

(* A handler fails when it is there to fail, when two layers want two      *)
(* directories, and when both have a descriptor for the same number.       *)
Refuses(up, low) ==
    \/ up.kind = "error"
    \/ up.kind = "default" /\ up.cwd # NoDir /\ low.cwd # NoDir /\ up.cwd # low.cwd

Collides(a, b) == \E d \in Dests : a[d] # NoFd /\ b[d] # NoFd

(* ptyxis_unix_fd_map_steal_from moves what is at the numbers in D.        *)
Moved(D) == [fds EXCEPT ![top - 1] = [d \in Dests |-> IF d \in D THEN fds[top][d] ELSE @[d]],
                        ![top] = NoFds]

Free(a, b) == { d \in Dests : a[d] # NoFd /\ b[d] = NoFd }

(* ptyxis_run_context_callback_layer, when the handler succeeds.           *)
Unwind ==
    /\ phase = "unwinding" /\ top > 1
    /\ ~Refuses(layer[top], layer[top - 1]) /\ ~Collides(fds[top], fds[top - 1])
    /\ layer' = [layer EXCEPT ![top - 1] = Handled(layer[top], @, fds[top]), ![top] = Layer("root")]
    /\ fds' = Moved(Free(fds[top], fds[top - 1]))
    /\ top' = top - 1
    /\ UNCHANGED << phase, closes, taken, child, edits, asked >>

(* ... and when it fails: what comes before a collision was moved, the     *)
(* rest is closed with the layer.                                          *)
UnwindFails ==
    /\ phase = "unwinding" /\ top > 1
    /\ LET free == Free(fds[top], fds[top - 1]) IN
       \E D \in SUBSET free :
          /\ \/ Refuses(layer[top], layer[top - 1]) /\ D = {}
             \/ ~Refuses(layer[top], layer[top - 1]) /\ Collides(fds[top], fds[top - 1])
          /\ fds' = Moved(D)
          /\ Closed({ fds[top][d] : d \in Dests \ D } \ {NoFd})
    /\ phase' = "failed"
    /\ top' = top - 1
    /\ layer' = [layer EXCEPT ![top] = Layer("root")]
    /\ UNCHANGED << taken, child, edits, asked >>

(* The root is left: the launcher takes its descriptors and closes them    *)
(* once the child has them, or has not come to be.                         *)
Fork ==
    /\ phase = "unwinding" /\ top = 1
    /\ \/ phase' = "spawned" /\ child' = fds[1]
       \/ phase' = "failed" /\ UNCHANGED child
    /\ fds' = [fds EXCEPT ![1] = NoFds]
    /\ Closed(Held(1))
    /\ UNCHANGED << top, layer, taken, edits, asked >>

(* ptyxis_run_context_dispose.                                             *)
Dispose ==
    /\ phase \in {"building", "spawned", "failed"}
    /\ phase' = "disposed"
    /\ Closed(UNION { Held(l) : l \in Levels })
    /\ fds' = [l \in Levels |-> NoFds]
    /\ UNCHANGED << top, layer, taken, child, edits, asked >>

Next ==
    \/ \E kind \in Kinds \ {"root"} : Push(kind)
    \/ \E k \in Keys, v \in Vals \cup {Unset} : Setenv(k, v)
    \/ \E dir \in Dirs : SetCwd(dir)
    \/ AppendProgram
    \/ \E f \in Fds, d \in Dests : TakeFd(f, d)
    \/ Spawn \/ Unwind \/ UnwindFails \/ Fork \/ Dispose

Spec == Init /\ [][Next]_vars

-----------------------------------------------------------------------------
(* Properties *)

(* A descriptor that was handed over is either in one map, once, or closed *)
(* exactly once (a second close would hit whatever got its number since);  *)
(* a context that is gone has closed each that it was given.               *)
IsHeld(f) == \E l \in Levels, d \in Dests : fds[l][d] = f

InBooks ==
    /\ \A l, m \in Levels, d, e \in Dests :
          fds[l][d] = fds[m][e] => fds[l][d] = NoFd \/ (l = m /\ d = e)
    /\ \A f \in Fds : IsHeld(f) => f \in taken
    /\ \A f \in Fds : closes[f] = IF f \in taken /\ ~IsHeld(f) THEN 1 ELSE 0

Conserved ==
    /\ InBooks
    /\ phase = "disposed" => \A f \in taken : closes[f] = 1

(* What the program sees when the command with all its wrappers runs.      *)
Step(s, w) ==
    CASE w.cmd = "program"   -> s
      [] w.cmd = "host"      -> [env |-> Overlay(NoEnv, w.env), cwd |-> w.cwd, fds |-> s.fds \cap w.passes]
      [] w.cmd \in {"podman", "toolbox"} ->
                                [env |-> Overlay(NoEnv, w.env), cwd |-> w.cwd, fds |-> s.fds \cap w.passes]
      [] w.cmd = "distrobox" -> [env |-> Overlay(NoEnv, w.env), cwd |-> s.cwd, fds |-> s.fds \cap w.passes]
      [] OTHER               -> [s EXCEPT !.env = Overlay(@, w.env)]

Seen ==
    FoldLeft(Step, [env |-> layer[1].env, cwd |-> layer[1].cwd,
                    fds |-> { d \in Dests : child[d] # NoFd }], layer[1].argv)

(* However the layers are stacked, the program sees what its own layer     *)
(* asked for: every variable, the directory (a plain podman container has  *)
(* its own), and every descriptor at its number, past all wrappers.  The   *)
(* descriptors of the layers below get to the child as well.               *)
ProgramSeesItsLayer ==
    phase = "spawned" =>
        /\ \A k \in Keys : asked.env[k] # Unset => Seen.env[k] = asked.env[k]
        /\ asked.cwd # NoDir =>
              \/ Seen.cwd = asked.cwd
              \/ \E i \in DOMAIN layer[1].argv : layer[1].argv[i].cmd = "podman"
        /\ \A d \in Dests : /\ asked.fds[d] # NoFd => d \in Seen.fds
                            /\ asked.all[d] = {child[d]} \ {NoFd}
=============================================================================
