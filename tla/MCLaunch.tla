------------------------------- MODULE MCLaunch -------------------------------
(* Two tabs; the session, a podman container without the user's shell and  *)
(* a distrobox.  The agent's sandbox does not have the user's shell, and   *)
(* the host has no bash.                                                   *)
EXTENDS Launch, TLC

CONSTANTS t1, t2, session, pod1, box1

TwoTabs == {t1, t2}
ThreeContainers == {session, pod1, box1}
Kinds3 == (session :> "session") @@ (pod1 :> "podman") @@ (box1 :> "distrobox")
Shells3 == (session :> {"preferred", "sh"}) @@ (pod1 :> {"sh", "bash"}) @@ (box1 :> {"preferred"})
AtFirst3 == (session :> {"running"}) @@ (pod1 :> {"stopped"}) @@ (box1 :> {"stopped"})

Wanted(command, login, preserve, dir) ==
    [command |-> command, login |-> login, preserve |-> preserve, dir |-> dir]

OfSandbox == {"sh", "bash"}
TwoProfiles == { Wanted("none", TRUE, "safe", "sandbox"), Wanted("broken", FALSE, "never", "unknown") }

Used == (t1 :> {session, pod1}) @@ (t2 :> {pod1, box1})
LaunchTwice == (t1 :> 2) @@ (t2 :> 1)
=============================================================================
