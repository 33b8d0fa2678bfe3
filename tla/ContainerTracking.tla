-------------------------- MODULE ContainerTracking --------------------------
(***************************************************************************)
(* How the UI's list of containers follows podman's                        *)
(* (src/agent/ptyxis-podman-provider.c, ptyxis-container-provider.c,       *)
(* ptyxis-agent-impl.c and src/src/ptyxis-client.c).                       *)
(*                                                                         *)
(* File monitors tell the agent that podman changed something.  After a    *)
(* delay it runs "podman ps" and merges the output into the provider,      *)
(* which announces what came and went to the agent object, which announces *)
(* it to the UI by position.  Four lists have to agree in the end: what    *)
(* podman has, the provider's, the agent's and the UI's copy of it.        *)
(***************************************************************************)
EXTENDS Naturals, Sequences, FiniteSets, SequencesExt

CONSTANTS
    Ids,            \* container ids (hashes, which podman does not reuse)
    Labels,         \* the labels of each, which it keeps
    HasJhbuildrc,   \* whether the user has a ~/.config/jhbuildrc
    MaxVersion,     \* bound: how often a container is defined anew (renamed)
    MaxFailures     \* bound: how often podman fails to run or prints garbage

ASSUME TrackingAssumption ==
    /\ IsFiniteSet(Ids)
    /\ {"session", "jhbuild"} \cap Ids = {}
    /\ Labels \in [Ids -> SUBSET {"manager=distrobox", "manager=apx", "toolbox", "other"}]
    /\ HasJhbuildrc \in BOOLEAN
    /\ MaxVersion \in Nat \ {0}
    /\ MaxFailures \in Nat

VARIABLES
    disk,       \* podman's containers: 0 before, 1.. while, MaxVersion + 1 after they exist
    notified,   \* the watched files of which a monitor has a change to report
    failures,   \* how often podman failed
    queued,     \* provider: an update is queued
    ps,         \* provider: the "podman ps" of an update (is_updating)
    output,     \* what it printed
    provider,   \* provider: the containers, in order
    agent,      \* agent: the exported containers, in order
    listed,     \* agent: has_listed_containers
    toUI,       \* messages on their way to the UI, oldest first
    client,     \* UI: how far ptyxis_client_new is
    mirror      \* UI: the containers, in order

podmanVars == << disk, notified, failures >>
updateVars == << queued, ps, output >>
uiVars     == << client, mirror >>
vars == << podmanVars, updateVars, provider, agent, listed, toUI, uiVars >>

Exists(i)  == disk[i] \in 1 .. MaxVersion
IsUpdating == ps # "off"

(* The labels that tell what made a container, the first one it has counts:*)
(* distrobox may add the toolbox's label too.                              *)
LabelToType == << << "manager=distrobox", "distrobox" >>,
                  << "manager=apx", "distrobox" >>,
                  << "toolbox", "toolbox" >> >>

(* ptyxis_podman_provider_deserialize.                                     *)
TypeOf ==
    [i \in Ids |->
        LET matching == { k \in DOMAIN LabelToType : LabelToType[k][1] \in Labels[i] }
        IN IF matching = {} THEN "podman" ELSE LabelToType[Min(matching)][2]]

(* A container object: the definition of a container when it was read.     *)
Container(i, v, t) == [id |-> i, ver |-> v, type |-> t]
Containers == [id : Ids \cup {"session", "jhbuild"}, ver : 1 .. MaxVersion,
               type : {"podman", "distrobox", "toolbox", "session"}]

(* The agent's own containers, which ptyxis_agent_init adds first.         *)
OwnContainers ==
    << Container("session", 1, "session") >>
        \o (IF HasJhbuildrc THEN << Container("jhbuild", 1, "session") >> ELSE << >>)

IdSet(s)   == { s[k].id : k \in DOMAIN s }
IdSeq(s)   == [k \in DOMAIN s |-> s[k].id]

Listing(all)              == [kind |-> "list", pos |-> 0, removed |-> 0, added |-> all]
Change(pos, n, new)       == [kind |-> "changed", pos |-> pos, removed |-> n, added |-> new]
Messages == [kind : {"list", "changed"}, pos : Nat, removed : {0, 1}, added : Seq(Containers)]

TypeOK ==
    /\ disk \in [Ids -> 0 .. MaxVersion + 1]
    /\ failures \in 0 .. MaxFailures
    /\ notified \subseteq {"containers.json", "db.sql"}
    /\ queued \in BOOLEAN /\ listed \in BOOLEAN
    /\ ps \in {"off", "started", "printed"}
    /\ \A s \in {output, provider, agent, mirror} : s \in Seq(Containers)
    /\ toUI \in Seq(Messages)
    /\ client \in {"starting", "listing", "up"}

(* ptyxis_agent_impl_add_container.                                        *)
Added(to, c) ==
    [agent |-> Append(to.agent, c), sent |-> Append(to.sent, Change(Len(to.agent), 0, << c >>))]

(* ptyxis_agent_impl_add_provider: what the provider has is added.         *)
AddProvider(to, list) == FoldLeft(Added, to, list)

(* What "podman ps --all" may print now: each container, in some order.    *)
Printouts == { [k \in DOMAIN s |-> Container(s[k], disk[s[k]], TypeOf[s[k]])]
                 : s \in SetToSeqs({ i \in Ids : Exists(i) }) }

(* ptyxis_agent_init: monitors are set up, then podman is asked twice at   *)
(* most, and what came of it is handed to the agent.                       *)
Init ==
    /\ disk \in [Ids -> 0 .. 1]
    /\ notified = {} /\ queued = FALSE
    /\ ps = "off" /\ output = << >>
    /\ \/ failures = 0 /\ provider \in Printouts
       \/ failures = 1 /\ failures <= MaxFailures /\ provider = << >>
    /\ agent = AddProvider([agent |-> OwnContainers, sent |-> << >>], provider).agent
    /\ listed = FALSE /\ toUI = << >>
    /\ client = "starting" /\ mirror = << >>

-----------------------------------------------------------------------------
(* A container is created, defined anew or removed (outside the agent):    *)
(* podman itself writes containers.json, a quadlet's shows in db.sql only. *)
PodmanChanges(i) ==
    /\ disk[i] <= MaxVersion
    /\ \E v \in {disk[i] + 1, MaxVersion + 1} : disk' = [disk EXCEPT ![i] = v]
    /\ \E file \in {"containers.json", "db.sql"} : notified' = notified \cup {file}
    /\ UNCHANGED << failures, updateVars, provider, agent, listed, toUI, uiVars >>

(* ptyxis_podman_provider_queue_update.                                    *)
QueueUpdate == queued' = (queued \/ ~IsUpdating)

(* The monitor of containers.json, which queues an update as it is told.   *)
ContainersJsonChanged ==
    /\ "containers.json" \in notified
    /\ notified' = notified \ {"containers.json"}
    /\ QueueUpdate
    /\ UNCHANGED << disk, failures, ps, output, provider, agent, listed, toUI, uiVars >>

(* ptyxis_podman_provider_storage_dir_changed_cb; for any other file of the*)
(* directory it does nothing.                                              *)
StorageDirChanged ==
    /\ "db.sql" \in notified
    /\ notified' = notified \ {"db.sql"}
    /\ QueueUpdate
    /\ UNCHANGED << disk, failures, ps, output, provider, agent, listed, toUI, uiVars >>

Fails == failures < MaxFailures /\ failures' = failures + 1

(* ptyxis_podman_provider_update_source_func.                              *)
UpdateStarts ==
    /\ queued
    /\ queued' = FALSE
    /\ \/ ps' = "started" /\ UNCHANGED failures
       \/ Fails /\ UNCHANGED ps
    /\ UNCHANGED << disk, notified, output, provider, agent, listed, toUI, uiVars >>

(* podman reads its containers and prints them.                            *)
PodmanPrints ==
    /\ ps = "started"
    /\ ps' = "printed"
    /\ output' \in Printouts
    /\ UNCHANGED << podmanVars, queued, provider, agent, listed, toUI, uiVars >>

-----------------------------------------------------------------------------
(* Merging *)

(* The agent's list and the signals it sends while a merge announces.      *)
Position(id, list) == CHOOSE k \in DOMAIN list : list[k].id = id

(* ptyxis_agent_impl_provider_removed_cb.                                  *)
Removed(to, c) ==
    IF c.id \notin IdSet(to.agent) THEN to
    ELSE LET k == Position(c.id, to.agent)
         IN [agent |-> RemoveAt(to.agent, k), sent |-> Append(to.sent, Change(k - 1, 1, << >>))]

(* What the provider's list becomes: containers that stay are replaced by  *)
(* their new objects, new ones follow.                                     *)
Newer(new, c) == new[Position(c.id, new)]

WithIds(list, ids) == FoldLeft(LAMBDA l, c : IF c.id \in ids THEN Append(l, c) ELSE l, << >>, list)

Kept(new)  == WithIds(provider, IdSet(new))
Gone(new)  == WithIds(provider, IdSet(provider) \ IdSet(new))
Fresh(new) == WithIds(new, IdSet(new) \ IdSet(provider))

(* ptyxis_container_provider_merge, with the agent's handlers: removals    *)
(* from the last one down, then additions.                                 *)
Announced(new) ==
    FoldLeft(Added, FoldLeft(Removed, [agent |-> agent, sent |-> << >>], Reverse(Gone(new))), Fresh(new))

(* Wrong: signals before the list of containers was asked for.             *)
EmitsUnlisted(new) ==
    LET kept == Kept(new) IN
    /\ provider' = [k \in DOMAIN kept |-> Newer(new, kept[k])] \o Fresh(new)
    /\ agent' = Announced(new).agent
    /\ toUI' = toUI \o Announced(new).sent

Merge(new) ==
    LET kept == Kept(new) IN
    /\ provider' = [k \in DOMAIN kept |-> Newer(new, kept[k])] \o Fresh(new)
    /\ agent' = Announced(new).agent
    /\ toUI' = IF listed THEN toUI \o Announced(new).sent ELSE toUI

(* ptyxis_podman_provider_communicate_cb.                                  *)
UpdateDone ==
    /\ ps = "printed"
    /\ ps' = "off"
    /\ output' = << >>
    /\ \/ Merge(output) /\ UNCHANGED failures
       \/ Fails /\ UNCHANGED << provider, agent, toUI >>
    /\ UNCHANGED << disk, notified, queued, listed, uiVars >>

-----------------------------------------------------------------------------
(* The UI connects *)

(* ptyxis_client_new connects to the signals and asks for the list, and    *)
(* waits for the answer without running its main loop.                     *)
Connect ==
    /\ client = "starting"
    /\ client' = "listing"
    /\ UNCHANGED << podmanVars, updateVars, provider, agent, listed, toUI, mirror >>

(* ptyxis_agent_impl_handle_list_containers.                               *)
AgentListsContainers ==
    /\ client = "listing" /\ ~listed
    /\ listed' = TRUE
    /\ toUI' = Append(toUI, Listing(agent))
    /\ UNCHANGED << podmanVars, updateVars, provider, agent, uiVars >>

(* Wrong: connects to the signals once the answer is there.                *)
ConnectsAfterListing ==
    /\ client = "listing"
    /\ \E k \in DOMAIN toUI :
          /\ toUI[k].kind = "list"
          /\ mirror' = mirror \o toUI[k].added
          /\ toUI' = << >>
    /\ client' = "up"
    /\ UNCHANGED << podmanVars, updateVars, provider, agent, listed >>

(* The answer is taken wherever it is; signals wait for the main loop.     *)
GotListing ==
    /\ client = "listing"
    /\ \E k \in DOMAIN toUI :
          /\ toUI[k].kind = "list"
          /\ mirror' = mirror \o toUI[k].added
          /\ toUI' = RemoveAt(toUI, k)
    /\ client' = "up"
    /\ UNCHANGED << podmanVars, updateVars, provider, agent, listed >>

(* ptyxis_client_containers_changed_cb; an array refuses a position that   *)
(* it does not have.                                                       *)
Changed(list, m) ==
    IF m.pos + m.removed > Len(list) THEN list
    ELSE SubSeq(list, 1, m.pos) \o m.added \o SubSeq(list, m.pos + m.removed + 1, Len(list))

GotChange ==
    /\ client = "up" /\ toUI # << >>
    /\ mirror' = Changed(mirror, Head(toUI))
    /\ toUI' = Tail(toUI)
    /\ UNCHANGED << podmanVars, updateVars, provider, agent, listed, client >>

-----------------------------------------------------------------------------
MonitorFires == ContainersJsonChanged \/ StorageDirChanged

AgentStep == MonitorFires \/ UpdateStarts \/ PodmanPrints \/ UpdateDone \/ AgentListsContainers
UIStep    == Connect \/ GotListing \/ GotChange

Next == (\E i \in Ids : PodmanChanges(i)) \/ AgentStep \/ UIStep

Safety == Init /\ [][Next]_vars

(* Both main loops dispatch something that is due as long as there is any, *)
(* and podman ends.  Nothing makes anybody change a container.             *)
Spec == Safety /\ WF_vars(AgentStep) /\ WF_vars(UIStep)

-----------------------------------------------------------------------------
(* Properties *)

(* The UI's copy, changed by every message that is still on its way, is    *)
(* the agent's list: however merges, the first listing and the main loops  *)
(* interleave, no position sent is off, no change is lost or counted twice.*)
(* And the agent, which finds a container by its id, holds the containers  *)
(* of the provider, which finds it by object or by id, in the same order   *)
(* (after the agent's own), each once.                                     *)
ListsAgree ==
    /\ listed => FoldLeft(Changed, mirror, toUI) = agent
    /\ IdSeq(agent) = IdSeq(OwnContainers) \o IdSeq(provider)
    /\ IsInjective(IdSeq(agent))

(* An update that is queued brings the UI's list up to date: a container   *)
(* podman has (or does not have any more) while an update is queued        *)
(* appears (or goes), unless it changes in between or podman fails.        *)
QueuedUpdateArrives ==
    \A i \in Ids :
        /\ (queued /\ failures = MaxFailures /\ Exists(i)) ~> (i \in IdSet(mirror) \/ ~Exists(i))
        /\ (queued /\ failures = MaxFailures /\ disk[i] > MaxVersion) ~> i \notin IdSet(mirror)
=============================================================================
