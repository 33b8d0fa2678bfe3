-------------------------- MODULE SettingsMigration --------------------------
(* tools/migrate-ptyxis-settings.sh: the settings of Ptyxis are copied to one  *)
(* of the two targets of the terminal, and a target is rolled back to what was *)
(* there before, while the programs go on writing their settings, commands    *)
(* fail and the script is killed. Every dconf command is a step, and every    *)
(* file of a state directory that a later run depends on.                     *)
(* The script runs under set -e: a command that fails outside of a condition  *)
(* ends it. Dry runs and the status command write nothing and are left out.   *)
EXTENDS Integers, Sequences

CONSTANTS SettingKeys, Vals,   \* settings
          NoDump,       \* a file that is not there
          MaxRuns,      \* bounds the state directories
          MaxChanges,   \* bounds the changes of settings by programs
          MaxFailures   \* bounds the commands that fail

ASSUME MigrationAssumption == /\ MaxRuns \in Nat /\ MaxChanges \in Nat /\ MaxFailures \in Nat

Targets == {"production", "development"}
Namespaces == Targets \cup {"source"}

(* /com/goreecloud/Terminal/Devel/ is below /com/goreecloud/Terminal/.        *)
Under(target) == IF target = "production" THEN Targets ELSE {target}

Settings == UNION {[keys -> Vals] : keys \in SUBSET SettingKeys}

ASSUME SnapshotAssumption == \A target \in Targets : NoDump \notin [Under(target) -> Settings]

NoSettings == [k \in {} |-> k]

VARIABLES
    dconf,       \* the settings in each namespace
    states,      \* the state directories, in the order they were made
    step,        \* what the script does next, or "idle"
    job,         \* what it was asked for
    files,       \* its temporary files: the dumps it took
    disturbed,   \* history: another program wrote since the script dumped the target
    migrated,    \* history: targets that a migration wrote to, until a reset
    changes, failures

migrationVars == <<dconf, states, step, job, files, disturbed, migrated, changes, failures>>

Idle == [operation |-> "none", target |-> "production", state |-> 0]
NoDumps == [source |-> NoDump, before |-> NoDump, after |-> NoDump]

(* dconf dump, load and reset -f of a subtree. A load goes over what is there. *)
Dump(target) == [n \in Under(target) |-> dconf[n]]
Empty(dump) == \A n \in DOMAIN dump : dump[n] = NoSettings
Relative(settings, target) ==
    [n \in Under(target) |-> IF n = target THEN settings ELSE NoSettings]
Over(new, old) ==
    [k \in DOMAIN new \cup DOMAIN old |-> IF k \in DOMAIN new THEN new[k] ELSE old[k]]
Loaded(dump) ==
    [n \in Namespaces |-> IF n \in DOMAIN dump THEN Over(dump[n], dconf[n]) ELSE dconf[n]]
Cleared(target) == [n \in Namespaces |-> IF n \in Under(target) THEN NoSettings ELSE dconf[n]]

MigrationInit ==
    /\ dconf = [n \in Namespaces |-> NoSettings]
    /\ states = <<>> /\ step = "idle" /\ job = Idle /\ files = NoDumps
    /\ disturbed = FALSE /\ migrated = {} /\ changes = 0 /\ failures = 0

(* The script ends: its temporary files go, and what it has written stays.    *)
Exits ==
    /\ step' = "idle" /\ job' = Idle /\ files' = NoDumps
    /\ UNCHANGED <<changes, migrated>>

Goes(next) == step' = next /\ UNCHANGED <<job, changes, migrated>>
KeepsDconf == UNCHANGED <<dconf, disturbed>>

(* ---- Both commands ------------------------------------------------------- *)
(* A rollback names the state directory of a migration to the same target.    *)
Run(operation, target, state) ==
    /\ step = "idle" /\ Len(states) < MaxRuns
    /\ operation = "rollback" =>
         /\ state \in DOMAIN states
         /\ states[state].operation = "migrate" /\ states[state].target = target
         /\ states[state].before # NoDump
    /\ operation = "migrate" => state = 0
    /\ step' = "dump-source"
    /\ job' = [operation |-> operation, target |-> target, state |-> state]
    /\ disturbed' = FALSE
    /\ UNCHANGED <<dconf, states, files, migrated, changes, failures>>

DumpsSource ==
    /\ step = "dump-source"
    /\ files' = [files EXCEPT !.source = dconf["source"]]
    /\ Goes("dump-target")
    /\ KeepsDconf /\ UNCHANGED <<states, failures>>

(* Wrong: only what is directly in the target is looked at.                   *)
DumpsOwn ==
    /\ step = "dump-target"
    /\ LET before == Dump(job.target)
       IN  IF job.operation = "migrate"
              /\ (files.source = NoSettings \/ before[job.target] # NoSettings)
           THEN Exits
           ELSE files' = [files EXCEPT !.before = before] /\ Goes("make-state")
    /\ KeepsDconf /\ UNCHANGED <<states, failures>>

(* A migration needs something to copy and an empty target.                   *)
DumpsTarget ==
    /\ step = "dump-target"
    /\ LET before == Dump(job.target)
       IN  IF job.operation = "migrate" /\ (files.source = NoSettings \/ ~Empty(before))
           THEN Exits
           ELSE files' = [files EXCEPT !.before = before] /\ Goes("make-state")
    /\ KeepsDconf /\ UNCHANGED <<states, failures>>

(* make_state_dir and write_manifest                                         *)
MakesState ==
    /\ step = "make-state"
    /\ states' = Append(states, [operation |-> job.operation, target |-> job.target,
                                 before |-> NoDump, result |-> "none"])
    /\ Goes("copy-before")
    /\ KeepsDconf /\ UNCHANGED <<files, failures>>

(* Wrong: the target is written first and its copy kept afterwards.           *)
CopiesBeforeLater ==
    /\ step = "copy-before"
    /\ Goes(IF job.operation = "migrate" THEN "load" ELSE "reset")
    /\ KeepsDconf /\ UNCHANGED <<files, failures, states>>

(* target-before.dconf, or target-before-rollback.dconf                       *)
CopiesBefore ==
    /\ step = "copy-before"
    /\ states' = [states EXCEPT ![Len(states)].before = files.before]
    /\ Goes(IF job.operation = "migrate" THEN "load" ELSE "reset")
    /\ KeepsDconf /\ UNCHANGED <<files, failures>>

(* ---- migrate -------------------------------------------------------------- *)
Loads ==
    /\ step = "load"
    /\ dconf' = Loaded(Relative(files.source, job.target))
    /\ migrated' = migrated \cup {job.target}
    /\ step' = "dump-after"
    /\ UNCHANGED <<states, job, files, disturbed, changes, failures>>

(* The one command whose failure is handled: the target is restored.          *)
LoadFails ==
    /\ step = "load" /\ failures < MaxFailures
    /\ failures' = failures + 1
    /\ Goes("restore-reset")
    /\ KeepsDconf /\ UNCHANGED <<states, files>>

DumpsAfter ==
    /\ step = "dump-after"
    /\ files' = [files EXCEPT !.after = Dump(job.target)]
    /\ Goes("validate")
    /\ KeepsDconf /\ UNCHANGED <<states, failures>>

(* The target has to be what was read of the source, and the source what it was. *)
Validates ==
    /\ step = "validate"
    /\ IF files.after = Relative(files.source, job.target) /\ dconf["source"] = files.source
       THEN /\ states' = [states EXCEPT ![Len(states)].result = "success"]
            /\ Exits
       ELSE Goes("restore-reset") /\ UNCHANGED <<states, files>>
    /\ KeepsDconf /\ UNCHANGED failures

(* ---- restore_target_from_snapshot, verify_snapshot_matches_target --------- *)
(* The target is reset: to the snapshot of the migration, which is empty for   *)
(* every one of them, so that nothing is left to load; or, when a rollback did *)
(* not verify, to what was there before it.                                  *)
Resets ==
    /\ step \in {"reset", "restore-reset"}
    /\ dconf' = Cleared(job.target)
    /\ migrated' = migrated \ Under(job.target)
    /\ CASE step = "reset" \/ job.operation = "migrate" ->
              step' = "verify" /\ UNCHANGED <<job, files, changes>>
         [] OTHER ->
              IF Empty(files.before)
              THEN step' = "idle" /\ job' = Idle /\ files' = NoDumps /\ UNCHANGED changes
              ELSE step' = "restore-load" /\ UNCHANGED <<job, files, changes>>
    /\ UNCHANGED <<states, disturbed, failures>>

RestoresBefore ==
    /\ step = "restore-load"
    /\ dconf' = Loaded(files.before)
    /\ Exits
    /\ UNCHANGED <<states, disturbed, failures>>

(* Compares a dump of the target with the empty snapshot. In this condition a  *)
(* dump that fails leaves an empty file and goes unnoticed.                  *)
Verifies ==
    /\ step = "verify"
    /\ \E failed \in BOOLEAN :
         /\ failures' = failures + (IF failed THEN 1 ELSE 0) /\ failures' <= MaxFailures
         /\ LET same == failed \/ Empty(Dump(job.target))
            IN  IF job.operation = "migrate"
                THEN /\ Exits
                     /\ states' = IF same
                                  THEN [states EXCEPT ![Len(states)].result = "restored"]
                                  ELSE states
                ELSE /\ Goes(IF same THEN "check-source" ELSE "restore-reset")
                     /\ UNCHANGED <<files, states>>
    /\ KeepsDconf

(* The source has to be what it was; the rollback is done in any case.        *)
ChecksSource ==
    /\ step = "check-source"
    /\ states' = IF dconf["source"] = files.source
                 THEN [states EXCEPT ![Len(states)].result = "success"]
                 ELSE states
    /\ Exits
    /\ KeepsDconf /\ UNCHANGED failures

(* ---- What can happen at any time ------------------------------------------ *)
(* set -e: any other dconf command that fails ends the script there.          *)
CommandFails ==
    /\ step \in {"dump-source", "dump-target", "dump-after", "validate", "reset",
                 "restore-reset", "restore-load", "check-source"}
    /\ failures < MaxFailures
    /\ failures' = failures + 1
    /\ Exits
    /\ KeepsDconf /\ UNCHANGED states

Killed ==
    /\ step # "idle"
    /\ Exits
    /\ KeepsDconf /\ UNCHANGED <<states, failures>>

(* Ptyxis and the terminal write their settings.                             *)
ProgramWrites(n, settings) ==
    /\ changes < MaxChanges /\ settings # dconf[n]
    /\ changes' = changes + 1
    /\ dconf' = [dconf EXCEPT ![n] = settings]
    /\ disturbed' = (disturbed \/ step \notin {"idle", "dump-source", "dump-target"})
    /\ UNCHANGED <<states, step, job, files, migrated, failures>>

MigrationNext ==
    \/ \E operation \in {"migrate", "rollback"}, target \in Targets, state \in 0..MaxRuns :
         Run(operation, target, state)
    \/ DumpsSource \/ DumpsTarget \/ MakesState \/ CopiesBefore
    \/ Loads \/ LoadFails \/ DumpsAfter \/ Validates
    \/ Resets \/ RestoresBefore \/ Verifies \/ ChecksSource
    \/ CommandFails \/ Killed
    \/ \E n \in Namespaces, settings \in Settings : ProgramWrites(n, settings)

MigrationSpec == MigrationInit /\ [][MigrationNext]_migrationVars
----------------------------------------------------------------------------
(* Wherever a run was killed or failed, the settings that it copied can be     *)
(* taken back: a state directory has the manifest and the snapshot that        *)
(* rollback asks for, and the snapshot is of an empty target (the order of the *)
(* steps of "migrate --apply").                                                *)
CanRollBack ==
    \A target \in migrated :
      \E s \in DOMAIN states : /\ states[s].operation = "migrate" /\ states[s].target = target
                               /\ states[s].before # NoDump /\ Empty(states[s].before)

(* A migration never mixes settings: unless another program writes after the   *)
(* script read the target, what is in the target after the copy, below it too, *)
(* is the source as it was read (has_values of the target's dump, dconf load). *)
NeverMerges ==
    (step \in {"dump-after", "validate"} /\ ~disturbed)
    => Dump(job.target) = Relative(files.source, job.target)
=============================================================================
