------------------------------ MODULE Workspace ------------------------------
(***************************************************************************)
(* The files of an installation beside the running agent: its workspace    *)
(* with the documents, the skills and their .bak copies, and config.json.  *)
(* Commands change them, each a process of its own, without a lock:        *)
(* `picoclaw migrate` (pkg/migrate) copies from an installation of         *)
(* OpenClaw in steps that may fail or be the last; `picoclaw skills`       *)
(* (pkg/skills, cmd/picoclaw/main.go) installs and removes skills;         *)
(* `picoclaw onboard` writes templates; the user and the agent edit.       *)
(*                                                                         *)
(* A text is a number; texts the user or the agent writes are positive and *)
(* all different.                                                          *)
(***************************************************************************)
EXTENDS MigrateConfig, Sequences, FiniteSets, SequencesExt

CONSTANTS
  Docs,                  (* AGENTS.md, SOUL.md, ..., files of memory        *)
  Skills,                (* names of skills; each has a directory           *)
  OpenClawConfigs,       (* configurations of OpenClaw                      *)
  NoConfig, TornConfig,  (* a config.json is missing, does not parse        *)
  Values,                (* texts of fields of configurations               *)
  MaxEdits, MaxRuns, MaxInstalls, MaxFaults  (* bounds                      *)

VARIABLES
  src,                   (* the files of OpenClaw's workspace               *)
  stray,                 (* its skills with a SKILL.md.bak beside SKILL.md  *)
  raw,                   (* OpenClaw's configuration                        *)
  dst, bak,              (* the files of the workspace, their .bak copies   *)
  dirs,                  (* the directories of skills in the workspace      *)
  config,                (* config.json                                     *)
  mig,                   (* the migration under way                         *)
  install,               (* the installation of a skill under way           *)
  edits, runs, installs, faults,           (* counters of the bounds        *)
  before, touched        (* history: the files as the last migration with   *)
                         (* backups found them, and who else changed them   *)

files    == <<src, stray, raw, dst, bak, dirs, config>>
counters == <<edits, runs, installs, faults>>
history  == <<before, touched>>
vars     == <<files, mig, install, counters, history>>

Files == Docs \cup Skills

ASSUME WorkspaceAssumption ==
  /\ Docs \cap Skills = {} /\ IsFiniteSet(Files)
  /\ \A b \in {MaxEdits, MaxRuns, MaxInstalls, MaxFaults} : b \in Nat
  /\ MaxEdits # 0

ASSUME ValuesAssumption == {"", "default", "own", "oauth"} \subseteq Values

\* getString and getBool give nothing but a string and a Boolean.
ASSUME OpenClawAssumption ==
  \A c \in OpenClawConfigs \ {NoConfig, TornConfig} :
    /\ \A k \in {"model", "search"} \cap DOMAIN c : c[k] \in Values
    /\ \A p \in DOMAIN c.providers :
         \A k \in {"api_key", "api_base"} \cap DOMAIN c.providers[p] : c.providers[p][k] \in Values
    /\ \A n \in DOMAIN c.channels :
         /\ "enabled" \in DOMAIN c.channels[n] => c.channels[n].enabled \in BOOLEAN
         /\ "token" \in DOMAIN c.channels[n] => c.channels[n].token \in Values

Absent   == 0
Torn     == -1      \* cut short
Template == -2      \* written by onboard
Online   == -3      \* of the skill on GitHub
Bundled  == -4      \* of the builtin skill
Stray    == -5      \* a .bak file of OpenClaw's
Texts    == 1 .. MaxEdits

NoMigration == [at |-> "idle", todo |-> <<>>, refresh |-> FALSE, errors |-> FALSE,
                config |-> NoConfig, loaded |-> NoConfig]
NoInstall   == [at |-> "idle", skill |-> "none"]

Fault     == faults < MaxFaults /\ faults' = faults + 1
NoFault   == UNCHANGED faults
Touch(fs) == touched' = touched \cup fs /\ UNCHANGED before

Init ==
  /\ src \in [Files -> {Absent, 1}] /\ raw \in OpenClawConfigs
  /\ stray \in SUBSET {s \in Skills : src[s] # Absent}
  /\ dst = [f \in Files |-> Absent] /\ bak = dst /\ dirs = {}
  /\ config = NoConfig
  /\ mig = NoMigration /\ install = NoInstall
  /\ edits = 1 /\ runs = 0 /\ installs = 0 /\ faults = 0
  /\ before = dst /\ touched = {}

-----------------------------------------------------------------------------
(* The user and the agent.                                                 *)

\* A file of the workspace is written, or one of OpenClaw, which is still in use.
Edit(f) ==
  /\ edits < MaxEdits /\ edits' = edits + 1
  /\ \/ /\ dst' = [dst EXCEPT ![f] = edits']
        /\ dirs' = dirs \cup ({f} \cap Skills)
        /\ UNCHANGED src
     \/ src' = [src EXCEPT ![f] = edits'] /\ UNCHANGED <<dst, dirs>>
  /\ Touch({f})
  /\ UNCHANGED <<stray, raw, bak, config, mig, install, runs, installs, faults>>

\* config.json is edited, or written by a login.
Settings(c) ==
  {[c EXCEPT !.providers[p].api_key = "own"] : p \in SupportedProviders} \cup
  {[c EXCEPT !.providers[p].api_base = "own"] : p \in SupportedProviders \cap {"vllm"}} \cup
  {[c EXCEPT !.providers[p].auth_method = "oauth"] : p \in SupportedProviders \cap {"anthropic", "openai"}} \cup
  {[c EXCEPT !.channels[n] = [enabled |-> TRUE, token |-> "own"]] : n \in DOMAIN c.channels}

EditConfig ==
  /\ edits < MaxEdits /\ edits' = edits + 1
  /\ config \notin {NoConfig, TornConfig} /\ config' \in Settings(config)
  /\ UNCHANGED <<src, stray, raw, dst, bak, dirs, mig, install, runs, installs, faults, history>>

\* onboard writes the default configuration, over another one if the user agrees,
\* and the templates of documents that are missing.
Onboard ==
  /\ runs < MaxRuns /\ runs' = runs + 1
  /\ config' = DefaultConfig
  /\ dst' = [f \in Files |-> IF f \in Docs /\ dst[f] = Absent THEN Template ELSE dst[f]]
  /\ Touch({f \in Files : dst'[f] # dst[f]})
  /\ UNCHANGED <<src, stray, raw, bak, dirs, mig, install, edits, installs, faults>>

-----------------------------------------------------------------------------
(* migrate.                                                                *)

Action(type, f) == [type |-> type, f |-> f]

\* Mutant: only missing files are copied unless there are backups.
PlanFileCopy_OnlyNew(f, force) ==
  Action(IF src[f] = Absent \/ (force /\ dst[f] # Absent) THEN "skip"
         ELSE IF dst[f] # Absent THEN "backup" ELSE "copy", f)

\* planFileCopy
PlanFileCopy(f, force) ==
  Action(IF src[f] = Absent THEN "skip"
         ELSE IF dst[f] # Absent /\ ~force THEN "backup" ELSE "copy", f)

\* PlanWorkspaceMigration: the documents of a list, found or not; the skills that
\* are found, each after its directory and before its .bak file.  (A .bak file
\* in OpenClaw's memory is copied in the same way; not one beside the documents.)
PlanWorkspace(force) ==
  [i \in 1 .. Cardinality(Docs) |-> PlanFileCopy(SetToSeq(Docs)[i], force)]
    \o LET found == SetToSeq({s \in Skills : src[s] # Absent})
       IN  [i \in 1 .. 3 * Len(found) |->
              LET s == found[(i + 2) \div 3]
              IN  CASE i % 3 = 1 -> Action("mkdir", s)
                    [] i % 3 = 2 -> PlanFileCopy(s, force)
                    [] OTHER     -> Action(IF s \in stray THEN "stray" ELSE "skip", s)]

\* Run and Plan, with the flags --force, --refresh, --config-only and
\* --workspace-only, the last of which is implied by --refresh; --refresh with
\* --config-only has nothing to do.  --config-only needs a configuration.
Migrate(force, refresh, flags) ==
  /\ mig = NoMigration /\ runs < MaxRuns /\ runs' = runs + 1
  /\ Cardinality(flags) < 2
  /\ ~("config" \in flags /\ ~refresh /\ raw = NoConfig)
  /\ LET convert == IF refresh \/ "workspace" \in flags \/ raw = NoConfig THEN <<>>
                    ELSE <<Action("config", "config")>>
         copies  == IF "config" \in flags THEN <<>> ELSE PlanWorkspace(force \/ refresh)
     IN  /\ mig' = [NoMigration EXCEPT !.at = IF force THEN "run" ELSE "confirm",
                                       !.todo = convert \o copies,
                                       !.refresh = refresh /\ copies # <<>>]
         /\ before' = [f \in Files |-> IF force \/ refresh \/ copies = <<>> THEN Absent ELSE dst[f]]
  /\ touched' = {}
  /\ UNCHANGED <<files, install, edits, installs, faults>>

Confirm(yes) ==
  /\ mig.at = "confirm"
  /\ mig' = IF yes THEN [mig EXCEPT !.at = "run"] ELSE NoMigration
  /\ UNCHANGED <<files, install, counters, history>>

At(place, types) == mig.at = place /\ mig.todo # <<>> /\ Head(mig.todo).type \in types
File  == Head(mig.todo).f
Goto(place) == mig' = [mig EXCEPT !.at = place]
Done        == mig' = [mig EXCEPT !.at = "run", !.todo = Tail(@)]
Failed      == mig' = [mig EXCEPT !.at = "run", !.todo = Tail(@), !.errors = TRUE]
InMigration == UNCHANGED <<src, stray, raw, install, edits, runs, installs, history>>

MigrateSkip ==
  /\ At("run", {"skip"}) /\ Done
  /\ UNCHANGED <<dst, bak, dirs, config, faults>> /\ InMigration

MigrateDir ==
  /\ At("run", {"mkdir"})
  /\ \/ dirs' = dirs \cup {File} /\ Done /\ NoFault
     \/ Fault /\ Failed /\ UNCHANGED dirs
  /\ UNCHANGED <<dst, bak, config>> /\ InMigration

\* executeConfigMigration: an existing file is loaded and merged; a file of either
\* side that does not parse is an error.
LoadAndMerge ==
  /\ At("run", {"config"})
  /\ IF raw = TornConfig \/ config = TornConfig THEN Failed
     ELSE mig' = [mig EXCEPT !.at = "save", !.loaded = config,
                             !.config = IF config = NoConfig THEN ConvertConfig(raw)
                                        ELSE MergeConfig(config, ConvertConfig(raw))]
  /\ UNCHANGED <<dst, bak, dirs, config, faults>> /\ InMigration

SaveConfig ==
  /\ At("save", {"config"})
  /\ \/ config' = mig.config /\ Done /\ NoFault
     \/ Fault /\ Failed /\ config' \in {config, TornConfig}
  /\ UNCHANGED <<dst, bak, dirs>> /\ InMigration

\* copyFile(Destination, Destination + ".bak") opens, cuts short and writes; if it
\* fails the action is over.
BackupOpen ==
  /\ At("run", {"backup"})
  /\ \/ dst[File] # Absent /\ bak' = [bak EXCEPT ![File] = Torn] /\ Goto("backup") /\ NoFault
     \/ dst[File] = Absent /\ Failed /\ UNCHANGED bak /\ NoFault
     \/ Fault /\ Failed /\ UNCHANGED bak
  /\ UNCHANGED <<dst, dirs, config>> /\ InMigration

\* Mutant: a failed backup is reported, and the file overwritten.
BackupWrite_GoOn ==
  /\ At("backup", {"backup"})
  /\ \/ bak' = [bak EXCEPT ![File] = IF @ = Absent THEN @ ELSE dst[File]] /\ Goto("copy") /\ NoFault
     \/ Fault /\ Goto("copy") /\ UNCHANGED bak
  /\ UNCHANGED <<dst, dirs, config>> /\ InMigration

BackupWrite ==
  /\ At("backup", {"backup"})
  /\ \/ bak' = [bak EXCEPT ![File] = IF @ = Absent THEN @ ELSE dst[File]] /\ Goto("copy") /\ NoFault
     \/ Fault /\ Failed /\ UNCHANGED bak
  /\ UNCHANGED <<dst, dirs, config>> /\ InMigration

\* MkdirAll, and copyFile(Source, Destination), in two steps as well.
CopyOpen ==
  /\ At("run", {"copy"}) \/ At("copy", {"backup"})
  /\ \/ /\ src[File] # Absent
        /\ dirs' = dirs \cup ({File} \cap Skills)
        /\ dst' = [dst EXCEPT ![File] = Torn] /\ Goto("write") /\ NoFault
     \/ Fault /\ Failed /\ UNCHANGED <<dst, dirs>>
  /\ UNCHANGED <<bak, config>> /\ InMigration

\* A skill that was removed in between is a deleted file, which is written in vain.
CopyWrite ==
  /\ At("write", {"copy", "backup"})
  /\ \/ dst' = [dst EXCEPT ![File] = IF @ = Absent THEN @ ELSE src[File]] /\ Done /\ NoFault
     \/ Fault /\ Failed /\ UNCHANGED dst
  /\ UNCHANGED <<bak, dirs, config>> /\ InMigration

\* A .bak file of OpenClaw's is a file like any other, which is written where the
\* backup of the file without .bak is; the backup that it may have itself,
\* .bak.bak, is left out.
CopyStray ==
  /\ \/ /\ At("run", {"stray"}) /\ Goto("write") /\ NoFault
        /\ dirs' = dirs \cup {File} /\ bak' = [bak EXCEPT ![File] = Torn]
     \/ /\ At("write", {"stray"}) /\ Done /\ NoFault
        /\ bak' = [bak EXCEPT ![File] = IF @ = Absent THEN @ ELSE Stray] /\ UNCHANGED dirs
     \/ /\ At("run", {"stray"}) \/ At("write", {"stray"})
        /\ Fault /\ Failed /\ UNCHANGED <<bak, dirs>>
  /\ UNCHANGED <<dst, config>> /\ InMigration

\* PrintSummary; or the user interrupts the program.
MigrateEnd ==
  /\ mig # NoMigration
  /\ \/ mig.at = "run" /\ mig.todo = <<>> /\ NoFault
     \/ Fault
  /\ mig' = NoMigration
  /\ UNCHANGED <<files, install, edits, runs, installs, history>>

-----------------------------------------------------------------------------
(* skills.                                                                 *)

SkillStep == UNCHANGED <<src, stray, raw, config, mig, edits, runs>>

\* InstallFromGitHub: the directory must not exist; then the file is fetched, ...
InstallBegin(s) ==
  /\ install = NoInstall /\ installs < MaxInstalls /\ installs' = installs + 1
  /\ s \notin dirs
  /\ install' = [at |-> "fetch", skill |-> s]
  /\ UNCHANGED <<dst, bak, dirs, faults, history>> /\ SkillStep

\* ... the directory made, ...
InstallDir ==
  /\ install.at = "fetch"
  /\ \/ /\ dirs' = dirs \cup {install.skill}
        /\ install' = [install EXCEPT !.at = "write"] /\ NoFault
     \/ Fault /\ install' = NoInstall /\ UNCHANGED dirs
  /\ UNCHANGED <<dst, bak, installs, history>> /\ SkillStep

\* ... and the file written.
InstallWrite ==
  /\ install.at = "write"
  /\ install' = NoInstall
  /\ LET s == install.skill
     IN  \/ s \in dirs /\ dst' = [dst EXCEPT ![s] = Online] /\ NoFault
         \/ s \notin dirs /\ UNCHANGED dst /\ NoFault
         \/ Fault /\ dst' \in {dst, [dst EXCEPT ![s] = Torn]} /\ s \in dirs
  /\ Touch({install.skill})
  /\ UNCHANGED <<bak, dirs, installs>> /\ SkillStep

\* Mutant: only the file of the skill is removed.
Uninstall_File(s) ==
  /\ s \in dirs /\ installs < MaxInstalls /\ installs' = installs + 1
  /\ dirs' = dirs \ {s}
  /\ dst' = [dst EXCEPT ![s] = Absent] /\ UNCHANGED bak
  /\ Touch({s})
  /\ UNCHANGED <<install, faults>> /\ SkillStep

\* RemoveAll takes the .bak copies of the directory with it.
Uninstall(s) ==
  /\ s \in dirs /\ installs < MaxInstalls /\ installs' = installs + 1
  /\ dirs' = dirs \ {s}
  /\ dst' = [dst EXCEPT ![s] = Absent] /\ bak' = [bak EXCEPT ![s] = Absent]
  /\ Touch({s})
  /\ UNCHANGED <<install, faults>> /\ SkillStep

\* skills install-builtin copies over what is there; here the program brings every
\* skill.
InstallBuiltin ==
  /\ installs < MaxInstalls /\ installs' = installs + 1
  /\ dirs' = Skills
  /\ \E copied \in SUBSET Skills :
       /\ \/ copied = Skills /\ NoFault
          \/ copied # Skills /\ Fault
       /\ dst' = [f \in Files |-> IF f \in copied THEN Bundled ELSE dst[f]]
       /\ Touch(copied)
  /\ UNCHANGED <<bak, install>> /\ SkillStep

-----------------------------------------------------------------------------
Next ==
  \/ \E f \in Files : Edit(f)
  \/ EditConfig
  \/ Onboard
  \/ \E force, refresh \in BOOLEAN : \E flags \in SUBSET {"config", "workspace"} :
       Migrate(force, refresh, flags)
  \/ \E yes \in BOOLEAN : Confirm(yes)
  \/ MigrateSkip
  \/ MigrateDir
  \/ LoadAndMerge
  \/ SaveConfig
  \/ BackupOpen
  \/ BackupWrite
  \/ CopyOpen
  \/ CopyWrite
  \/ CopyStray
  \/ MigrateEnd
  \/ \E s \in Skills : InstallBegin(s)
  \/ InstallDir
  \/ InstallWrite
  \/ \E s \in Skills : Uninstall(s)
  \/ InstallBuiltin

Spec == Init /\ [][Next]_vars

-----------------------------------------------------------------------------
(* Properties.                                                             *)

Config == [model : Values, search : Values,
           providers : [SupportedProviders -> [api_key : Values, api_base : Values, auth_method : Values]],
           channels : [SupportedChannels \cup {"slack"} -> [enabled : BOOLEAN, token : Values]]]

\* Every variable keeps to the values the code can give it; a skill has a file or a
\* backup only in its directory.
TypeOK ==
  /\ src \in [Files -> {Absent} \cup Texts] /\ raw \in OpenClawConfigs
  /\ stray \subseteq Skills
  /\ dst \in [Files -> Texts \cup {Absent, Torn, Template, Online, Bundled}]
  /\ bak \in [Files -> Texts \cup {Absent, Torn, Template, Online, Bundled, Stray}]
  /\ dirs \subseteq Skills
  /\ \A s \in Skills \ dirs : dst[s] = Absent /\ bak[s] = Absent
  /\ \A c \in {config, mig.config, mig.loaded} : c \in Config \/ c \in {NoConfig, TornConfig}
  /\ mig.at \in {"idle", "confirm", "run", "save", "backup", "copy", "write"}
  /\ \A i \in DOMAIN mig.todo : mig.todo[i].type \in {"skip", "backup", "copy", "stray", "mkdir", "config"}
  /\ install.at \in {"idle", "fetch", "write"} /\ install.skill \in Skills \cup {"none"}
  /\ touched \subseteq Files

\* A migration without --force or --refresh loses no text: what a file held when it
\* was planned is in the file or in its .bak copy, whichever step fails or is the
\* last, unless somebody else wrote the file meanwhile; or unless OpenClaw has a
\* .bak file of that name, which takes the place of the backup.
OriginalSurvives ==
  \A f \in Files \ (touched \cup stray) : before[f] # Absent => before[f] \in {dst[f], bak[f]}

\* A step of a migration that changes config.json keeps what is in use there: the
\* providers that Keeps names, the channels that are enabled, the search key and
\* the model; unless somebody else wrote the file after the migration read it,
\* whose change is lost, or the write fails.  It does not keep the auth_method of
\* a login to a provider without an API key.
ConfigKept ==
  [][config' # config /\ ~EditConfig /\ ~Onboard =>
       \/ config' = TornConfig
       \/ config = NoConfig
       \/ config # mig.loaded
       \/ Keeps(config', config)]_vars

\* A --refresh that has files to copy and reports no error has made the workspace
\* equal to OpenClaw's, in the files that nobody else touched.
RefreshSyncs ==
  mig.at = "run" /\ mig.todo = <<>> /\ mig.refresh /\ ~mig.errors =>
    \A f \in Files \ touched : src[f] # Absent => dst[f] = src[f]
=============================================================================
