-------------------------------- MODULE Device --------------------------------
(***************************************************************************)
(* One installed device, as the `memory-device` commands change it         *)
(* (device_runtime.py: install; device_lifecycle.py: upgrade, rollback,    *)
(* repair, uninstall).  A command is a script of file and service-manager  *)
(* steps; it can be killed between any two of them, a step can fail, and   *)
(* the operator can edit or delete the files between commands.             *)
(*                                                                         *)
(* The text of runtime.json, of an MCP file and of the service definition  *)
(* is a function of the program they name, so each is that program.        *)
(* Commands do not overlap: they are typed by one operator.  The service    *)
(* manager is systemd on Linux and launchd on macOS; the task that Windows  *)
(* keeps beside the definition file is not modelled.                        *)
(***************************************************************************)
EXTENDS Naturals, Sequences

CONSTANTS
  None, Foreign, Torn,  \* no file; text the tool did not write; a half-written file
  Base, Release,        \* the bootstrap runtime; ids an upgrade may install under
  NClients,             \* MCP files, one per agent installation
  MaxFaults, MaxCrashes, MaxEdits   \* bounds: failing steps, kills, operator edits

ASSUME DeviceAssumption ==
  /\ NClients \in Nat /\ MaxFaults \in Nat /\ MaxCrashes \in Nat /\ MaxEdits \in Nat
  /\ Base \notin Release
  /\ {None, Foreign, Torn} \cap (Release \cup {Base}) = {}
  /\ None # Foreign /\ None # Torn /\ Foreign # Torn

VARIABLES
  platform,  \* whose service manager it is, which never changes
  rt,        \* runtime.json
  mcp,       \* the MCP files
  unit,      \* the service definition file
  loaded,    \* the program the service manager is running
  programs,  \* program runtimes on disk
  secrets,   \* key and credential files
  paired,    \* the gateway knows the device
  op,        \* the running command
  spoilt,    \* some switch of programs or repair was cut short, or failed twice
  left       \* faults, kills and edits still to come

vars == <<platform, rt, mcp, unit, loaded, programs, secrets, paired, op, spoilt, left>>
files == <<rt, mcp, unit>>
world == <<platform, loaded, programs, secrets, paired>>

Clients == 1..NClients
Program == Release \cup {Base}
Runtime == [py : Program, prev : Program \cup {None}]
Secret == {"sidecar_key", "device_key", "credential"}

ASSUME NoneIsNoRuntime == None \notin Runtime

-----------------------------------------------------------------------------
(* Scripts.  A step names what it does, the runtime configuration it does  *)
(* it with, the MCP file, and the configuration to go back to if it fails. *)

Do(what, run) == [do |-> what, run |-> run, n |-> 0, undo |-> None]
DoEach(what, run) == [i \in Clients |-> [Do(what, run) EXCEPT !.n = i]]
Undoing(steps, back) == [i \in DOMAIN steps |-> [steps[i] EXCEPT !.undo = back]]

\* _replace_managed_runtime_files: runtime.json first, then each MCP file.
ReplaceFiles(run) == <<Do("replace_runtime", run)>> \o DoEach("replace_mcp", run)

\* write_service_definition(..., enable=True).
WriteService(run) == <<Do("write_unit", run), Do("enable", run)>>

\* Mutant: the service is removed only once the new files are in place.
ActivateServiceLast(old, new) ==
  Undoing(ReplaceFiles(new), old) \o <<Do("remove_service", old)>> \o Undoing(WriteService(new), old)

\* _activate_program_runtime: the old service goes before any file changes;
\* what follows is in the try block.
Activate(old, new) ==
  <<Do("remove_service", old)>> \o Undoing(ReplaceFiles(new) \o WriteService(new), old)

\* Mutant: the except block puts runtime.json back and forgets the MCP files.
RestoreRuntimeOnly(new, old) ==
  <<Do("clear_service", new), Do("replace_runtime", old)>> \o WriteService(old)

\* The except block of _activate_program_runtime.
Restore(new, old) == <<Do("clear_service", new)>> \o ReplaceFiles(old) \o WriteService(old)

\* _activate_program_runtime and the health check its two callers make.
Switch(old, new) == Activate(old, new) \o Undoing(<<Do("health", new)>>, old)

\* What runs after a step has raised: nothing, the except block, or the
\* switch back to the old program when the new one is not healthy.
Recovery(s) ==
  IF s.undo = None THEN << >>
  ELSE IF s.do = "health" THEN Activate(s.run, s.undo) ELSE Restore(s.run, s.undo)

-----------------------------------------------------------------------------
(* Commands                                                                *)

Idle == [name |-> "none", todo |-> << >>, rt |-> None, mcp |-> [i \in Clients |-> None], raised |-> 0]

Begin(name, steps) ==
  /\ op = Idle
  /\ op' = [name |-> name, todo |-> steps, rt |-> rt, mcp |-> mcp, raised |-> 0]
  /\ UNCHANGED <<files, world, spoilt, left>>

\* _invalid_mcp_files is empty: a missing file is not an invalid one.
McpManaged == \A i \in Clients : mcp[i] \in {None, rt.py}
UnitManaged == unit \in {None, rt.py}

Fresh(p) == [py |-> p, prev |-> None]

\* install_device without --resume refuses any file that is already there.
Unoccupied == rt = None /\ unit = None /\ secrets = {} /\ \A i \in Clients : mcp[i] = None

\* install_device with --resume: a credential without its device key is an
\* incomplete state; what exists is kept, what is missing is made.
Resumable == "credential" \in secrets => "device_key" \in secrets

InstallSecrets(run) ==
  (IF "sidecar_key" \in secrets THEN << >> ELSE <<Do("sidecar_key", run)>>)
  \o (IF "credential" \in secrets THEN << >>
      ELSE <<Do("device_key", run), Do("pair", run), Do("credential", run)>>)

InstallService(run, autostart) ==
  (IF unit # None THEN <<Do("verify_unit", run)>>
   ELSE <<Do(IF autostart THEN "write_unit" ELSE "write_unit_only", run)>>)
  \o (IF autostart THEN <<Do("enable", run), Do("ready", run)>> ELSE << >>)

\* Mutant: the MCP files are written in place.
InstallInPlace(run, autostart) ==
  InstallSecrets(run) \o <<Do("create_runtime", run)>>
  \o DoEach("open_mcp", run) \o InstallService(run, autostart)

InstallSteps(run, autostart) ==
  InstallSecrets(run) \o <<Do("create_runtime", run)>> \o DoEach("create_mcp", run)
  \o InstallService(run, autostart)

Install(resume, autostart) ==
  /\ IF resume THEN Resumable ELSE Unoccupied
  /\ Begin("install", InstallSteps(Fresh(Base), autostart))

\* Mutant: the MCP files are not compared with runtime.json.
UpgradeAnyFiles(r) ==
  /\ rt # None /\ UnitManaged
  /\ r \notin programs
  /\ LET new == [py |-> r, prev |-> rt.py]
     IN Begin("upgrade", <<Do("program", new)>> \o Switch(rt, new))

\* A release directory that exists is never installed into again.
Upgrade(r) ==
  /\ rt # None /\ McpManaged /\ UnitManaged
  /\ r \notin programs
  /\ LET new == [py |-> r, prev |-> rt.py]
     IN Begin("upgrade", <<Do("program", new)>> \o Switch(rt, new))

\* The configuration rolled back to remembers no earlier program.
Rollback ==
  /\ rt # None /\ McpManaged
  /\ rt.prev \in programs
  /\ Begin("rollback", Switch(rt, Fresh(rt.prev)))

\* Mutant: repair looks at the service only.
RepairServiceOnly(run) == IF unit = None THEN WriteService(run) ELSE << >>

\* Missing MCP files are written in place, not through a temporary file.
RepairSteps(run) ==
  DoEach("open_mcp", run) \o (IF unit = None THEN WriteService(run)
                              ELSE IF loaded = None THEN <<Do("enable", run)>> ELSE << >>)

Repair ==
  /\ rt # None /\ McpManaged /\ UnitManaged
  /\ Begin("repair", RepairSteps(rt))

PurgeSecrets(run, purge) ==
  IF "credentials" \in purge
  THEN <<Do("unlink_credential", run), Do("unlink_device_key", run), Do("unlink_sidecar_key", run)>>
  ELSE << >>

\* runtime.json is the last file to go, so that a killed uninstall can be run again.
UninstallSteps(run, purge) ==
  <<Do("backup", run), Do("remove_service", run)>> \o DoEach("unlink_mcp", run)
  \o PurgeSecrets(run, purge)
  \o (IF "data" \in purge THEN <<Do("remove_data", run)>> ELSE << >>)
  \o <<Do("unlink_runtime", run)>>

Uninstall(purge) ==
  /\ rt # None /\ McpManaged /\ UnitManaged
  /\ Begin("uninstall", UninstallSteps(rt, purge))

-----------------------------------------------------------------------------
(* Steps                                                                   *)

step == Head(op.todo)
At(what) == op.todo # << >> /\ step.do = what
Done == op' = [op EXCEPT !.todo = Tail(@)]
Raise == op' = [op EXCEPT !.todo = Recovery(step), !.raised = @ + 1]
Spend(f) == left[f] > 0 /\ left' = [left EXCEPT ![f] = @ - 1]

\* Mutant: the slot is not looked at.
SlotUnchecked == FALSE

\* assert_service_slot_available: launchd is asked for the loaded service; systemd only
\* for the path of a definition, which an active service no longer has once the file is
\* gone and the manager has reloaded. (A refusal because a reload failed earlier and
\* systemd still knows the path is one of the failures of StepFails.)
SlotTaken == platform = "macos" /\ loaded # None

\* The checks a step makes itself, before it changes anything.
Blocked ==
  \/ At("replace_runtime") /\ rt = None
  \/ At("replace_mcp") /\ mcp[step.n] = None
  \/ At("create_runtime") /\ rt \notin {None, step.run}
  \/ At("create_mcp") /\ mcp[step.n] \notin {None, step.run.py}
  \/ At("write_unit") /\ (unit # None \/ SlotTaken)
  \/ At("write_unit_only") /\ unit # None
  \/ At("verify_unit") /\ unit # step.run.py
  \/ At("remove_service") /\ unit \notin {None, step.run.py}
  \/ At("pair") /\ paired
  \/ (At("health") \/ At("ready")) /\ loaded = None

\* repair passes over an MCP file that is there.
Skipped == At("open_mcp") /\ mcp[step.n] # None

StepRefused == Blocked /\ Raise /\ UNCHANGED <<files, world, spoilt, left>>

\* Any step can fail without effect (a full disk, a failed subprocess).
StepFails ==
  /\ op.todo # << >> /\ ~Blocked /\ ~Skipped /\ ~At("clear_service")
  /\ Spend("fault") /\ Raise
  /\ UNCHANGED <<files, world, spoilt>>

Go(what) == At(what) /\ ~Blocked /\ Done /\ UNCHANGED <<spoilt, left>>

\* _atomic_replace_text, _atomic_write and _write_or_verify on runtime.json.
WriteRuntime ==
  /\ Go("replace_runtime") \/ Go("create_runtime")
  /\ rt' = step.run
  /\ UNCHANGED <<mcp, unit, world>>

\* The same on an MCP file, and the second half of repair's write_text.
WriteMcp ==
  /\ Go("replace_mcp") \/ Go("create_mcp") \/ Go("fill_mcp")
  /\ mcp' = [mcp EXCEPT ![step.n] = step.run.py]
  /\ UNCHANGED <<rt, unit, world>>

\* The first half of write_text: the file exists and is not valid JSON yet.
OpenMcp ==
  /\ At("open_mcp") /\ ~Skipped
  /\ mcp' = [mcp EXCEPT ![step.n] = Torn]
  /\ op' = [op EXCEPT !.todo[1].do = "fill_mcp"]
  /\ UNCHANGED <<rt, unit, world, spoilt, left>>

SkipMcp == Skipped /\ Done /\ UNCHANGED <<files, world, spoilt, left>>

WriteUnit ==
  /\ Go("write_unit") \/ Go("write_unit_only")
  /\ unit' = step.run.py
  /\ UNCHANGED <<rt, mcp, world>>

\* enable_service_definition starts the service; one that runs is left as it is (systemd)
\* or started again from the definition it was loaded with (launchd).
Enable ==
  /\ Go("enable")
  /\ loaded' = IF loaded = None THEN unit ELSE loaded
  /\ UNCHANGED <<platform, files, programs, secrets, paired>>

\* _remove_service and the unlink after it.
RemoveService ==
  /\ Go("remove_service") \/ Go("clear_service")
  /\ loaded' = None /\ unit' = None
  /\ UNCHANGED <<platform, rt, mcp, programs, secrets, paired>>

\* The manager is asked to stop the service and its answer is ignored
\* (check=False): the old process may go on running, and without the
\* definition file the manager may not find it at all.
StopIgnored ==
  /\ At("remove_service") \/ At("clear_service")
  /\ ~Blocked /\ loaded # None
  /\ IF unit = None THEN left' = left ELSE Spend("fault")
  /\ Done
  /\ unit' = None
  /\ UNCHANGED <<rt, mcp, world, spoilt>>

\* daemon-reload fails (check=True) once the definition is gone; the manager may not
\* have stopped the service either.
ReloadFails ==
  /\ platform = "linux"
  /\ At("remove_service") /\ ~Blocked
  /\ Spend("fault") /\ Raise
  /\ loaded' \in {None, loaded} /\ unit' = None
  /\ UNCHANGED <<platform, rt, mcp, programs, secrets, paired, spoilt>>

\* _install_program_runtime: a staging directory renamed once it is complete.
InstallProgram ==
  /\ Go("program")
  /\ programs' = programs \cup {step.run.py}
  /\ UNCHANGED <<platform, files, loaded, secrets, paired>>

\* The health endpoint, the first sync and the unit's text are as they should be.
StepPasses ==
  /\ Go("health") \/ Go("ready") \/ Go("verify_unit")
  /\ UNCHANGED <<files, world>>

\* _backup_non_sensitive copies the files, to be read by people only.
Backup == Go("backup") /\ UNCHANGED <<files, world>>

\* _safe_remove_tree of the local data directory, which the model leaves out.
RemoveData == Go("remove_data") /\ UNCHANGED <<files, world>>

\* generate_sidecar_key_file, load_or_create_device_identity, write_file_credential.
MakeSecret ==
  \E s \in Secret :
    /\ Go(s)
    /\ secrets' = secrets \cup {s}
    /\ UNCHANGED <<platform, files, loaded, programs, paired>>

\* The gateway registers the device; its answer carries the credential.
PairRequest ==
  /\ Go("pair")
  /\ paired' = TRUE
  /\ UNCHANGED <<platform, files, loaded, programs, secrets>>

\* The answer to the pairing request is lost.
PairAnswerLost ==
  /\ At("pair") /\ ~Blocked
  /\ Spend("fault") /\ Raise
  /\ paired' = TRUE
  /\ UNCHANGED <<platform, files, loaded, programs, secrets, spoilt>>

Unlink ==
  \/ Go("unlink_mcp") /\ mcp' = [mcp EXCEPT ![step.n] = None] /\ UNCHANGED <<rt, unit, world>>
  \/ Go("unlink_runtime") /\ rt' = None /\ UNCHANGED <<mcp, unit, world>>
  \/ \E s \in Secret :
       /\ Go(CASE s = "credential" -> "unlink_credential" [] s = "device_key" -> "unlink_device_key"
               [] s = "sidecar_key" -> "unlink_sidecar_key")
       /\ secrets' = secrets \ {s}
       /\ UNCHANGED <<platform, files, loaded, programs, paired>>

Step ==
  \/ StepRefused \/ StepFails
  \/ WriteRuntime \/ WriteMcp \/ OpenMcp \/ SkipMcp \/ WriteUnit \/ Enable
  \/ RemoveService \/ StopIgnored \/ ReloadFails \/ InstallProgram
  \/ StepPasses \/ Backup \/ RemoveData \/ MakeSecret \/ PairRequest \/ PairAnswerLost \/ Unlink

Changes == {"upgrade", "rollback"}

\* The command returns or raises.
Finish ==
  /\ op # Idle /\ op.todo = << >>
  /\ spoilt' = (spoilt \/ (op.name \in Changes /\ op.raised > 1) \/ (op.name = "repair" /\ op.raised > 0))
  /\ op' = Idle
  /\ UNCHANGED <<files, world, left>>

\* The command is killed.
Crash ==
  /\ op # Idle /\ Spend("crash")
  /\ op' = Idle
  /\ spoilt' = (spoilt \/ op.name \in Changes \cup {"repair"})
  /\ UNCHANGED <<files, world>>

\* The service process ends by itself.
ServiceStops ==
  /\ loaded # None /\ loaded' = None
  /\ UNCHANGED <<platform, files, programs, secrets, paired, op, spoilt, left>>

\* Between commands the operator deletes an MCP file, edits one, or puts a
\* service definition of the same name in place.
OperatorEdits ==
  /\ op = Idle /\ Spend("edit")
  /\ \/ \E i \in Clients, v \in {None, Foreign} :
          mcp[i] # None /\ mcp' = [mcp EXCEPT ![i] = v] /\ unit' = unit
     \/ unit' = Foreign /\ mcp' = mcp
  /\ UNCHANGED <<rt, world, op, spoilt>>

Init ==
  /\ platform \in {"linux", "macos"}
  /\ rt = None /\ mcp = [i \in Clients |-> None] /\ unit = None /\ loaded = None
  /\ programs = {Base} /\ secrets = {} /\ paired = FALSE
  /\ op = Idle /\ spoilt = FALSE
  /\ left = [fault |-> MaxFaults, crash |-> MaxCrashes, edit |-> MaxEdits]

Next ==
  \/ \E resume, autostart \in BOOLEAN : Install(resume, autostart)
  \/ \E r \in Release : Upgrade(r)
  \/ Rollback \/ Repair
  \/ \E purge \in SUBSET {"credentials", "data"} : Uninstall(purge)
  \/ Step \/ Finish \/ Crash \/ ServiceStops \/ OperatorEdits

Spec == Init /\ [][Next]_vars

-----------------------------------------------------------------------------
(* Properties                                                              *)

TypeOK ==
  /\ platform \in {"linux", "macos"}
  /\ rt \in Runtime \cup {None}
  /\ mcp \in [Clients -> Program \cup {None, Foreign, Torn}]
  /\ unit \in Program \cup {None, Foreign} /\ loaded \in Program \cup {None}
  /\ programs \subseteq Program /\ secrets \subseteq Secret
  /\ paired \in BOOLEAN /\ spoilt \in BOOLEAN
  /\ op.raised \in Nat
  /\ \A i \in DOMAIN op.todo : op.todo[i].run \in Runtime /\ op.todo[i].undo \in Runtime \cup {None}

Ended == op # Idle /\ op.todo = << >>

\* A service definition on disk always names the program of runtime.json: in
\* every state of a switch, of a failed switch and of its restoration, and
\* whenever a command is killed.  A reboot never starts another program than
\* the one recorded (the order of _activate_program_runtime).
ServiceMatchesRuntime == unit \in Program => rt # None /\ unit = rt.py

\* What install leaves behind is always reachable from runtime.json, which
\* every maintenance command starts from: it is written before and removed
\* after the MCP files and the service, wherever a command is killed.
RemainsHaveRuntime ==
  rt = None => unit \notin Program /\ \A i \in Clients : mcp[i] \in {None, Foreign}

\* A stored credential always has its device key beside it; otherwise
\* install --resume stops with INSTALL_RESUME_STATE_INCOMPLETE for good.
CredentialHasKey == Resumable

\* In every state, in the middle of a command, after a kill and between commands,
\* the files can be gone on from: a reboot starts the recorded program, nothing is
\* out of the tool's reach, and the device can be installed again.
Consistent == TypeOK /\ ServiceMatchesRuntime /\ RemainsHaveRuntime /\ CredentialHasKey

\* An upgrade or rollback that raised once has put back runtime.json and
\* every MCP file, whichever step it was that raised.
FailedChangeRestoresFiles ==
  Ended /\ op.name \in Changes /\ op.raised = 1 => rt = op.rt /\ mcp = op.mcp

\* Only a switch or a repair that was killed, a switch whose restoration
\* raised too, or a repair that raised can leave an MCP file that disagrees
\* with runtime.json - after which every maintenance command is refused.
\* Install and uninstall, killed anywhere, cannot.
OnlySwitchesSpoil ==
  op = Idle /\ rt # None /\ ~spoilt => \A i \in Clients : mcp[i] \in {None, Foreign, rt.py}

FilesComplete ==
  Ended /\ op.raised = 0 /\ op.name # "uninstall" =>
    /\ rt # None /\ unit = rt.py
    /\ \A i \in Clients : mcp[i] = rt.py

SwitchReplacesProcess ==
  platform = "macos" /\ Ended /\ op.raised = 0 /\ op.name \in Changes => loaded \in {None, rt.py}

\* A command other than uninstall that returns normally leaves all files in place and in
\* agreement, whatever it found, kept or skipped on its way.  After a switch the old process
\* is gone as well, although the answer to stopping it is ignored and the health check does
\* not tell which program answers: write_unit refuses to go on beside a loaded service, but
\* under launchd only.
SuccessIsComplete == FilesComplete /\ SwitchReplacesProcess

\* No step of a command replaces or deletes text the tool did not write.
ForeignUntouched ==
  [][op # Idle =>
       /\ \A i \in Clients : mcp[i] = Foreign => mcp'[i] = Foreign
       /\ unit = Foreign => unit' = Foreign]_vars

-----------------------------------------------------------------------------
(* The inductive invariant: what the steps a command has left say about    *)
(* the files it has written so far.                                        *)

\* The order of the steps in every script.
Rank(do) ==
  CASE do \in {"program", "backup", "sidecar_key", "device_key", "pair"} -> 1
    [] do \in {"credential", "remove_service", "clear_service"} -> 2
    [] do \in {"replace_runtime", "create_runtime"} -> 3
    [] do \in {"replace_mcp", "create_mcp", "open_mcp", "fill_mcp", "unlink_mcp"} -> 4
    [] do \in {"write_unit", "write_unit_only", "verify_unit", "unlink_credential"} -> 5
    [] do \in {"enable", "unlink_device_key", "unlink_sidecar_key", "remove_data"} -> 6
    [] do \in {"health", "ready", "unlink_runtime"} -> 7

SwitchSteps == {"program", "remove_service", "clear_service", "replace_runtime", "replace_mcp",
                "write_unit", "enable", "health"}
InstallKinds == {"sidecar_key", "device_key", "pair", "credential", "create_runtime", "create_mcp",
                 "verify_unit", "write_unit", "write_unit_only", "enable", "ready"}
RepairKinds == {"open_mcp", "fill_mcp", "write_unit", "enable"}
UninstallKinds == {"backup", "remove_service", "unlink_mcp", "unlink_credential", "unlink_device_key",
                   "unlink_sidecar_key", "remove_data", "unlink_runtime"}

Stops == {"remove_service", "clear_service"}
WritesRuntime == {"replace_runtime", "create_runtime"}
WritesMcp == {"replace_mcp", "create_mcp", "open_mcp", "fill_mcp"}
MakesUnit == {"write_unit", "write_unit_only", "verify_unit"}
OnMcp == WritesMcp \cup {"unlink_mcp"}

Kinds == SwitchSteps \cup InstallKinds \cup RepairKinds \cup UninstallKinds
StepType == [do : Kinds, run : Runtime, n : Nat, undo : Runtime \cup {None}]
KindsOf(name) == CASE name \in Changes -> SwitchSteps [] name = "install" -> InstallKinds
                   [] name = "repair" -> RepairKinds [] name = "uninstall" -> UninstallKinds

Members(todo) == {todo[k] : k \in DOMAIN todo}
Pending == Members(op.todo)
Has(K) == \E s \in Pending : s.do \in K
HasFor(K, i) == \E s \in Pending : s.do \in K /\ s.n = i

\* A step x may stand before a step y.
MayPrecede(x, y) ==
  /\ Rank(x.do) <= Rank(y.do)
  /\ x.do \in {"open_mcp", "fill_mcp"} => ~(y.do = "open_mcp" /\ y.n = x.n)

Ordered(todo) == \A i, j \in DOMAIN todo : i < j => MayPrecede(todo[i], todo[j])

OpType ==
  /\ op \in [name : {"none", "install", "repair", "uninstall"} \cup Changes, todo : Seq(StepType),
             rt : Runtime \cup {None}, mcp : [Clients -> Program \cup {None, Foreign, Torn}], raised : Nat]
  /\ op.name = "none" => op = Idle
  /\ Ordered(op.todo)

\* Which steps a command is made of, and with which configuration.
ScriptInv ==
  \A s \in Pending :
    /\ s.do \in KindsOf(op.name)
    /\ s.do \in OnMcp => s.n \in Clients
    /\ s.undo # None => op.name \in Changes /\ s.do \notin Stops \cup {"program"}
    /\ s.do \notin Stops => \A t \in Pending : t.do \notin Stops => t.run = s.run

\* The service goes before the files change, and comes back after; files
\* are written for the configuration that is, or will be, in runtime.json.
OrderInv ==
  /\ Has({"replace_runtime", "unlink_runtime"}) => unit \notin Program \/ Has(Stops)
  /\ \A s \in Pending : s.do \in WritesMcp \cup MakesUnit => rt = s.run \/ Has(WritesRuntime)
  /\ Has({"unlink_runtime"}) => \A i \in Clients : mcp[i] \in {None, Foreign} \/ HasFor({"unlink_mcp"}, i)

\* Keys are made before and deleted after the credential.
SecretsInv ==
  /\ Has({"credential"}) => "device_key" \in secrets \/ Has({"device_key"})
  /\ Has({"unlink_device_key"}) => "credential" \notin secrets \/ Has({"unlink_credential"})

\* What upgrade and rollback change, and what they put back.
RestoreInv ==
  op.name \in Changes =>
    /\ op.rt \in Runtime
    /\ \A i \in Clients : op.mcp[i] \in {None, op.rt.py} /\ (mcp[i] = None <=> op.mcp[i] = None)
    /\ op.raised = 0 => \A s \in Pending :
         IF s.undo = None THEN s.do \in {"program", "remove_service"} /\ rt = op.rt /\ mcp = op.mcp
                          ELSE s.undo = op.rt
    /\ op.raised = 1 =>
         /\ \A s \in Pending : s.do \notin Stops => s.run = op.rt
         /\ rt = op.rt \/ Has({"replace_runtime"})
         /\ \A i \in Clients : mcp[i] = op.mcp[i] \/ HasFor({"replace_mcp"}, i)

\* A command that has not raised has made, or will make, every file.
CompleteInv ==
  op.name \notin {"none", "uninstall"} /\ op.raised = 0 =>
    /\ Has(Stops) => Has(WritesRuntime)
    /\ rt # None \/ Has(WritesRuntime)
    /\ \A i \in Clients : (~Has(WritesRuntime) /\ mcp[i] = rt.py) \/ HasFor(WritesMcp, i)
    /\ (~Has(WritesRuntime) /\ unit = rt.py) \/ Has(MakesUnit)
    /\ platform = "macos" /\ op.name \in Changes => loaded \in {None, rt.py} \/ Has(MakesUnit)
    /\ \A s \in Pending : s.do = "open_mcp" => mcp[s.n] \in {None, rt.py}

\* No command works on files of others.
ForeignInv ==
  /\ op.name \in Changes \cup {"repair", "uninstall"} => \A i \in Clients : mcp[i] # Foreign
  /\ Has({"clear_service"}) => unit # Foreign
  /\ Has({"enable"}) => unit # Foreign \/ Has(MakesUnit)
  /\ (\E s \in Pending : s.undo # None) => unit # Foreign \/ Has({"remove_service"})

\* Install and uninstall leave no MCP file that disagrees with runtime.json.
SpoilInv ==
  op.name \in {"none", "install", "uninstall"} /\ rt # None /\ ~spoilt =>
    \A i \in Clients : mcp[i] \in {None, Foreign, rt.py}

DeviceInv ==
  /\ Consistent /\ OpType /\ ScriptInv /\ OrderInv /\ SecretsInv /\ RestoreInv /\ CompleteInv
  /\ ForeignInv /\ SpoilInv
=============================================================================
