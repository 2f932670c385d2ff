--------------------------- MODULE StorageMigration ---------------------------
(***************************************************************************)
(* The migration of the object storage to another backend: the job and its *)
(* manifest in the database (domain/storage_migrations.rs), the backend and*)
(* the maintenance gate in the memory of the control API                   *)
(* (infra/storage/manager.rs), the writes of the other handlers, and the   *)
(* handlers that request a migration                                       *)
(* (features/api/v1/admin/storage/migrations.rs).                          *)
(*                                                                         *)
(* A write holds the gate shared from the check of the maintenance flag to *)
(* the end of the write; the sweep holds it exclusively.  An object is its *)
(* content, Absent when there is none.  A finished job is overwritten by   *)
(* the next, only one at a time being active (ux_storage_migration_jobs_   *)
(* active).  A copy that fails leaves anything in the target.  MaxFaults   *)
(* bounds the crashes of the process and the errors of the database that   *)
(* keep a result from being recorded or acknowledged.  Backends that differ*)
(* are different storages: the code refuses a target equal to the source,  *)
(* and other credentials of the same storage are not represented.          *)
(***************************************************************************)
EXTENDS Integers, FiniteSets

CONSTANTS
    Backends, Keys, Contents,
    Absent,           \* no object
    NoBackend,
    Requests,         \* handlers that create migrations
    First,            \* the backend set up first
    MaxFaults

ASSUME StorageMigrationAssumption ==
    /\ Absent \notin Contents
    /\ NoBackend \notin Backends /\ First \in Backends
    /\ MaxFaults \in Nat

VARIABLES
    content,          \* what each backend holds
    setting,          \* storage.config, in the database
    job,              \* the latest row of storage_migration_jobs
    object,           \* its rows of storage_migration_objects
    runtime,          \* the backend in use, in memory
    maintenance,      \* the flag, in memory
    sweep,            \* where the sweep is
    writing,          \* writes under way: the backend each has taken
    request,          \* requests under way: where each is and what it read
    faults,
    stored,           \* history: what the last write of each key left
    exposed           \* history: the ways past the gate that were taken

vars == <<content, setting, job, object, runtime, maintenance, sweep, writing,
          request, faults, stored, exposed>>

Object == Contents \cup {Absent}
Copying == {"pending", "running", "succeeded", "failed"}

NoJob == [status |-> "none", source |-> NoBackend, target |-> NoBackend]
NoRequest == [at |-> "idle", source |-> NoBackend, target |-> NoBackend]

Active == job.status \in {"pending", "running"}

(* The sweep has the gate from enter_maintenance on.                       *)
Holding == sweep \notin {"idle", "gate", "record"}

-------------------------------------------------------------------------------
Init ==
    /\ content = [b \in Backends |-> [k \in Keys |-> Absent]]
    /\ setting = First
    /\ job = NoJob
    /\ object = [k \in Keys |-> "none"]
    /\ runtime = First
    /\ maintenance = FALSE
    /\ sweep = "idle"
    /\ writing = [k \in Keys |-> NoBackend]
    /\ request = [r \in Requests |-> NoRequest]
    /\ faults = 0
    /\ stored = [k \in Keys |-> Absent]
    /\ exposed = {}

-------------------------------------------------------------------------------
(* write_lock: refused in maintenance, else the gate and the backend.      *)
BeginWrite(k) ==
    /\ writing[k] = NoBackend
    /\ ~maintenance /\ ~Holding
    /\ writing' = [writing EXCEPT ![k] = runtime]
    /\ UNCHANGED <<content, setting, job, object, runtime, maintenance, sweep, request,
                   faults, stored, exposed>>

(* The object is put or removed, and the gate left.                        *)
EndWrite(k, c) ==
    /\ writing[k] # NoBackend
    /\ content' = [content EXCEPT ![writing[k]][k] = c]
    /\ stored' = [stored EXCEPT ![k] = c]
    /\ writing' = [writing EXCEPT ![k] = NoBackend]
    /\ UNCHANGED <<setting, job, object, runtime, maintenance, sweep, request, faults, exposed>>

-------------------------------------------------------------------------------
(* create: the settings that are the source of the job.  The handler asked *)
(* has_active before it probed the target, long enough ago for any answer. *)
Load(r, target) ==
    /\ request[r].at = "idle"
    /\ target # setting
    /\ request' = [request EXCEPT ![r] = [at |-> "loaded", source |-> setting, target |-> target]]
    /\ UNCHANGED <<content, setting, job, object, runtime, maintenance, sweep, writing,
                   faults, stored, exposed>>

(* Mutant: the manifest of the last job is taken over.                     *)
Insert_KeepsManifest(r) ==
    /\ request[r].at = "loaded"
    /\ ~Active
    /\ job' = [status |-> "pending", source |-> request[r].source, target |-> request[r].target]
    /\ exposed' = exposed \cup (IF request[r].source # setting THEN {"stale_source"} ELSE {})
    /\ request' = [request EXCEPT ![r].at = "inserted"]
    /\ UNCHANGED <<content, setting, object, runtime, maintenance, sweep, writing, faults, stored>>

(* ... the row, and with it no manifest; another job may have come and     *)
(* gone since the settings were read.                                      *)
Insert(r) ==
    /\ request[r].at = "loaded"
    /\ ~Active
    /\ job' = [status |-> "pending", source |-> request[r].source, target |-> request[r].target]
    /\ object' = [k \in Keys |-> "none"]
    /\ exposed' = exposed \cup (IF request[r].source # setting THEN {"stale_source"} ELSE {})
    /\ request' = [request EXCEPT ![r].at = "inserted"]
    /\ UNCHANGED <<content, setting, runtime, maintenance, sweep, writing, faults, stored>>

(* ... the unique index refuses a second active job.                       *)
InsertRefused(r) ==
    /\ request[r].at = "loaded"
    /\ Active
    /\ request' = [request EXCEPT ![r] = NoRequest]
    /\ UNCHANGED <<content, setting, job, object, runtime, maintenance, sweep, writing,
                   faults, stored, exposed>>

(* The sweep is through with the job.                                      *)
Over == sweep = "record" \/ (~Active /\ ~Holding)

(* ... mark_maintenance, whatever has become of the job.                   *)
Mark(r) ==
    /\ request[r].at = "inserted"
    /\ maintenance' = TRUE
    /\ request' = [request EXCEPT ![r] = NoRequest]
    /\ exposed' = exposed \cup (IF Over THEN {"late_mark"} ELSE {})
    /\ UNCHANGED <<content, setting, job, object, runtime, sweep, writing, faults, stored>>

-------------------------------------------------------------------------------
(* sweep, every two seconds: the flag, then the gate.                      *)
SweepStart ==
    /\ sweep = "idle"
    /\ Active
    /\ maintenance' = TRUE
    /\ sweep' = "gate"
    /\ UNCHANGED <<content, setting, job, object, runtime, writing, request, faults, stored, exposed>>

(* The gate opens once the writes under way have ended; process_job marks  *)
(* the job running and takes up what an interrupted attempt left.          *)
ProcessStart ==
    /\ sweep = "gate"
    /\ \A k \in Keys : writing[k] = NoBackend
    /\ job' = [job EXCEPT !.status = "running"]
    /\ object' = [k \in Keys |-> IF object[k] \in {"running", "failed"} THEN "pending" ELSE object[k]]
    /\ sweep' = "list"
    /\ UNCHANGED <<content, setting, runtime, maintenance, writing, request, faults, stored, exposed>>

(* ensure_object_manifest: what the source holds, unless there are rows.   *)
ListObjects ==
    /\ sweep = "list"
    /\ object' = IF \E k \in Keys : object[k] # "none"
                 THEN object
                 ELSE [k \in Keys |-> IF content[job.source][k] = Absent THEN "none" ELSE "pending"]
    /\ sweep' = "copy"
    /\ UNCHANGED <<content, setting, job, runtime, maintenance, writing, request, faults, stored, exposed>>

CopyStart(k) ==
    /\ sweep = "copy"
    /\ object[k] = "pending"
    /\ \A l \in Keys : object[l] # "running"
    /\ object' = [object EXCEPT ![k] = "running"]
    /\ UNCHANGED <<content, setting, job, runtime, maintenance, sweep, writing, request,
                   faults, stored, exposed>>

(* copy_and_verify, mark_object_succeeded.                                 *)
CopyEnd(k) ==
    /\ sweep = "copy"
    /\ object[k] = "running"
    /\ content[job.source][k] # Absent
    /\ content' = [content EXCEPT ![job.target][k] = content[job.source][k]]
    /\ object' = [object EXCEPT ![k] = "succeeded"]
    /\ UNCHANGED <<setting, job, runtime, maintenance, sweep, writing, request, faults, stored, exposed>>

(* A source that is gone or changed its size, or a target that differs.    *)
CopyFails(k, c) ==
    /\ sweep = "copy"
    /\ object[k] = "running"
    /\ content' = [content EXCEPT ![job.target][k] = c]
    /\ object' = [object EXCEPT ![k] = "failed"]
    /\ sweep' = "failed"
    /\ UNCHANGED <<setting, job, runtime, maintenance, writing, request, faults, stored, exposed>>

(* Any other error of process_job before its last commit, also before it   *)
(* has marked the job running.                                             *)
ProcessFails ==
    /\ \/ sweep = "gate" /\ \A k \in Keys : writing[k] = NoBackend
       \/ sweep \in {"list", "copy"}
    /\ sweep' = "failed"
    /\ UNCHANGED <<content, setting, job, object, runtime, maintenance, writing, request,
                   faults, stored, exposed>>

(* ensure_all_objects_succeeded, and the settings and the job in one       *)
(* transaction.                                                            *)
Copied == \A k \in Keys : object[k] \in {"none", "succeeded"}

Commit ==
    /\ sweep = "copy"
    /\ Copied
    /\ setting' = job.target
    /\ job' = [job EXCEPT !.status = "succeeded"]
    /\ UNCHANGED <<content, object, runtime, maintenance, writing, request, stored>>

CommitSwitch ==
    /\ Commit
    /\ sweep' = "replace"
    /\ UNCHANGED <<faults, exposed>>

(* The commit took place, its answer was lost: process_job returns before  *)
(* replace_backend, and record_job_failure leaves what has succeeded.      *)
CommitUnacknowledged ==
    /\ Commit
    /\ faults < MaxFaults
    /\ sweep' = "leave"
    /\ faults' = faults + 1
    /\ exposed' = exposed \cup {"unacknowledged"}

Replace ==
    /\ sweep = "replace"
    /\ runtime' = setting
    /\ sweep' = "leave"
    /\ UNCHANGED <<content, setting, job, object, maintenance, writing, request, faults, stored, exposed>>

(* Mutant: a failed migration stays in maintenance.                        *)
Leave_KeepsFlag ==
    /\ sweep \in {"leave", "failed"}
    /\ maintenance' = (sweep = "failed")
    /\ sweep' = IF sweep = "failed" THEN "record" ELSE "idle"
    /\ UNCHANGED <<content, setting, job, object, runtime, writing, request, faults, stored, exposed>>

(* The guard is dropped and the flag cleared; only then is a failure       *)
(* recorded.                                                               *)
Leave ==
    /\ sweep \in {"leave", "failed"}
    /\ maintenance' = FALSE
    /\ sweep' = IF sweep = "failed" THEN "record" ELSE "idle"
    /\ UNCHANGED <<content, setting, job, object, runtime, writing, request, faults, stored, exposed>>

(* record_job_failure                                                      *)
Record ==
    /\ sweep = "record"
    /\ job' = [job EXCEPT !.status = "failed"]
    /\ sweep' = "idle"
    /\ UNCHANGED <<content, setting, object, runtime, maintenance, writing, request,
                   faults, stored, exposed>>

RecordFails ==
    /\ sweep = "record"
    /\ faults < MaxFaults
    /\ sweep' = "idle"
    /\ faults' = faults + 1
    /\ exposed' = exposed \cup {"unrecorded"}
    /\ UNCHANGED <<content, setting, job, object, runtime, maintenance, writing, request, stored>>

Sweep ==
    \/ SweepStart \/ ProcessStart \/ ListObjects \/ CommitSwitch \/ Replace \/ Leave \/ Record
    \/ \E k \in Keys : CopyStart(k) \/ CopyEnd(k) \/ \E c \in Object : CopyFails(k, c)

-------------------------------------------------------------------------------
(* Mutant: a restart does not look for an active job.                      *)
Crash_NoMaintenance ==
    /\ faults < MaxFaults
    /\ faults' = faults + 1
    /\ runtime' = setting
    /\ maintenance' = FALSE
    /\ sweep' = "idle"
    /\ writing' = [k \in Keys |-> NoBackend]
    /\ request' = [r \in Requests |-> NoRequest]
    /\ exposed' = exposed \cup (IF sweep = "record" THEN {"unrecorded"} ELSE {})
    /\ UNCHANGED <<content, setting, job, object, stored>>

(* The process stops anywhere and starts again (init.rs storage): the      *)
(* writes and requests under way are gone, the backend is that of the      *)
(* settings, and maintenance is on while a job is active.                  *)
Crash ==
    /\ faults < MaxFaults
    /\ faults' = faults + 1
    /\ runtime' = setting
    /\ maintenance' = Active
    /\ sweep' = "idle"
    /\ writing' = [k \in Keys |-> NoBackend]
    /\ request' = [r \in Requests |-> NoRequest]
    /\ exposed' = exposed \cup (IF sweep = "record" THEN {"unrecorded"} ELSE {})
    /\ UNCHANGED <<content, setting, job, object, stored>>

Next ==
    \/ \E k \in Keys : BeginWrite(k) \/ \E c \in Object : EndWrite(k, c)
    \/ \E r \in Requests :
          \/ Insert(r) \/ InsertRefused(r) \/ Mark(r)
          \/ \E b \in Backends : Load(r, b)
    \/ Sweep
    \/ ProcessFails \/ CommitUnacknowledged \/ RecordFails
    \/ Crash

Spec == Init /\ [][Next]_vars

-------------------------------------------------------------------------------
(* Every value has its type; a manifest has a row in progress only while   *)
(* its job runs, or once it has failed.                                    *)
TypeOK ==
    /\ content \in [Backends -> [Keys -> Object]]
    /\ setting \in Backends
    /\ job \in [status : {"none", "pending", "running", "succeeded", "failed"},
               source : Backends \cup {NoBackend}, target : Backends \cup {NoBackend}]
    /\ object \in [Keys -> Copying \cup {"none"}]
    /\ runtime \in Backends
    /\ maintenance \in BOOLEAN
    /\ sweep \in {"idle", "gate", "list", "copy", "replace", "leave", "failed", "record"}
    /\ writing \in [Keys -> Backends \cup {NoBackend}]
    /\ request \in [Requests -> [at : {"idle", "loaded", "inserted"},
                                source : Backends \cup {NoBackend},
                                target : Backends \cup {NoBackend}]]
    /\ faults \in 0..MaxFaults
    /\ stored \in [Keys -> Object]
    /\ exposed \subseteq {"stale_source", "late_mark", "unacknowledged", "unrecorded"}
    /\ \A k \in Keys : object[k] = "running" => job.status \in {"running", "failed"}

(* No object is lost: what was last stored is read from the backend in use *)
(* and from the one a restart would use, during a migration, after it and  *)
(* after any crash ("switches the active configuration only after every    *)
(* object succeeds", self-hosting.md:132), but for three ways around the   *)
(* gate: a job whose source was read before another migration, a failure   *)
(* that was not recorded and a commit whose answer was lost.               *)
NothingLost ==
    exposed \subseteq {"late_mark"} =>
        \A k \in Keys, b \in {runtime, setting} :
            stored[k] # Absent => content[b][k] = stored[k]

(* Writes are refused only for a migration: the flag is on while a job is  *)
(* active or its sweep has not left the gate, but for a request that sets  *)
(* it when its job is over (storage_migrations.rs:71).                     *)
MaintenanceMeansMigration ==
    "late_mark" \notin exposed /\ maintenance => Active \/ Holding

===============================================================================
