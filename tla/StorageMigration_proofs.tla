------------------------ MODULE StorageMigration_proofs ------------------------
(***************************************************************************)
(* The migration of the object storage loses nothing, and maintenance is   *)
(* on for nothing else, for any backends, keys, contents and requests and  *)
(* any number of faults.                                                   *)
(* IInv adds to the two properties what the gate and the job promise each  *)
(* other: who may write where, which job the sweep works for, and that the *)
(* manifest of a job has a row for everything there is to lose.            *)
(***************************************************************************)
EXTENDS StorageMigration, TLAPS

(* The sweep works with no write under way; a write goes to the backend in *)
(* use; the flag is on from the start of an attempt to its end.            *)
GateInv ==
    /\ Holding => \A k \in Keys : writing[k] = NoBackend
    /\ \A k \in Keys : writing[k] # NoBackend => writing[k] = runtime
    /\ sweep \in {"gate", "list", "copy", "failed"} => maintenance
    /\ sweep = "record" /\ "late_mark" \notin exposed => ~maintenance

(* The sweep works for the job that is active; when it is through with a   *)
(* job, the next one has no manifest yet.                                  *)
JobInv ==
    /\ sweep \in {"gate", "failed", "record"} => Active
    /\ sweep \in {"list", "copy"} => job.status = "running"
    /\ sweep \in {"replace", "leave"} /\ Active => \A k \in Keys : object[k] = "none"

(* Jobs and requests copy from one backend to another one.                 *)
Moves(m) == m.source \in Backends /\ m.target \in Backends /\ m.source # m.target

MovesInv ==
    /\ Active => Moves(job)
    /\ \A r \in Requests : request[r].at # "idle" => Moves(request[r])

(* None of the ways around the gate that can lose an object was taken.     *)
Guarded == exposed \subseteq {"late_mark"}

SettingInv ==
    Guarded => /\ runtime = setting \/ sweep = "replace"
               /\ Active => job.source = setting

(* From the first row of the manifest on nobody writes, whatever attempts  *)
(* fail and however often the process restarts: the manifest has every     *)
(* object, and the target those that have succeeded.                       *)
Listed == sweep = "copy" \/ \E k \in Keys : object[k] # "none"

Kept(k) ==
    stored[k] # Absent => /\ object[k] # "none"
                          /\ object[k] = "succeeded" => content[job.target][k] = stored[k]

ManifestInv ==
    Guarded /\ Active /\ sweep # "record" /\ Listed =>
        /\ maintenance
        /\ \A k \in Keys : writing[k] = NoBackend /\ Kept(k)

(* The conjunction that every step preserves.                              *)
IInv ==
    /\ TypeOK /\ GateInv /\ JobInv /\ MovesInv /\ SettingInv /\ ManifestInv
    /\ NothingLost /\ MaintenanceMeansMigration

(* A write begins only out of maintenance, so beside no manifest.          *)
LEMMA BeginWriteInv ==
    ASSUME IInv, NEW k \in Keys, BeginWrite(k)
    PROVE  IInv'
  <1>1. TypeOK'
    BY DEF IInv, TypeOK, BeginWrite
  <1>2. GateInv'
    BY DEF IInv, GateInv, Holding, BeginWrite
  <1>3. JobInv'
    BY DEF IInv, JobInv, Active, BeginWrite
  <1>4. MovesInv'
    BY DEF IInv, MovesInv, Active, BeginWrite
  <1>5. SettingInv'
    BY DEF IInv, SettingInv, Guarded, Active, BeginWrite
  <1>6. ManifestInv'
    BY DEF IInv, Guarded, Active, BeginWrite, ManifestInv, Listed
  <1>7. NothingLost'
    BY DEF IInv, BeginWrite, NothingLost
  <1>8. MaintenanceMeansMigration'
    BY DEF BeginWrite, MaintenanceMeansMigration
  <1> QED BY <1>1, <1>2, <1>3, <1>4, <1>5, <1>6, <1>7, <1>8 DEF IInv

(* A write goes to the one backend, that of the settings and in use.       *)
LEMMA EndWriteInv ==
    ASSUME IInv, NEW k \in Keys, NEW c \in Object, EndWrite(k, c)
    PROVE  IInv'
  <1>1. TypeOK'
    BY DEF IInv, TypeOK, EndWrite
  <1>2. GateInv'
    BY DEF IInv, GateInv, Holding, EndWrite
  <1>3. JobInv'
    BY DEF IInv, JobInv, Active, EndWrite
  <1>4. MovesInv'
    BY DEF IInv, MovesInv, Active, EndWrite
  <1>5. SettingInv'
    BY DEF IInv, SettingInv, Guarded, Active, EndWrite
  <1>6. ManifestInv'
    BY DEF IInv, Guarded, Active, EndWrite, ManifestInv, Listed
  <1>7. NothingLost'
    BY DEF IInv, TypeOK, GateInv, SettingInv, Guarded, Holding, EndWrite, NothingLost
  <1>8. MaintenanceMeansMigration'
    BY DEF IInv, Active, Holding, EndWrite, MaintenanceMeansMigration
  <1> QED BY <1>1, <1>2, <1>3, <1>4, <1>5, <1>6, <1>7, <1>8 DEF IInv

(* The settings a request reads are a backend other than its target.       *)
LEMMA LoadInv ==
    ASSUME IInv, NEW r \in Requests, NEW b \in Backends, Load(r, b)
    PROVE  IInv'
  <1>1. TypeOK'
    BY DEF IInv, TypeOK, Load
  <1>2. GateInv'
    BY DEF IInv, GateInv, Holding, Load
  <1>3. JobInv'
    BY DEF IInv, JobInv, Active, Load
  <1>4. MovesInv'
    BY DEF IInv, TypeOK, MovesInv, Moves, Active, Load
  <1>5. SettingInv'
    BY DEF IInv, SettingInv, Guarded, Active, Load
  <1>6. ManifestInv'
    BY DEF IInv, Guarded, Active, Load, ManifestInv, Listed, Kept
  <1>7. NothingLost'
    BY DEF IInv, Load, NothingLost
  <1>8. MaintenanceMeansMigration'
    BY DEF IInv, Active, Holding, Load, MaintenanceMeansMigration
  <1> QED BY <1>1, <1>2, <1>3, <1>4, <1>5, <1>6, <1>7, <1>8 DEF IInv

(* A new job takes no manifest over, and copies from the settings as read. *)
LEMMA InsertInv ==
    ASSUME IInv, NEW r \in Requests, Insert(r)
    PROVE  IInv'
  <1>1. TypeOK'
    BY DEF IInv, TypeOK, Insert
  <1>2. GateInv'
    BY DEF IInv, GateInv, Holding, Insert
  <1>3. JobInv'
    BY DEF IInv, JobInv, Active, Insert
  <1>4. MovesInv'
    BY DEF IInv, MovesInv, Moves, Insert
  <1>5. SettingInv'
    BY DEF IInv, SettingInv, Guarded, Insert
  <1>6. ManifestInv'
    BY DEF IInv, JobInv, Active, Insert, ManifestInv, Listed
  <1>7. NothingLost'
    BY DEF IInv, Insert, NothingLost
  <1>8. MaintenanceMeansMigration'
    BY DEF Active, Insert, MaintenanceMeansMigration
  <1> QED BY <1>1, <1>2, <1>3, <1>4, <1>5, <1>6, <1>7, <1>8 DEF IInv

(* A request refused by the index leaves nothing.                          *)
LEMMA InsertRefusedInv ==
    ASSUME IInv, NEW r \in Requests, InsertRefused(r)
    PROVE  IInv'
  <1>1. TypeOK'
    BY DEF IInv, TypeOK, InsertRefused, NoRequest
  <1>2. GateInv'
    BY DEF IInv, GateInv, Holding, InsertRefused
  <1>3. JobInv'
    BY DEF IInv, JobInv, Active, InsertRefused
  <1>4. MovesInv'
    BY DEF IInv, MovesInv, InsertRefused, NoRequest
  <1>5. SettingInv'
    BY DEF IInv, SettingInv, Guarded, InsertRefused
  <1>6. ManifestInv'
    BY DEF IInv, Guarded, InsertRefused, ManifestInv, Listed, Kept
  <1>7. NothingLost'
    BY DEF IInv, InsertRefused, NothingLost
  <1>8. MaintenanceMeansMigration'
    BY DEF Active, InsertRefused, MaintenanceMeansMigration
  <1> QED BY <1>1, <1>2, <1>3, <1>4, <1>5, <1>6, <1>7, <1>8 DEF IInv

(* The flag is set late only when the job is over.                         *)
LEMMA MarkInv ==
    ASSUME IInv, NEW r \in Requests, Mark(r)
    PROVE  IInv'
  <1>1. TypeOK'
    BY DEF IInv, TypeOK, Mark, NoRequest
  <1>2. GateInv'
    BY DEF IInv, GateInv, Holding, Mark, Over
  <1>3. JobInv'
    BY DEF IInv, JobInv, Active, Mark
  <1>4. MovesInv'
    BY DEF IInv, MovesInv, Active, Mark, NoRequest
  <1>5. SettingInv'
    BY DEF IInv, SettingInv, Guarded, Active, Mark
  <1>6. ManifestInv'
    BY DEF IInv, Guarded, Active, Mark, ManifestInv, Listed, Kept
  <1>7. NothingLost'
    BY DEF IInv, Mark, NothingLost
  <1>8. MaintenanceMeansMigration'
    BY DEF Active, Holding, Mark, MaintenanceMeansMigration, Over
  <1> QED BY <1>1, <1>2, <1>3, <1>4, <1>5, <1>6, <1>7, <1>8 DEF IInv

(* The sweep takes up a job and sets the flag.                             *)
LEMMA SweepStartInv ==
    ASSUME IInv, SweepStart
    PROVE  IInv'
  <1>1. TypeOK'
    BY DEF IInv, TypeOK, SweepStart
  <1>2. GateInv'
    BY DEF IInv, GateInv, Holding, SweepStart
  <1>3. JobInv'
    BY DEF JobInv, Active, SweepStart
  <1>4. MovesInv'
    BY DEF IInv, MovesInv, SweepStart
  <1>5. SettingInv'
    BY DEF IInv, SettingInv, Guarded, SweepStart
  <1>6. ManifestInv'
    BY DEF IInv, Guarded, SweepStart, ManifestInv, Listed, Kept
  <1>7. NothingLost'
    BY DEF IInv, SweepStart, NothingLost
  <1>8. MaintenanceMeansMigration'
    BY DEF Active, SweepStart, MaintenanceMeansMigration
  <1> QED BY <1>1, <1>2, <1>3, <1>4, <1>5, <1>6, <1>7, <1>8 DEF IInv

(* The gate is open: no write is under way any more.                       *)
LEMMA ProcessStartInv ==
    ASSUME IInv, ProcessStart
    PROVE  IInv'
  <1>1. TypeOK'
    BY DEF IInv, TypeOK, ProcessStart, Copying
  <1>2. GateInv'
    BY DEF IInv, GateInv, ProcessStart
  <1>3. JobInv'
    BY DEF JobInv, ProcessStart
  <1>4. MovesInv'
    BY DEF IInv, JobInv, MovesInv, Moves, ProcessStart
  <1>5. SettingInv'
    BY DEF IInv, JobInv, SettingInv, Guarded, ProcessStart
  <1>6. ManifestInv'
    BY DEF IInv, JobInv, Guarded, ProcessStart, ManifestInv, Listed, Kept
  <1>7. NothingLost'
    BY DEF IInv, ProcessStart, NothingLost
  <1>8. MaintenanceMeansMigration'
    BY DEF Holding, ProcessStart, MaintenanceMeansMigration
  <1> QED BY <1>1, <1>2, <1>3, <1>4, <1>5, <1>6, <1>7, <1>8 DEF IInv

(* The manifest lists the source, which holds all there is to lose.        *)
LEMMA ListObjectsInv ==
    ASSUME IInv, ListObjects
    PROVE  IInv'
  <1>1. TypeOK'
    BY DEF IInv, TypeOK, ListObjects, Copying
  <1>2. GateInv'
    BY DEF IInv, GateInv, Holding, ListObjects
  <1>3. JobInv'
    BY DEF IInv, JobInv, ListObjects
  <1>4. MovesInv'
    BY DEF IInv, MovesInv, Active, ListObjects
  <1>5. SettingInv'
    BY DEF IInv, SettingInv, Guarded, Active, ListObjects
  <1>6. ManifestInv'
    BY
       DEF IInv, GateInv, SettingInv, Guarded, Active, Holding, ListObjects, ManifestInv, Listed, Kept, NothingLost
  <1>7. NothingLost'
    BY DEF IInv, ListObjects, NothingLost
  <1>8. MaintenanceMeansMigration'
    BY DEF Holding, ListObjects, MaintenanceMeansMigration
  <1> QED BY <1>1, <1>2, <1>3, <1>4, <1>5, <1>6, <1>7, <1>8 DEF IInv

(* A row in progress is still a row.                                       *)
LEMMA CopyStartInv ==
    ASSUME IInv, NEW k \in Keys, CopyStart(k)
    PROVE  IInv'
  <1>1. TypeOK'
    BY DEF IInv, TypeOK, JobInv, CopyStart, Copying
  <1>2. GateInv'
    BY DEF IInv, GateInv, Holding, CopyStart
  <1>3. JobInv'
    BY DEF IInv, JobInv, CopyStart
  <1>4. MovesInv'
    BY DEF IInv, MovesInv, Active, CopyStart
  <1>5. SettingInv'
    BY DEF IInv, SettingInv, Guarded, Active, CopyStart
  <1>6. ManifestInv'
    BY DEF IInv, Guarded, Active, CopyStart, ManifestInv, Listed, Kept
  <1>7. NothingLost'
    BY DEF IInv, CopyStart, NothingLost
  <1>8. MaintenanceMeansMigration'
    BY DEF Holding, CopyStart, MaintenanceMeansMigration
  <1> QED BY <1>1, <1>2, <1>3, <1>4, <1>5, <1>6, <1>7, <1>8 DEF IInv

(* A copy that succeeds has the content of the settings' backend.          *)
LEMMA CopyEndInv ==
    ASSUME IInv, NEW k \in Keys, CopyEnd(k)
    PROVE  IInv'
  <1>1. TypeOK'
    BY DEF IInv, TypeOK, JobInv, MovesInv, Moves, Active, CopyEnd, Copying
  <1>2. GateInv'
    BY DEF IInv, GateInv, Holding, CopyEnd
  <1>3. JobInv'
    BY DEF IInv, JobInv, CopyEnd
  <1>4. MovesInv'
    BY DEF IInv, MovesInv, Active, CopyEnd
  <1>5. SettingInv'
    BY DEF IInv, SettingInv, Guarded, Active, CopyEnd
  <1>6. ManifestInv'
    BY
       DEF IInv, TypeOK, MovesInv, SettingInv, Guarded, Moves, Active, CopyEnd, ManifestInv, Listed, Kept, NothingLost
  <1>7. NothingLost'
    BY DEF IInv, JobInv, SettingInv, Guarded, Active, CopyEnd, NothingLost
  <1>8. MaintenanceMeansMigration'
    BY DEF Holding, CopyEnd, MaintenanceMeansMigration
  <1> QED BY <1>1, <1>2, <1>3, <1>4, <1>5, <1>6, <1>7, <1>8 DEF IInv

(* A copy that fails spoils the target only, which nothing reads yet.      *)
LEMMA CopyFailsInv ==
    ASSUME IInv, NEW k \in Keys, NEW c \in Object, CopyFails(k, c)
    PROVE  IInv'
  <1>1. TypeOK'
    BY DEF IInv, TypeOK, CopyFails, Copying
  <1>2. GateInv'
    BY DEF IInv, GateInv, Holding, CopyFails
  <1>3. JobInv'
    BY DEF IInv, JobInv, Active, CopyFails
  <1>4. MovesInv'
    BY DEF IInv, MovesInv, Active, CopyFails
  <1>5. SettingInv'
    BY DEF IInv, SettingInv, Guarded, Active, CopyFails
  <1>6. ManifestInv'
    BY DEF IInv, Guarded, Active, CopyFails, ManifestInv, Listed, Kept
  <1>7. NothingLost'
    BY DEF IInv, JobInv, MovesInv, SettingInv, Guarded, Moves, Active, CopyFails, NothingLost
  <1>8. MaintenanceMeansMigration'
    BY DEF Holding, CopyFails, MaintenanceMeansMigration
  <1> QED BY <1>1, <1>2, <1>3, <1>4, <1>5, <1>6, <1>7, <1>8 DEF IInv

(* The attempt ends with its manifest as it is.                            *)
LEMMA ProcessFailsInv ==
    ASSUME IInv, ProcessFails
    PROVE  IInv'
  <1>1. TypeOK'
    BY DEF IInv, TypeOK, ProcessFails
  <1>2. GateInv'
    BY DEF IInv, GateInv, Holding, ProcessFails
  <1>3. JobInv'
    BY DEF IInv, JobInv, Active, ProcessFails
  <1>4. MovesInv'
    BY DEF IInv, MovesInv, Active, ProcessFails
  <1>5. SettingInv'
    BY DEF IInv, SettingInv, Guarded, Active, ProcessFails
  <1>6. ManifestInv'
    BY DEF IInv, Guarded, Active, ProcessFails, ManifestInv, Listed, Kept
  <1>7. NothingLost'
    BY DEF IInv, ProcessFails, NothingLost
  <1>8. MaintenanceMeansMigration'
    BY DEF Holding, ProcessFails, MaintenanceMeansMigration
  <1> QED BY <1>1, <1>2, <1>3, <1>4, <1>5, <1>6, <1>7, <1>8 DEF IInv

(* Everything has succeeded: the target holds what is stored.              *)
LEMMA CommitSwitchInv ==
    ASSUME IInv, CommitSwitch
    PROVE  IInv'
  <1>1. TypeOK'
    BY DEF IInv, TypeOK, JobInv, MovesInv, Moves, Active, CommitSwitch, Commit, Copied
  <1>2. GateInv'
    BY DEF IInv, GateInv, Holding, CommitSwitch, Commit
  <1>3. JobInv'
    BY DEF JobInv, Active, CommitSwitch, Commit
  <1>4. MovesInv'
    BY DEF IInv, MovesInv, Active, CommitSwitch, Commit
  <1>5. SettingInv'
    BY DEF SettingInv, Active, CommitSwitch, Commit
  <1>6. ManifestInv'
    BY DEF Active, CommitSwitch, Commit, ManifestInv
  <1>7. NothingLost'
    BY
       DEF IInv, JobInv, Guarded, Active, CommitSwitch, Commit, NothingLost, ManifestInv, Listed, Kept, Copied
  <1>8. MaintenanceMeansMigration'
    BY DEF Holding, CommitSwitch, MaintenanceMeansMigration
  <1> QED BY <1>1, <1>2, <1>3, <1>4, <1>5, <1>6, <1>7, <1>8 DEF IInv

(* The settings change and the backend in use does not: not guarded.       *)
LEMMA CommitUnacknowledgedInv ==
    ASSUME IInv, CommitUnacknowledged
    PROVE  IInv'
  <1>1. TypeOK'
    BY StorageMigrationAssumption
       DEF IInv, TypeOK, JobInv, MovesInv, Moves, Active, CommitUnacknowledged, Commit, Copied
  <1>2. GateInv'
    BY DEF IInv, GateInv, Holding, CommitUnacknowledged, Commit
  <1>3. JobInv'
    BY DEF JobInv, Active, CommitUnacknowledged, Commit
  <1>4. MovesInv'
    BY DEF IInv, MovesInv, Active, CommitUnacknowledged, Commit
  <1>5. SettingInv'
    BY DEF SettingInv, Guarded, CommitUnacknowledged
  <1>6. ManifestInv'
    BY DEF Active, CommitUnacknowledged, Commit, ManifestInv
  <1>7. NothingLost'
    BY DEF CommitUnacknowledged, NothingLost
  <1>8. MaintenanceMeansMigration'
    BY DEF Holding, CommitUnacknowledged, MaintenanceMeansMigration
  <1> QED BY <1>1, <1>2, <1>3, <1>4, <1>5, <1>6, <1>7, <1>8 DEF IInv

(* The backend in use is that of the settings again.                       *)
LEMMA ReplaceInv ==
    ASSUME IInv, Replace
    PROVE  IInv'
  <1>1. TypeOK'
    BY DEF IInv, TypeOK, Replace
  <1>2. GateInv'
    BY DEF IInv, GateInv, Holding, Replace
  <1>3. JobInv'
    BY DEF IInv, JobInv, Active, Replace
  <1>4. MovesInv'
    BY DEF IInv, MovesInv, Active, Replace
  <1>5. SettingInv'
    BY DEF IInv, SettingInv, Guarded, Active, Replace
  <1>6. ManifestInv'
    BY DEF IInv, Guarded, Active, Replace, ManifestInv, Listed, Kept
  <1>7. NothingLost'
    BY DEF IInv, Replace, NothingLost
  <1>8. MaintenanceMeansMigration'
    BY DEF Holding, Replace, MaintenanceMeansMigration
  <1> QED BY <1>1, <1>2, <1>3, <1>4, <1>5, <1>6, <1>7, <1>8 DEF IInv

(* The flag is cleared; a failed job leaves it before its failure is       *)
(* recorded.                                                               *)
LEMMA LeaveInv ==
    ASSUME IInv, Leave
    PROVE  IInv'
  <1>1. TypeOK'
    BY DEF IInv, TypeOK, Leave
  <1>2. GateInv'
    BY DEF IInv, GateInv, Holding, Leave
  <1>3. JobInv'
    BY DEF IInv, JobInv, Active, Leave
  <1>4. MovesInv'
    BY DEF IInv, MovesInv, Active, Leave
  <1>5. SettingInv'
    BY DEF IInv, SettingInv, Guarded, Active, Leave
  <1>6. ManifestInv'
    BY DEF IInv, JobInv, Active, Leave, ManifestInv, Listed
  <1>7. NothingLost'
    BY DEF IInv, Leave, NothingLost
  <1>8. MaintenanceMeansMigration'
    BY DEF Leave, MaintenanceMeansMigration
  <1> QED BY <1>1, <1>2, <1>3, <1>4, <1>5, <1>6, <1>7, <1>8 DEF IInv

(* The job is over, and maintenance was left before.                       *)
LEMMA RecordInv ==
    ASSUME IInv, Record
    PROVE  IInv'
  <1>1. TypeOK'
    BY DEF IInv, TypeOK, Record
  <1>2. GateInv'
    BY DEF IInv, GateInv, Holding, Record
  <1>3. JobInv'
    BY DEF JobInv, Record
  <1>4. MovesInv'
    BY DEF IInv, MovesInv, Active, Record
  <1>5. SettingInv'
    BY DEF IInv, SettingInv, Guarded, Active, Record
  <1>6. ManifestInv'
    BY DEF Active, Record, ManifestInv
  <1>7. NothingLost'
    BY DEF IInv, Record, NothingLost
  <1>8. MaintenanceMeansMigration'
    BY DEF IInv, GateInv, Record, MaintenanceMeansMigration
  <1> QED BY <1>1, <1>2, <1>3, <1>4, <1>5, <1>6, <1>7, <1>8 DEF IInv

(* The job goes on with writes since its manifest: not guarded.            *)
LEMMA RecordFailsInv ==
    ASSUME IInv, RecordFails
    PROVE  IInv'
  <1>1. TypeOK'
    BY StorageMigrationAssumption DEF IInv, TypeOK, RecordFails
  <1>2. GateInv'
    BY DEF IInv, GateInv, Holding, RecordFails
  <1>3. JobInv'
    BY DEF JobInv, RecordFails
  <1>4. MovesInv'
    BY DEF IInv, MovesInv, Active, RecordFails
  <1>5. SettingInv'
    BY DEF SettingInv, Guarded, RecordFails
  <1>6. ManifestInv'
    BY DEF Guarded, RecordFails, ManifestInv
  <1>7. NothingLost'
    BY DEF RecordFails, NothingLost
  <1>8. MaintenanceMeansMigration'
    BY DEF IInv, Active, Holding, RecordFails, MaintenanceMeansMigration
  <1> QED BY <1>1, <1>2, <1>3, <1>4, <1>5, <1>6, <1>7, <1>8 DEF IInv

(* The process starts with the settings' backend, in maintenance for a job.*)
LEMMA CrashInv ==
    ASSUME IInv, Crash
    PROVE  IInv'
  <1>1. TypeOK'
    BY StorageMigrationAssumption DEF IInv, TypeOK, Active, Crash, NoRequest
  <1>2. GateInv'
    BY DEF GateInv, Crash
  <1>3. JobInv'
    BY DEF JobInv, Crash
  <1>4. MovesInv'
    BY DEF IInv, MovesInv, Active, Crash, NoRequest
  <1>5. SettingInv'
    BY DEF IInv, SettingInv, Guarded, Active, Crash
  <1>6. ManifestInv'
    BY DEF IInv, Guarded, Active, Crash, ManifestInv, Listed, Kept
  <1>7. NothingLost'
    BY DEF IInv, Crash, NothingLost
  <1>8. MaintenanceMeansMigration'
    BY DEF Active, Crash, MaintenanceMeansMigration
  <1> QED BY <1>1, <1>2, <1>3, <1>4, <1>5, <1>6, <1>7, <1>8 DEF IInv

-------------------------------------------------------------------------------
LEMMA InitInv ==
    ASSUME Init
    PROVE  IInv
  <1> USE StorageMigrationAssumption DEF Init
  <1>1. TypeOK
    <2>1. stored \in [Keys -> Object] /\ content \in [Backends -> [Keys -> Object]]
      <3>1. [k \in Keys |-> Absent] \in [Keys -> Object]
        BY DEF Object
      <3> QED BY <3>1
    <2>2. /\ object \in [Keys -> Copying \cup {"none"}]
          /\ writing \in [Keys -> Backends \cup {NoBackend}]
      BY DEF Copying
    <2>3. /\ job \in [status : {"none", "pending", "running", "succeeded", "failed"},
                     source : Backends \cup {NoBackend}, target : Backends \cup {NoBackend}]
          /\ request \in [Requests -> [at : {"idle", "loaded", "inserted"},
                                      source : Backends \cup {NoBackend},
                                      target : Backends \cup {NoBackend}]]
      BY DEF NoJob, NoRequest
    <2>4. faults \in 0..MaxFaults
      OBVIOUS
    <2>5. /\ setting \in Backends /\ runtime \in Backends /\ maintenance \in BOOLEAN
          /\ sweep = "idle" /\ exposed = {}
      OBVIOUS
    <2>6. \A k \in Keys : object[k] # "running"
      OBVIOUS
    <2> HIDE DEF Init
    <2> QED BY <2>1, <2>2, <2>3, <2>4, <2>5, <2>6 DEF TypeOK
  <1>2. GateInv /\ JobInv /\ MovesInv
    BY DEF GateInv, JobInv, MovesInv, Active, Holding, NoJob, NoRequest
  <1>3. SettingInv /\ ManifestInv
    BY DEF SettingInv, ManifestInv, Active, NoJob
  <1>4. NothingLost /\ MaintenanceMeansMigration
    BY DEF NothingLost, MaintenanceMeansMigration
  <1> QED BY <1>1, <1>2, <1>3, <1>4 DEF IInv

LEMMA NextInv ==
    ASSUME IInv, [Next]_vars
    PROVE  IInv'
  <1>1. CASE \E k \in Keys : BeginWrite(k) \/ \E c \in Object : EndWrite(k, c)
    BY <1>1, BeginWriteInv, EndWriteInv
  <1>2. CASE \E r \in Requests :
                \/ Insert(r) \/ InsertRefused(r) \/ Mark(r)
                \/ \E b \in Backends : Load(r, b)
    BY <1>2, InsertInv, InsertRefusedInv, MarkInv, LoadInv
  <1>3. CASE Sweep
    BY <1>3, SweepStartInv, ProcessStartInv, ListObjectsInv, CommitSwitchInv, ReplaceInv,
       LeaveInv, RecordInv, CopyStartInv, CopyEndInv, CopyFailsInv
       DEF Sweep
  <1>4. CASE ProcessFails \/ CommitUnacknowledged \/ RecordFails \/ Crash
    BY <1>4, ProcessFailsInv, CommitUnacknowledgedInv, RecordFailsInv, CrashInv
  <1>5. CASE UNCHANGED vars
    BY <1>5 DEF vars, IInv, TypeOK, GateInv, JobInv, MovesInv, Moves, SettingInv, ManifestInv,
                Guarded, Listed, Kept, NothingLost, MaintenanceMeansMigration, Active, Holding
  <1> QED BY <1>1, <1>2, <1>3, <1>4, <1>5 DEF Next

-------------------------------------------------------------------------------
(* The strengthening holds in every reachable state.                       *)
THEOREM Invariance == Spec => []IInv
  <1> QED BY InitInv, NextInv, PTL DEF Spec

(* Values keep their types, and a row in progress belongs to a job that    *)
(* runs or has failed (process_job, create).                               *)
THEOREM TypeCorrect == Spec => []TypeOK
  <1>1. IInv => TypeOK
    BY DEF IInv
  <1> QED BY <1>1, Invariance, PTL

(* Whatever fails, stops or is retried, every stored object is read from   *)
(* the backend in use and from that of the settings, but for the ways      *)
(* around the gate that exposed names (process_job, write_lock, storage).  *)
THEOREM NothingLostHolds == Spec => []NothingLost
  <1>1. IInv => NothingLost
    BY DEF IInv
  <1> QED BY <1>1, Invariance, PTL

(* Writes are refused only while a job is active or its sweep at work, but *)
(* for the flag set late (enter_maintenance, leave_maintenance, create).   *)
THEOREM MaintenanceMeansMigrationHolds == Spec => []MaintenanceMeansMigration
  <1>1. IInv => MaintenanceMeansMigration
    BY DEF IInv
  <1> QED BY <1>1, Invariance, PTL
===============================================================================
