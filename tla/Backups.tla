------------------------------ MODULE Backups -------------------------------
(***************************************************************************)
(* Encrypted backups of the metadata database: the runner                  *)
(* (cmd/backup-runner/main.go), started by a timer or by the admin backend *)
(* (internal/adminsvc/handlers_backups.go), which records how it ended,    *)
(* and the restore drill.  Several runners may be at work; any of their    *)
(* steps may fail, and a failed runner exits at once.                      *)
(*                                                                         *)
(* Time is counted in days.  Artifacts are known by their runner.          *)
(***************************************************************************)
EXTENDS Naturals, Sequences

CONSTANTS Runners,      \* runs of the backup-runner
          Retention,    \* DDAG_BACKUP_RETENTION_DAYS
          MaxDay        \* bound: the last day

ASSUME BackupsAssumption == Retention \in Nat \ {0}

VARIABLES day,
          pc,           \* per runner: its next step; 0: not started or over
          artifact,     \* the .dump.aes files: content and day of the last write
          manifest,     \* runners whose manifest is there
          plain,        \* runners whose plaintext dump is there
          row,          \* backup_runs.status
          watched,      \* runners the admin backend waits for
          drill         \* the artifact a restore drill is at

backupVars == <<day, pc, artifact, manifest, plain, row, watched, drill>>

NoArtifact == [content |-> "none", day |-> 0]

BackupsInit ==
    /\ day = 0
    /\ pc = [i \in Runners |-> 0]
    /\ artifact = [i \in Runners |-> NoArtifact]
    /\ manifest = {} /\ plain = {} /\ watched = {}
    /\ row = [i \in Runners |-> "none"]
    /\ drill = {}

(* Fault: old artifacts make room before the new one is written.           *)
CleanupFirst == <<"cleanup", "dump", "encrypt", "manifest", "report">>

RunnerSteps == <<"dump", "encrypt", "manifest", "cleanup", "report">>

Running(i) == pc[i] # 0
At(i, step) == Running(i) /\ RunnerSteps[pc[i]] = step
Advance(i) == pc' = [pc EXCEPT ![i] = (@ + 1) % (Len(RunnerSteps) + 1)]

(* triggerBackupOrDrill, or the timer, which leaves no row.                *)
StartRunner(i, byAdmin) ==
    /\ ~Running(i) /\ row[i] = "none" /\ artifact[i] = NoArtifact /\ i \notin plain
    /\ pc' = [pc EXCEPT ![i] = 1]
    /\ row' = IF byAdmin THEN [row EXCEPT ![i] = "running"] ELSE row
    /\ watched' = IF byAdmin THEN watched \cup {i} ELSE watched
    /\ UNCHANGED <<day, artifact, manifest, plain, drill>>

(* The temporary file, and pg_dump into it.  A runner that fails in        *)
(* pg_dump leaves what it leaves after it.                                 *)
Dump(i) ==
    /\ At(i, "dump") /\ Advance(i)
    /\ plain' = plain \cup {i}
    /\ UNCHANGED <<day, artifact, manifest, row, watched, drill>>

(* encryptFile writes under the final name.                                *)
OpenArtifact(i) ==
    /\ At(i, "encrypt") /\ artifact[i].content = "none"
    /\ artifact' = [artifact EXCEPT ![i] = [content |-> "partial", day |-> day]]
    /\ UNCHANGED <<day, pc, manifest, plain, row, watched, drill>>

encryptFile(i) ==
    /\ At(i, "encrypt") /\ artifact[i].content = "partial" /\ Advance(i)
    /\ artifact' = [artifact EXCEPT ![i] = [content |-> "complete", day |-> day]]
    /\ UNCHANGED <<day, manifest, plain, row, watched, drill>>

(* The artifact opens: it has its header and the seal is whole.            *)
decryptHeader(i) == artifact[i].content = "complete"

(* fileHash and decryptHeader read all of it again before the manifest is  *)
(* written.                                                                *)
WriteManifest(i) ==
    /\ At(i, "manifest") /\ decryptHeader(i) /\ Advance(i)
    /\ manifest' = manifest \cup {i}
    /\ UNCHANGED <<day, artifact, plain, row, watched, drill>>

Old(i) == artifact[i].day + Retention < day

(* Artifacts and manifests.  A manifest may be younger than its artifact;  *)
(* here it goes with it.                                                   *)
cleanup(i) ==
    /\ At(i, "cleanup") /\ Advance(i)
    /\ artifact' = [j \in Runners |-> IF Old(j) THEN NoArtifact ELSE artifact[j]]
    /\ manifest' = {j \in manifest : ~Old(j)}
    /\ UNCHANGED <<day, plain, row, watched, drill>>

(* BACKUP_OK, exit status 0, the deferred Remove; the admin backend, if it *)
(* started the run, records it.                                            *)
Report(i) ==
    /\ At(i, "report") /\ Advance(i)
    /\ plain' = plain \ {i}
    /\ row' = IF i \in watched THEN [row EXCEPT ![i] = "succeeded"] ELSE row
    /\ watched' = watched \ {i}
    /\ UNCHANGED <<day, artifact, manifest, drill>>

(* fatalErr, which exits without running what was deferred; a runner that  *)
(* is killed leaves the same.                                              *)
Fail(i) ==
    /\ Running(i)
    /\ pc' = [pc EXCEPT ![i] = 0]
    /\ row' = IF i \in watched THEN [row EXCEPT ![i] = "failed"] ELSE row
    /\ watched' = watched \ {i}
    /\ UNCHANGED <<day, artifact, manifest, plain, drill>>

(* Nobody completes the rows of the runs it waited for.                    *)
AdminRestarts ==
    /\ watched # {}
    /\ watched' = {}
    /\ UNCHANGED <<day, pc, artifact, manifest, plain, row, drill>>

-----------------------------------------------------------------------------
(* runDrill takes the newest artifact, finished or not; what it decrypts   *)
(* is removed however it ends.                                             *)
Newest ==
    LET there == {i \in Runners : artifact[i].content # "none"} IN
    {i \in there : \A j \in there : artifact[j].day <= artifact[i].day}

StartDrill(i) ==
    /\ drill = {} /\ i \in Newest
    /\ drill' = {i}
    /\ UNCHANGED <<day, pc, artifact, manifest, plain, row, watched>>

(* decryptFile, pg_restore into a database of its own and the count of the *)
(* tables; only an artifact that is still there and complete opens.        *)
EndDrill ==
    /\ drill # {}
    /\ drill' = {}
    /\ UNCHANGED <<day, pc, artifact, manifest, plain, row, watched>>

(* A runner is done before its artifact is due for removal.                *)
NextDay ==
    /\ day < MaxDay
    /\ \A i \in Runners :
          Running(i) /\ artifact[i].content # "none" => artifact[i].day + Retention > day
    /\ day' = day + 1
    /\ UNCHANGED <<pc, artifact, manifest, plain, row, watched, drill>>

BackupsNext ==
    \/ \E i \in Runners :
          \/ \E byAdmin \in BOOLEAN : StartRunner(i, byAdmin)
          \/ Dump(i) \/ OpenArtifact(i) \/ encryptFile(i) \/ WriteManifest(i)
          \/ cleanup(i) \/ Report(i) \/ Fail(i) \/ StartDrill(i)
    \/ AdminRestarts \/ EndDrill \/ NextDay

-----------------------------------------------------------------------------
(* Once a run is recorded as succeeded there is always a complete artifact *)
(* with its manifest, however many later runs fail and however long none   *)
(* succeeds: old ones go only when a new one has been read back            *)
(* (cmd/backup-runner/main.go:100).                                        *)
BackupSurvives ==
    (\E i \in Runners : row[i] = "succeeded") =>
        \E i \in manifest : artifact[i].content = "complete"
=============================================================================
