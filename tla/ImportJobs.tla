----------------------------- MODULE ImportJobs ------------------------------
(***************************************************************************)
(* importjobs/jobs.go and the handlers of admin/import_jobs.go.  A request *)
(* that uploads a file reserves a slot, stages the file under a name of    *)
(* its own (.part, then .ready), and hands both over to a job (.work); a   *)
(* request may also name files on the server.  Jobs run the import of      *)
(* module BulkImport in the background until the manager is closed or the  *)
(* process dies.  A request makes at most one job, which has its name.     *)
(* The progress a running job reports is left out.                         *)
(***************************************************************************)
EXTENDS BulkImport

CONSTANTS
  Uploads, PathRequests,  \* requests of the two kinds
  Limits,                 \* values MaxConcurrentJobs may be set to
  MaxKeep,                \* maxKeep: finished jobs the table keeps, roughly
  Inputs,                 \* what an import may be given: sequences of files
  MaxCrashes              \* bound: how often the process may die

ASSUME JobsAssumption ==
  /\ Uploads \cap PathRequests = {} /\ IsFiniteSet(Uploads \cup PathRequests)
  /\ Limits \subseteq Nat \ {0} /\ MaxKeep \in Nat \ {0} /\ MaxCrashes \in Nat
  /\ \E most \in Limits : \A l \in Limits : l <= most

ASSUME InputsAssumption ==
  Inputs \subseteq Seq([format : {"json", "sso", "ndjson"}, entries : Seq(STRING)])

Requests == Uploads \cup PathRequests
Stages == {"part", "ready", "work"}

VARIABLES
  limit,      \* opts.MaxConcurrentJobs
  closing, permits, uploading, running,
  order,      \* the ids of the table, oldest first
  jobs,       \* the table: the report of each job, or NoJob
  req,        \* where each request is
  disk,       \* files of the staging directory: [name, stage]
  litter,     \* those an earlier life of the process left
  run,        \* what the goroutine of each job is doing
  seen,       \* accounts of each job in the catalog its rebuild of the index listed
  crashes

managerVars == <<limit, closing, permits, uploading, running, order, jobs>>
vars == <<limit, closing, permits, uploading, running, order, jobs, req, disk, litter, run,
          seen, crashes>>

NoJob == [state |-> "none", ok |-> 0, total |-> 0]
NoRun == [at |-> "none", todo |-> <<>>, several |-> FALSE, expired |-> FALSE,
          writer |-> Writer, failed |-> FALSE]

\* A goroutine that returned: what it had written is kept for the properties, and
\* the files that workers it left behind still read.
Over(j) == [NoRun EXCEPT !.at = "done", !.todo = j.todo,
              !.writer = [Writer EXCEPT !.written = j.writer.written]]

Finished(job) == job.state \in {"succeeded", "failed"}

Init ==
  /\ limit \in Limits
  /\ closing = FALSE /\ permits = {} /\ uploading = 0 /\ running = 0
  /\ order = <<>>
  /\ jobs = [r \in Requests |-> NoJob]
  /\ req = [r \in Requests |-> "idle"]
  /\ disk = {} /\ litter = {}
  /\ run = [r \in Requests |-> NoRun]
  /\ seen = [r \in Requests |-> 0]
  /\ crashes = 0

Staged(r, stage) == [name |-> r, stage |-> stage]
Files(r) == {f \in disk : f.name = r}

\* Mutant: the oldest job goes, finished or not.
Trimmed_AnyJob(js, ord) ==
  IF Len(ord) <= MaxKeep \/ ord = <<>> THEN [jobs |-> js, order |-> ord]
  ELSE [jobs |-> [js EXCEPT ![ord[1]] = NoJob], order |-> RemoveAt(ord, 1)]

\* trimLocked on the table and its order: the oldest finished job goes while there
\* are too many.  Every call that adds or finishes a job trims, so there is never
\* more than one too many (TableComplete) and the loop ends after one removal.
Trimmed(js, ord) ==
  LET done == {i \in DOMAIN ord : Finished(js[ord[i]])}
  IN  IF Len(ord) <= MaxKeep \/ done = {} THEN [jobs |-> js, order |-> ord]
      ELSE [jobs |-> [js EXCEPT ![ord[Min(done)]] = NoJob], order |-> RemoveAt(ord, Min(done))]

\* Mutant: a slot is given back whoever holds the permit.
ReleasePermit_Always(r) ==
  /\ permits' = permits \ {r}
  /\ uploading' = IF uploading > 0 THEN uploading - 1 ELSE uploading

\* UploadPermit.Release: nothing if submit has taken the permit.
ReleasePermit(r) ==
  /\ permits' = permits \ {r}
  /\ uploading' = IF r \in permits /\ uploading > 0 THEN uploading - 1 ELSE uploading

-------------------------------------------------------------------------------
(* The request of an upload, createUploadImportJob.                        *)

\* ReserveUpload: a slot before the first byte is read.
Reserve(r) ==
  /\ req[r] = "idle" /\ r \in Uploads
  /\ IF closing \/ running + uploading >= limit
     THEN /\ req' = [req EXCEPT ![r] = "done"]
          /\ UNCHANGED <<permits, uploading>>
     ELSE /\ req' = [req EXCEPT ![r] = "reserved"]
          /\ permits' = permits \cup {r}
          /\ uploading' = uploading + 1
  /\ UNCHANGED <<limit, closing, running, order, jobs, disk, litter, run, seen, crashes>>

\* The form is not usable, or StageReservedUpload finds the manager closing.
Reject(r) ==
  /\ req[r] \in {"reserved", "ready"}
  /\ req' = [req EXCEPT ![r] = "leaving"]
  /\ UNCHANGED <<managerVars, disk, litter, run, seen, crashes>>

\* StageReservedUpload, from the check of the permit to the new file.
StageBegin(r) ==
  /\ req[r] = "reserved" /\ ~closing /\ r \in permits
  /\ req' = [req EXCEPT ![r] = "staging"]
  /\ disk' = disk \cup {Staged(r, "part")}
  /\ UNCHANGED <<managerVars, litter, run, seen, crashes>>

\* Mutant: a failed write leaves what it wrote.
StageEnd_LeavesPart(r) ==
  /\ req[r] = "staging"
  /\ \/ /\ disk' = (disk \ Files(r)) \cup {Staged(r, "ready")}
        /\ req' = [req EXCEPT ![r] = "ready"]
     \/ /\ UNCHANGED disk
        /\ req' = [req EXCEPT ![r] = "leaving"]
  /\ UNCHANGED <<managerVars, litter, run, seen, crashes>>

\* The body was read: the file is whole, or empty, too large, or broken off.
StageEnd(r) ==
  /\ req[r] = "staging"
  /\ \/ /\ disk' = (disk \ Files(r)) \cup {Staged(r, "ready")}
        /\ req' = [req EXCEPT ![r] = "ready"]
     \/ /\ disk' = disk \ Files(r)
        /\ req' = [req EXCEPT ![r] = "leaving"]
  /\ UNCHANGED <<managerVars, litter, run, seen, crashes>>

\* What submit does under the lock once it is sure: the job is in the table, the
\* table is trimmed and a goroutine started.
Enqueue(r, files) ==
  LET t == Trimmed([jobs EXCEPT ![r] = [NoJob EXCEPT !.state = "queued"]], Append(order, r))
  IN  /\ jobs' = t.jobs /\ order' = t.order
      /\ running' = running + 1
      /\ run' = [run EXCEPT ![r] = [NoRun EXCEPT !.at = "queued", !.todo = files,
                                                  !.several = Len(files) > 1]]

\* SubmitReservedUpload: the job takes the slot of the permit and the file.
SubmitUpload(r) ==
  /\ req[r] = "ready" /\ r \in Uploads
  /\ IF closing \/ r \notin permits
     THEN /\ req' = [req EXCEPT ![r] = "leaving"]
          /\ UNCHANGED <<managerVars, disk, run>>
     ELSE /\ req' = [req EXCEPT ![r] = "submitted"]
          /\ disk' = (disk \ Files(r)) \cup {Staged(r, "work")}
          /\ permits' = permits \ {r}
          /\ uploading' = IF uploading > 0 THEN uploading - 1 ELSE uploading
          /\ \E files \in {i \in Inputs : Len(i) = 1} : Enqueue(r, files)
          /\ UNCHANGED <<limit, closing>>
  /\ UNCHANGED <<litter, seen, crashes>>

\* Submit: files of the server, and no slot was reserved.
SubmitPath(r) ==
  /\ req[r] = "idle" /\ r \in PathRequests
  /\ req' = [req EXCEPT ![r] = "done"]
  /\ IF closing \/ running + uploading >= limit
     THEN UNCHANGED <<running, order, jobs, run>>
     ELSE \E files \in Inputs : Enqueue(r, files)
  /\ UNCHANGED <<limit, closing, permits, uploading, disk, litter, seen, crashes>>

\* The deferred Remove and Release of the handler, in this order.
RemoveReady(r) ==
  /\ req[r] = "leaving"
  /\ disk' = disk \ {Staged(r, "ready")}
  /\ req' = [req EXCEPT ![r] = "removed"]
  /\ UNCHANGED <<managerVars, litter, run, seen, crashes>>

Leave(r) ==
  /\ req[r] \in {"removed", "submitted"}
  /\ ReleasePermit(r)
  /\ req' = [req EXCEPT ![r] = "done"]
  /\ UNCHANGED <<limit, closing, running, order, jobs, disk, litter, run, seen, crashes>>

-------------------------------------------------------------------------------
(* The goroutine of a job, run.                                            *)

Patched(r, job) == [jobs EXCEPT ![r] = IF jobs[r] = NoJob THEN NoJob ELSE job]
Done(r) == closing \/ run[r].expired
Goes(r, j) == run' = [run EXCEPT ![r] = j]

Start(r) ==
  /\ run[r].at = "queued"
  /\ jobs' = Patched(r, [jobs[r] EXCEPT !.state = "running"])
  /\ Goes(r, [run[r] EXCEPT !.at = "importing"])
  /\ UNCHANGED <<limit, closing, permits, uploading, running, order, req, disk, litter, seen, crashes>>

\* JobTimeout.
Expire(r) ==
  /\ run[r].at \in {"importing", "written"} /\ ~run[r].expired
  /\ Goes(r, [run[r] EXCEPT !.expired = TRUE])
  /\ UNCHANGED <<managerVars, req, disk, litter, seen, crashes>>

\* ImportFiles takes the result of one more file.  Files are read by several
\* workers unless there is a limit on the entries, so any may come first.
TakeResult(r) ==
  LET j == run[r] IN
  /\ j.at = "importing" /\ j.todo # <<>>
  /\ \E i \in IF MaxEntries > 0 THEN {1} ELSE DOMAIN j.todo :
     \E result \in ProcessFile(j.todo[i], Done(r)) :
     \E failAt \in IF Done(r) THEN {1} ELSE 0 .. Len(j.todo[i].entries) :
       LET w == Consume(j.writer, result, j.several, failAt)
       IN  Goes(r, [j EXCEPT !.writer = w, !.todo = RemoveAt(@, i), !.failed = w.error,
                             !.at = IF w.error THEN "ended" ELSE "importing"])
  /\ UNCHANGED <<managerVars, req, disk, litter, seen, crashes>>

\* The last flush, and the report.  A panic of the import ends the job as well.
EndImport(r) ==
  LET j == run[r] IN
  /\ j.at = "importing"
  /\ \E ok \in IF Done(r) THEN {FALSE} ELSE BOOLEAN :
       LET w == Flush(j.writer, ok)
       IN  /\ j.todo = <<>> \/ ~ok
           /\ Goes(r, [j EXCEPT !.writer = w, !.failed = w.error,
                                !.at = IF w.error THEN "ended" ELSE "written"])
  /\ UNCHANGED <<managerVars, req, disk, litter, seen, crashes>>

\* AfterImport lists the catalog in the order of priority, the first accounts if a
\* canary is set and as many as the index can hold if not, or fails to.
ListCatalog(r) ==
  /\ run[r].at = "written"
  /\ \/ /\ Goes(r, [run[r] EXCEPT !.at = "listed"])
        /\ seen' = [seen EXCEPT ![r] = run[r].writer.written]
     \/ /\ Goes(r, [run[r] EXCEPT !.at = "ended", !.failed = TRUE])
        /\ UNCHANGED seen
  /\ UNCHANGED <<managerVars, req, disk, litter, crashes>>

\* It replaces the index by what it listed, unless the index is closed.  What the
\* index then has is left out: accounts of the job may be beyond the canary or the
\* size, and a rebuild that listed before may replace the index after this one.
ReplaceIndex(r) ==
  /\ run[r].at = "listed"
  /\ \E ok \in BOOLEAN : Goes(r, [run[r] EXCEPT !.at = "ended", !.failed = ~ok])
  /\ UNCHANGED <<managerVars, req, disk, litter, seen, crashes>>

\* complete, before the lock: the file of the job is removed, or cannot be.
RemoveWork(r) ==
  /\ run[r].at = "ended"
  /\ \/ /\ disk' = disk \ {Staged(r, "work")}
        /\ Goes(r, [run[r] EXCEPT !.at = "removed"])
        /\ UNCHANGED litter
     \/ /\ Staged(r, "work") \in disk
        /\ Goes(r, [run[r] EXCEPT !.at = "removed", !.failed = TRUE])
        /\ litter' = litter \cup {Staged(r, "work")}
        /\ UNCHANGED disk
  /\ UNCHANGED <<managerVars, req, seen, crashes>>

\* complete, under the lock: slot, report and trim; then the wait group.
Complete(r) ==
  /\ run[r].at = "removed"
  /\ running' = IF running > 0 THEN running - 1 ELSE running
  /\ LET w == run[r].writer
         failed == run[r].failed \/ (w.failed > 0 /\ w.ok = 0)
         report == [state |-> IF failed THEN "failed" ELSE "succeeded", ok |-> w.ok, total |-> w.total]
         t == Trimmed(Patched(r, report), order)
     IN  jobs' = t.jobs /\ order' = t.order
  /\ Goes(r, Over(run[r]))
  /\ UNCHANGED <<limit, closing, permits, uploading, req, disk, litter, seen, crashes>>

\* ImportFiles returned early, and a worker it left behind reports progress on a
\* file nobody waits for: it writes its own count into the report of the job.
Straggle(r) ==
  LET j == run[r] IN
  /\ j.at \in {"ended", "removed", "done"} /\ j.todo # <<>> /\ Head(j.todo).format = "sso"
  /\ \E result \in ProcessFile(Head(j.todo), Done(r)) :
       jobs' = Patched(r, [jobs[r] EXCEPT !.ok = result.accounts,
                                          !.total = IF result.total > @ THEN result.total ELSE @])
  /\ Goes(r, [j EXCEPT !.todo = Tail(@)])
  /\ UNCHANGED <<limit, closing, permits, uploading, running, order, req, disk, litter, seen, crashes>>

-------------------------------------------------------------------------------
(* The manager.                                                            *)

ApplyOptions ==
  /\ limit' \in Limits
  /\ UNCHANGED <<closing, permits, uploading, running, order, jobs, req, disk, litter, run, seen, crashes>>

\* Close: no more jobs, and the context of all of them ends.
Close ==
  /\ ~closing /\ closing' = TRUE
  /\ UNCHANGED <<limit, permits, uploading, running, order, jobs, req, disk, litter, run, seen, crashes>>

\* The process dies at any point and starts again: initStaging removes the files
\* that are old enough.  Requests and jobs of the earlier life are gone.
Crash ==
  /\ crashes < MaxCrashes /\ crashes' = crashes + 1
  /\ \E young \in SUBSET disk : disk' = young /\ litter' = young
  /\ limit' \in Limits
  /\ closing' = FALSE /\ permits' = {} /\ uploading' = 0 /\ running' = 0 /\ order' = <<>>
  /\ jobs' = [r \in Requests |-> NoJob]
  /\ req' = [r \in Requests |-> IF req[r] = "idle" THEN "idle" ELSE "done"]
  /\ run' = [r \in Requests |-> NoRun]
  /\ seen' = [r \in Requests |-> 0]

RequestStep(r) ==
  StageEnd(r) \/ SubmitUpload(r) \/ RemoveReady(r) \/ Leave(r)

JobStep(r) ==
  \/ Start(r) \/ TakeResult(r) \/ EndImport(r)
  \/ ListCatalog(r) \/ ReplaceIndex(r) \/ RemoveWork(r) \/ Complete(r)

Next ==
  \/ \E r \in Requests :
       \/ Reserve(r) \/ Reject(r) \/ StageBegin(r) \/ RequestStep(r) \/ SubmitPath(r)
       \/ Expire(r) \/ JobStep(r) \/ Straggle(r)
  \/ ApplyOptions \/ Close \/ Crash

Spec == Init /\ [][Next]_vars

-------------------------------------------------------------------------------
(* Properties.                                                             *)

Unfinished == {r \in Requests : run[r].at \notin {"none", "done"}}

\* Slots are conserved: one per upload being read and per job that is not done,
\* handed over between the two, so new work is only admitted below the limit.
SlotsConserved ==
  /\ uploading = Cardinality(permits) /\ running = Cardinality(Unfinished)
  /\ permits = {r \in Uploads : req[r] \in {"reserved", "staging", "ready", "leaving", "removed"}}
  /\ running + uploading <= Max(Limits)

\* Every staged file has one owner that will remove it, a request or a job, or was
\* left by an earlier life or by a removal that failed.
FilesOwned ==
  /\ \A f \in disk \ litter :
       \/ f.stage = "part" /\ req[f.name] = "staging"
       \/ f.stage = "ready" /\ req[f.name] \in {"ready", "leaving"}
       \/ f.stage = "work" /\ run[f.name].at \in {"queued", "importing", "written", "listed", "ended"}
  /\ \A r \in Uploads : run[r].at \in {"queued", "importing"} => Staged(r, "work") \in disk

\* The table lists each job once, has every unfinished one, and keeps MaxKeep jobs
\* or, if more than that are unfinished, those.
TableComplete ==
  /\ IsInjective(order)
  /\ ToSet(order) = {r \in Requests : jobs[r] # NoJob}
  /\ \A r \in Unfinished : jobs[r].state \in {"queued", "running"}
  /\ Len(order) <= Max({MaxKeep, Cardinality(Unfinished)})

\* A job reported as succeeded has put into the catalog every account it counts,
\* whatever batches failed and workers were left behind; its rebuild of the index
\* chose among accounts that included them; its file is gone and its report never
\* changes again.  It does not promise that the index has the accounts.
SuccessTruthful ==
  \A r \in Requests :
    jobs[r].state = "succeeded" =>
      /\ jobs[r].ok = run[r].writer.written
      /\ seen[r] = jobs[r].ok
      /\ jobs[r].total >= jobs[r].ok
      /\ Files(r) \cap disk = {}

==============================================================================
