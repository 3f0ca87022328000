------------------------------ MODULE ScanJob ------------------------------
(***************************************************************************)
(* One CVE scan in the cluster: the command creates a Job, polls it until  *)
(* a deadline, reads the log of its pod, deletes the Job and makes of the  *)
(* log what trivy said of each image (internal/kube/cve_job.go and         *)
(* internal/cve/scanner.go).  image-cve scans one image and takes the log  *)
(* for the report; image-list scans several, framed by markers.            *)
(*                                                                         *)
(* A report is one line of the log that names the image it is about.       *)
(***************************************************************************)
EXTENDS Integers, Sequences, SequencesExt

CONSTANTS
    Images,     \* images that may be scanned
    NoImage,
    Requests,   \* scans a user may ask for: [images, batch]
    Budget      \* how often each move of the environment may happen

Moves == {"fault", "kill", "podLost", "namespaceLost"}

\* The images of a batch are those of the tags OrderTags has left, which drops
\* what is there twice (internal/policy/tags.go).
ASSUME ScanAssumption ==
    /\ NoImage \notin Images
    /\ \A r \in Requests : /\ r.images \in Seq(Images) /\ r.images # <<>>
                           /\ IsInjective(r.images) /\ r.batch \in BOOLEAN
                           /\ ~r.batch => Len(r.images) = 1
    /\ Budget \in [Moves -> Nat]

VARIABLES
    scan,       \* what trivy makes of each image
    cmd,        \* the command; failed: the call that failed (history)
    namespace,  \* whether the namespace of scan jobs exists
    job,        \* the Job
    pod,        \* its pod: phase, log, lines to come, exit code
    expired,    \* the deadline has passed
    budget

vars == <<scan, cmd, namespace, job, pod, expired, budget>>

\* A report; one with a line of more than 64 KB; one among messages; a failure;
\* a failure after the report; one that leaves an unfinished line behind.
Outcomes == {"clean", "long", "noisy", "failed", "late", "cut"}

NoJob == [exists |-> FALSE, succeeded |-> FALSE, failed |-> FALSE]
\* "Pending" is also a pod the job controller has not created yet.
NoPod == [phase |-> "none", log |-> <<>>, todo |-> <<>>, exit |-> 0]
NoAnswer == [out |-> "error", reports |-> {}]

Init ==
    /\ scan \in [Images -> Outcomes]
    /\ \E r \in Requests :
          cmd = [pc |-> "namespace", images |-> r.images, batch |-> r.batch,
                 why |-> "", out |-> "", reports |-> {}, failed |-> ""]
    /\ namespace \in BOOLEAN
    /\ job = NoJob
    /\ pod = NoPod
    /\ expired = FALSE
    /\ budget = Budget

Spend(move) == budget[move] > 0 /\ budget' = [budget EXCEPT ![move] = @ - 1]

Goto(pc) == cmd' = [cmd EXCEPT !.pc = pc]

\* The command goes to pc and will end with this answer.
Settle(pc, answer) ==
    cmd' = [cmd EXCEPT !.pc = pc, !.out = answer.out, !.reports = answer.reports]

---------------------------------------------------------------------------
(* The script in the pod, and what it writes.                              *)

Line(kind, image, rc) == [kind |-> kind, image |-> image, rc |-> rc]
Noise == Line("noise", NoImage, 0)

TrivyOutput(i) ==
    CASE scan[i] \in {"clean", "late"} -> <<Line("report", i, 0)>>
      [] scan[i] = "long" -> <<Line("longReport", i, 0)>>
      [] scan[i] = "noisy" -> <<Noise, Line("report", i, 0)>>
      [] scan[i] \in {"failed", "cut"} -> <<Noise>>

ExitCode(i) == IF scan[i] \in {"failed", "late", "cut"} THEN 1 ELSE 0

\* After an unfinished line the marker with the exit code is no line of its own.
Framed(i) ==
    <<Line("begin", i, 0)>> \o TrivyOutput(i)
    \o (IF scan[i] = "cut" THEN <<>> ELSE <<Line("rc", i, ExitCode(i))>>)
    \o <<Line("end", i, 0)>>

\* createScanJob looks at the number of images: one is never framed.
Script ==
    IF Len(cmd.images) = 1
    THEN [log |-> TrivyOutput(cmd.images[1]), exit |-> ExitCode(cmd.images[1])]
    ELSE [log |-> FlattenSeq([n \in DOMAIN cmd.images |-> Framed(cmd.images[n])]), exit |-> 0]

\* The VEX report is fetched first: at once, with failed attempts that leave a
\* message in the log, or not at all.
PodStarts ==
    /\ pod.phase = "Pending"
    /\ \E start \in {Script, [Script EXCEPT !.log = <<Noise>> \o @], [log |-> <<Noise>>, exit |-> 1]} :
          pod' = [pod EXCEPT !.phase = "Running", !.todo = start.log, !.exit = start.exit]
    /\ UNCHANGED <<scan, cmd, namespace, job, expired, budget>>

PodWrites ==
    /\ pod.phase = "Running" /\ pod.todo # <<>>
    /\ pod' = [pod EXCEPT !.log = Append(@, Head(pod.todo)), !.todo = Tail(@)]
    /\ UNCHANGED <<scan, cmd, namespace, job, expired, budget>>

PodExits ==
    /\ pod.phase = "Running" /\ pod.todo = <<>>
    /\ pod' = [pod EXCEPT !.phase = IF pod.exit = 0 THEN "Succeeded" ELSE "Failed"]
    /\ UNCHANGED <<scan, cmd, namespace, job, expired, budget>>

PodLost ==
    /\ pod.phase # "none"
    /\ Spend("podLost")
    /\ pod' = NoPod
    /\ UNCHANGED <<scan, cmd, namespace, job, expired>>

\* The job controller, some time later; there is no second attempt.
JobReports ==
    /\ job.exists /\ ~job.succeeded /\ ~job.failed
    /\ \/ pod.phase = "Succeeded" /\ job' = [job EXCEPT !.succeeded = TRUE]
       \/ pod.phase \in {"Failed", "none"} /\ job' = [job EXCEPT !.failed = TRUE]
    /\ UNCHANGED <<scan, cmd, namespace, pod, expired, budget>>

NamespaceLost ==
    /\ namespace
    /\ Spend("namespaceLost")
    /\ namespace' = FALSE /\ job' = NoJob /\ pod' = NoPod
    /\ UNCHANGED <<scan, cmd, expired>>

\* The context of waitForScanJobCompletion.
DeadlinePasses ==
    /\ cmd.pc = "poll" /\ ~expired
    /\ expired' = TRUE
    /\ UNCHANGED <<scan, cmd, namespace, job, pod, budget>>

---------------------------------------------------------------------------
(* What the command makes of the log.                                      *)

IsReport(lines) == Len(lines) = 1 /\ lines[1].kind \in {"report", "longReport"}

\* rc -1 stands for no marker.
Unread == [current |-> NoImage, chunks |-> [i \in Images |-> <<>>], rcs |-> [i \in Images |-> -1]]

\* listCVEsForImagesInCluster, line by line.
Parse(read, line) ==
    CASE line.kind = "begin" -> [read EXCEPT !.current = line.image]
      [] line.kind = "rc" -> [read EXCEPT !.rcs[line.image] = line.rc]
      [] line.kind = "end" ->
            IF read.current = line.image THEN [read EXCEPT !.current = NoImage] ELSE read
      [] OTHER -> IF read.current # NoImage
                  THEN [read EXCEPT !.chunks[read.current] = Append(@, line)] ELSE read

\* What is known after each line.
Reading(log) ==
    LET read[n \in 0..Len(log)] == IF n = 0 THEN Unread ELSE Parse(read[n - 1], log[n])
    IN  read

Parsed(log) == Reading(log)[Len(log)]

\* Mutant: the exit code is not looked at.
BatchReportsWhateverTheCode(log) ==
    {<<i, Parsed(log).chunks[i][1].image>> :
        i \in {j \in ToSet(cmd.images) : IsReport(Parsed(log).chunks[j])}}

\* The images with a report, each with the image its report names.  All others
\* get an error of their own.
BatchReports(log) ==
    {<<i, Parsed(log).chunks[i][1].image>> :
        i \in {j \in ToSet(cmd.images) :
                  Parsed(log).rcs[j] = 0 /\ IsReport(Parsed(log).chunks[j])}}

\* A line too long for the scanner fails the whole batch.
Answer(log) ==
    IF cmd.batch
    THEN IF \E n \in DOMAIN log : log[n].kind = "longReport" THEN NoAnswer
         ELSE [out |-> "ok", reports |-> BatchReports(log)]
    ELSE IF IsReport(log)
         THEN [out |-> "ok", reports |-> {<<cmd.images[1], log[1].image>>}]
         ELSE NoAnswer

---------------------------------------------------------------------------
(* runScanJob.                                                             *)

\* A missing namespace is created if the user approves.
EnsureNamespace ==
    /\ cmd.pc = "namespace"
    /\ IF namespace THEN Goto("create") ELSE Goto("createNamespace") \/ Settle("done", NoAnswer)
    /\ UNCHANGED <<scan, namespace, job, pod, expired, budget>>

CreateNamespace ==
    /\ cmd.pc = "createNamespace"
    /\ namespace' = TRUE
    /\ Goto("create")
    /\ UNCHANGED <<scan, job, pod, expired, budget>>

JobCreated ==
    /\ job' = [NoJob EXCEPT !.exists = TRUE]
    /\ pod' = [NoPod EXCEPT !.phase = "Pending"]

CreateScanJob ==
    /\ cmd.pc = "create"
    /\ IF namespace THEN JobCreated /\ Goto("poll")
       ELSE Settle("done", NoAnswer) /\ UNCHANGED <<job, pod>>
    /\ UNCHANGED <<scan, namespace, expired, budget>>

ReadLogsFor(why) == cmd' = [cmd EXCEPT !.pc = "logs", !.why = why]

\* Mutant: the log at the deadline counts like that of a finished job.
PollPartialLogs ==
    /\ cmd.pc = "poll"
    /\ \/ (expired \/ job.succeeded) /\ ReadLogsFor("succeeded")
       \/ ~expired /\ job.failed /\ ReadLogsFor("failed")
       \/ ~expired /\ ~job.exists /\ Settle("delete", NoAnswer)
    /\ UNCHANGED <<scan, namespace, job, pod, expired, budget>>

\* Mutant: a job that never gets a pod is polled for ever.
PollForEver ==
    /\ cmd.pc = "poll"
    /\ \/ job.succeeded /\ ReadLogsFor("succeeded")
       \/ job.failed /\ ReadLogsFor("failed")
       \/ ~job.exists /\ Settle("delete", NoAnswer)
    /\ UNCHANGED <<scan, namespace, job, pod, expired, budget>>

\* Past the deadline no call succeeds, whatever the job has come to.
Poll ==
    /\ cmd.pc = "poll"
    /\ \/ expired /\ ReadLogsFor("timeout")
       \/ ~expired /\ job.succeeded /\ ReadLogsFor("succeeded")
       \/ ~expired /\ job.failed /\ ReadLogsFor("failed")
       \/ ~expired /\ ~job.exists /\ Settle("delete", NoAnswer)
    /\ UNCHANGED <<scan, namespace, job, pod, expired, budget>>

\* waitForJobLogs: the log of a failed or late job only explains the error.
ReadLogs ==
    /\ cmd.pc = "logs"
    /\ pod.phase \in {"Running", "Succeeded", "Failed"}
    /\ Settle("delete", IF cmd.why = "succeeded" THEN Answer(pod.log) ELSE NoAnswer)
    /\ UNCHANGED <<scan, namespace, job, pod, expired, budget>>

\* Mutant: the error is returned before the deletion is deferred.
LogsUnavailableThenReturn ==
    /\ cmd.pc = "logs"
    /\ pod.phase \in {"none", "Pending"}
    /\ Settle("done", NoAnswer)
    /\ UNCHANGED <<scan, namespace, job, pod, expired, budget>>

LogsUnavailable ==
    /\ cmd.pc = "logs"
    /\ pod.phase \in {"none", "Pending"}
    /\ Settle("delete", NoAnswer)
    /\ UNCHANGED <<scan, namespace, job, pod, expired, budget>>

\* The deferred deletion takes the pod along.
DeleteJob ==
    /\ cmd.pc = "delete"
    /\ job' = NoJob /\ pod' = NoPod
    /\ Goto("done")
    /\ UNCHANGED <<scan, namespace, expired, budget>>

\* A call fails.  A failed deletion is ignored.
Fails ==
    /\ cmd.pc \notin {"done", "killed"}
    /\ Spend("fault")
    /\ cmd' = [cmd EXCEPT !.failed = cmd.pc,
                 !.pc = IF cmd.pc \in {"poll", "logs"} THEN "delete" ELSE "done",
                 !.out = IF cmd.pc = "delete" THEN @ ELSE "error"]

CallFails == Fails /\ UNCHANGED <<scan, namespace, job, pod, expired>>

\* The call has its effect, but the command does not hear of it.
AnswerLost ==
    /\ Fails
    /\ \/ cmd.pc = "createNamespace" /\ namespace' = TRUE /\ UNCHANGED <<job, pod>>
       \/ cmd.pc = "create" /\ namespace /\ JobCreated /\ UNCHANGED namespace
    /\ UNCHANGED <<scan, expired>>

\* An interrupt; no deferred call runs.
Killed ==
    /\ cmd.pc \notin {"done", "killed"}
    /\ Spend("kill")
    /\ Settle("killed", NoAnswer)
    /\ UNCHANGED <<scan, namespace, job, pod, expired>>

CommandStep ==
    \/ EnsureNamespace \/ CreateNamespace \/ CreateScanJob \/ Poll \/ ReadLogs
    \/ LogsUnavailable \/ DeleteJob

Next ==
    \/ CommandStep \/ CallFails \/ AnswerLost \/ Killed
    \/ PodStarts \/ PodWrites \/ PodExits \/ PodLost \/ JobReports
    \/ NamespaceLost \/ DeadlinePasses

Spec == Init /\ [][Next]_vars

\* The command goes on and time passes; the cluster may do nothing at all.
FairSpec == Spec /\ WF_vars(CommandStep) /\ WF_vars(DeadlinePasses)

---------------------------------------------------------------------------
(* Properties.                                                             *)

\* The CVEs reported for an image are those of a scan of this very image that
\* succeeded: not of another image of the batch, of a log cut short, or of a
\* scan that failed (framing and exit codes, listCVEsForImagesInCluster).
ReportsAreTrue ==
    \A r \in cmd.reports : r[2] = r[1] /\ ExitCode(r[1]) = 0

\* README.md:136: "CVEs are collected for: the current image tag, the previous
\* image tag, and newer tags".  image-list that succeeds has a report for every
\* image of the batch that trivy could scan, the failures of others aside.
ScannedMeansReported ==
    cmd.pc = "done" /\ cmd.out = "ok" /\ cmd.batch =>
        \A i \in ToSet(cmd.images) : scan[i] = "clean" => <<i, i>> \in cmd.reports

\* The command ends, even if the pod never starts or never stops
\* (waitForScanJobCompletion, waitForJobLogs).
EventuallyDone == <>(cmd.pc \in {"done", "killed"})

\* A command that ends by itself leaves no Job behind, whichever way it ends,
\* unless the call that creates or deletes it failed (runScanJob: the deletion
\* is deferred before anything else can fail).
JobIsDeleted == cmd.pc = "done" /\ cmd.failed \notin {"create", "delete"} => ~job.exists
=============================================================================
