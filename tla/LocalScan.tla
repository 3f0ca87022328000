------------------------------ MODULE LocalScan ------------------------------
(***************************************************************************)
(* CVE scans on the operator's machine (internal/cve/scanner.go): for each *)
(* image trivy, then grype as the fallback, both with the VEX report that  *)
(* all commands of a user share in one file.  A file that is missing or    *)
(* older than vexMaxFileAge is downloaded, into a temporary file first.    *)
(*                                                                         *)
(* The images of a command are counted down; what a tool makes of one is   *)
(* open.                                                                   *)
(***************************************************************************)
EXTENDS Integers

CONSTANTS
    Commands,             \* commands that run at the same time
    ImageCount,           \* how many images each of them scans
    vexDownloadAttempts,
    LocalBudget           \* how often each move of the environment may happen

LocalMoves == {"age", "remove", "disk", "kill"}

ASSUME LocalScanAssumption ==
    /\ ImageCount \in [Commands -> Nat \ {0}]
    /\ vexDownloadAttempts \in Nat \ {0}
    /\ LocalBudget \in [LocalMoves -> Nat]

VARIABLES
    installed,  \* tools on the PATH
    file,       \* the VEX file: how old it is, and whether it is complete
    scans,      \* the commands
    moves       \* moves of the environment that are left

localVars == <<installed, file, scans, moves>>

NoFile == [age |-> "none", whole |-> FALSE]

Nothing == [what |-> "nothing"]

\* found: the age of the file when ensureLocalVEXFile looked.  current: the file
\* has been young enough since then (history).  last: what came of the last
\* attempt to use a tool (history).
Start(p) == [pc |-> "look", image |-> ImageCount[p], tool |-> "trivy", found |-> "none",
             current |-> FALSE, attempt |-> 0, temporary |-> "none", last |-> Nothing]

LocalInit ==
    /\ installed \in SUBSET {"trivy", "grype"}
    /\ file \in {NoFile, [age |-> "young", whole |-> TRUE], [age |-> "old", whole |-> TRUE]}
    /\ scans = [p \in Commands |-> Start(p)]
    /\ moves = LocalBudget

LocalSpend(move) == moves[move] > 0 /\ moves' = [moves EXCEPT ![move] = @ - 1]

Become(p, command) == scans' = [scans EXCEPT ![p] = command]

---------------------------------------------------------------------------
(* scanImageLocally.                                                       *)

\* What is remembered of an attempt, for the properties.
Noted(command, what) ==
    [command EXCEPT !.found = "none", !.current = FALSE, !.attempt = 0,
        !.last = [what |-> what, old |-> file.age = "old", found |-> command.found,
                  current |-> command.current, attempts |-> command.attempt]]

\* The image is dealt with.
NextImage(command) ==
    IF command.image = 1 THEN [command EXCEPT !.pc = "done"]
    ELSE [command EXCEPT !.pc = "look", !.image = @ - 1, !.tool = "trivy"]

\* The tool is of no use for this image; grype is asked when trivy is not.
ToolFails(command, what) ==
    IF command.tool = "trivy" THEN [Noted(command, what) EXCEPT !.pc = "look", !.tool = "grype"]
    ELSE NextImage(Noted(command, what))

LookPath(p) ==
    /\ scans[p].pc = "look"
    /\ Become(p, IF scans[p].tool \in installed THEN [scans[p] EXCEPT !.pc = "vex", !.last = Nothing]
                 ELSE ToolFails(scans[p], "notInstalled"))
    /\ UNCHANGED <<installed, file, moves>>

\* trivyCVEs and grypeCVEs read the file when the tool runs; it may be another
\* one by then.
RunTool(p) ==
    /\ scans[p].pc = "run"
    /\ \/ /\ file.whole
          /\ Become(p, NextImage(Noted(scans[p], "report")))
       \/ Become(p, ToolFails(scans[p], "toolFailed"))
    /\ UNCHANGED <<installed, file, moves>>

---------------------------------------------------------------------------
(* ensureLocalVEXFile and downloadVEXFileOnce.                             *)

\* Mutant: a file that is there is used, however old it is.
EnsureAnyVEXFile(p) ==
    /\ scans[p].pc = "vex"
    /\ LET looked == [scans[p] EXCEPT !.found = file.age, !.current = (file.age = "young")]
       IN  IF file.age # "none" THEN Become(p, [looked EXCEPT !.pc = "run", !.attempt = 0])
           ELSE Become(p, [looked EXCEPT !.pc = "get", !.attempt = 1])
    /\ UNCHANGED <<installed, file, moves>>

ensureLocalVEXFile(p) ==
    /\ scans[p].pc = "vex"
    /\ LET looked == [scans[p] EXCEPT !.found = file.age, !.current = (file.age = "young")]
       IN  IF file.age = "young" THEN Become(p, [looked EXCEPT !.pc = "run", !.attempt = 0])
           ELSE Become(p, [looked EXCEPT !.pc = "get", !.attempt = 1])
    /\ UNCHANGED <<installed, file, moves>>

\* No home directory, or the cache cannot be read.
CacheUnusable(p) ==
    /\ scans[p].pc = "vex"
    /\ LocalSpend("disk")
    /\ Become(p, ToolFails(scans[p], "noCache"))
    /\ UNCHANGED <<installed, file>>

\* Mutant: the download goes straight into the file.
DownloadInPlace(p) ==
    /\ scans[p].pc = "get"
    /\ Become(p, [scans[p] EXCEPT !.pc = "copy", !.temporary = "partial"])
    /\ file' = [age |-> "young", whole |-> FALSE]
    /\ UNCHANGED <<installed, moves>>

\* The server answers 200 with something compressed.
ServerAnswers(p) ==
    /\ scans[p].pc = "get"
    /\ Become(p, [scans[p] EXCEPT !.pc = "copy", !.temporary = "partial"])
    /\ UNCHANGED <<installed, file, moves>>

CopyReport(p) ==
    /\ scans[p].pc = "copy"
    /\ Become(p, [scans[p] EXCEPT !.pc = "rename", !.temporary = "whole"])
    /\ UNCHANGED <<installed, file, moves>>

Rename(p) ==
    /\ scans[p].pc = "rename"
    /\ file' = [age |-> "young", whole |-> scans[p].temporary = "whole"]
    /\ Become(p, [scans[p] EXCEPT !.pc = "run", !.temporary = "none", !.current = TRUE])
    /\ UNCHANGED <<installed, moves>>

Retry(command) == [command EXCEPT !.pc = "get", !.attempt = @ + 1, !.temporary = "none"]

\* Mutant: the old file is not fallen back on.
DownloadFailsForGood(p) ==
    /\ scans[p].pc \in {"get", "copy", "rename"}
    /\ LET closed == [scans[p] EXCEPT !.temporary = "none"]
       IN  Become(p, IF closed.attempt < vexDownloadAttempts THEN Retry(closed)
                     ELSE ToolFails(closed, "noReport"))
    /\ UNCHANGED <<installed, file, moves>>

\* Mutant: an attempt that fails does not count.
DownloadFailsUncounted(p) ==
    /\ scans[p].pc \in {"get", "copy", "rename"}
    /\ Become(p, [scans[p] EXCEPT !.pc = "get", !.temporary = "none"])
    /\ UNCHANGED <<installed, file, moves>>

\* The request, the copy or the rename fails; the temporary file is removed.
\* After the last attempt the old file is used if there was one.
DownloadFails(p) ==
    /\ scans[p].pc \in {"get", "copy", "rename"}
    /\ LET closed == [scans[p] EXCEPT !.temporary = "none"]
       IN  Become(p, IF closed.attempt < vexDownloadAttempts THEN Retry(closed)
                     ELSE IF closed.found # "none" THEN [closed EXCEPT !.pc = "run"]
                     ELSE ToolFails(closed, "noReport"))
    /\ UNCHANGED <<installed, file, moves>>

\* http.Get has no timeout: a server that stops to answer stops the command.
ServerHangs(p) ==
    /\ scans[p].pc \in {"get", "copy"}
    /\ Become(p, [Start(p) EXCEPT !.pc = "hung"])
    /\ UNCHANGED <<installed, file, moves>>

---------------------------------------------------------------------------
(* The environment.                                                        *)

Ended(p) == scans[p].pc \in {"done", "hung", "killed"}

\* The deferred removal of the temporary file does not run.
CommandKilled(p) ==
    /\ scans[p].pc \notin {"done", "killed"}
    /\ LocalSpend("kill")
    /\ Become(p, [Start(p) EXCEPT !.pc = "killed"])
    /\ UNCHANGED <<installed, file>>

FileAges ==
    /\ file.age = "young"
    /\ LocalSpend("age")
    /\ file' = [file EXCEPT !.age = "old"]
    /\ UNCHANGED <<installed, scans>>

FileRemoved ==
    /\ file.age # "none"
    /\ LocalSpend("remove")
    /\ file' = NoFile
    /\ UNCHANGED <<installed, scans>>

ScanStep(p) ==
    \/ LookPath(p) \/ ensureLocalVEXFile(p) \/ CacheUnusable(p)
    \/ ServerAnswers(p) \/ CopyReport(p) \/ Rename(p) \/ DownloadFails(p) \/ ServerHangs(p)
    \/ RunTool(p)

LocalNext == (\E p \in Commands : ScanStep(p) \/ CommandKilled(p)) \/ FileAges \/ FileRemoved

LocalSpec == LocalInit /\ [][LocalNext]_localVars

\* Every command goes on.
LocalFairness == \A p \in Commands : WF_localVars(ScanStep(p))

---------------------------------------------------------------------------
(* Properties.                                                             *)

\* What is at the path of the VEX report is a complete report, whichever
\* command downloads it, fails or is killed in the middle, so that no scan
\* reads half of it (downloadVEXFileOnce: temporary file and rename).
ReportIsWhole == file.age # "none" => file.whole

\* README.md:106-107: a file older than 24 hours is used only when a refresh
\* failed as often as it may.  A scan with an old file is one whose command saw
\* it young, or has itself failed at every attempt to replace it.
OldOnlyAfterFailures ==
    \A p \in Commands :
        LET last == scans[p].last
        IN  last.what = "report" /\ last.old =>
                last.current \/ (last.found = "old" /\ last.attempts = vexDownloadAttempts)

\* README.md:106-107: "on failure, the stale local file is still used".  A tool
\* goes without a report only if there was none when the command looked, and
\* every attempt at one failed.
OldIsBetterThanNone ==
    \A p \in Commands :
        LET last == scans[p].last
        IN  last.what = "noReport" =>
                last.found = "none" /\ last.attempts = vexDownloadAttempts

\* Every command ends, whatever the server, the disk and the other commands do,
\* unless the server leaves it waiting.
LocalScansEnd == <>(\A p \in Commands : Ended(p))
=============================================================================
