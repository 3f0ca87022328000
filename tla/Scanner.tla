------------------------------- MODULE Scanner -------------------------------
(***************************************************************************)
(* A scan asked for by image-cve or image-list --with-cves: in the cluster *)
(* or on the operator's machine (internal/cve/scanner.go).                 *)
(***************************************************************************)
EXTENDS ScanJob, LocalScan

VARIABLE mode   \* RKE2_PATCHER_SCANNER_MODE

scannerVars == <<mode, vars, localVars>>

\* The half the mode does not use is at rest.
NoScanJob ==
    /\ scan = [i \in Images |-> "clean"]
    /\ cmd = [pc |-> "done", failed |-> "", out |-> "error", batch |-> FALSE, reports |-> {}]
    /\ namespace = FALSE /\ job = NoJob /\ pod = NoPod
    /\ expired = FALSE /\ budget = Budget

NoLocalScan ==
    /\ installed = {} /\ file = NoFile
    /\ scans = [p \in Commands |-> [Start(p) EXCEPT !.pc = "done"]]
    /\ moves = LocalBudget

\* resolveScanMode: anything but the two modes is an error before any scan.
ScannerInit ==
    \/ mode = "cluster" /\ Init /\ NoLocalScan
    \/ mode = "local" /\ LocalInit /\ NoScanJob

\* ListCVEsForImage and ListCVEsForImages.
ScannerNext ==
    \/ mode = "cluster" /\ Next /\ UNCHANGED <<mode, localVars>>
    \/ mode = "local" /\ LocalNext /\ UNCHANGED <<mode, vars>>

ScannerSpec == ScannerInit /\ [][ScannerNext]_scannerVars

\* That of both halves.
ScannerFairSpec ==
    /\ ScannerSpec
    /\ WF_scannerVars(mode = "cluster" /\ CommandStep /\ UNCHANGED <<mode, localVars>>)
    /\ WF_scannerVars(mode = "cluster" /\ DeadlinePasses /\ UNCHANGED <<mode, localVars>>)
    /\ \A p \in Commands :
          WF_scannerVars(mode = "local" /\ ScanStep(p) /\ UNCHANGED <<mode, vars>>)
=============================================================================
