-------------------------- MODULE MCParquetRefresh --------------------------
(* Instances of ParquetRefresh for TLC: the fault sets of the runs. *)
EXTENDS ParquetRefresh, TLC

\* What the roll-back recovers from without a restart of workers that already
\* run, and a second failed start.
RecoverableFaults ==
    {"begin", "prepare", "generate", "stop", "backupCatalog", "backupMapfile",
     "installCatalog", "installMapfile", "start", "restart", "failed"}
\* With them, the statements of the roll-back itself and a failing first unlink.
RollbackFaults ==
    RecoverableFaults \union {"dropCatalog", "undo", "restoreCatalog", "restoreMapfile"}
\* Every failure but those of the "except" branch itself, whose exception
\* replaces the first one before it is reported.
ReportedFaults == MayRaise \ UndoSteps
\* A full disk when the status is written, after the backups are gone.
StatusFault == {"ready"}

\* The disruptions of the runs.
NoDisruptions == {}
OnlyRestarts == {"adminRestart"}
AdminEdits == {"adminRestart", "settings"}
Crashes == Disruption \ {"settings"}

\* Ids, processes and workers are interchangeable.
Symmetry ==
    Permutations(Generation) \union Permutations(Proc) \union Permutations(Worker)
=============================================================================
