----------------------------- MODULE MCServices -----------------------------
(***************************************************************************)
(* The services that keep state of their own beside the inventory: the     *)
(* watchdog with its monitors, the exporter, the process scanner and the   *)
(* event sender for several entities.  They share nothing, so each         *)
(* behaviour moves one of them and the others stay as they began.          *)
(***************************************************************************)
EXTENDS Watchdog, ResourceMonitor, UsageMonitor, VortexSender, Exporter, ProcessScanner

VARIABLE part    \* the service that moves

mcvars == <<part, watchdogVars, monitorVars, usageVars, vortexVars, exporterVars, scannerVars>>

mcCircuit == [Enabled |-> TRUE, FailureThreshold |-> 2, HalfOpenSuccessThreshold |-> 2]

mcExportCircuit == [Enabled |-> TRUE, FailureThreshold |-> 1, HalfOpenSuccessThreshold |-> 1]

\* The levels are chosen where they matter.
mcMonitorInit ==
  IF part = "monitor" THEN NewResourceMonitor
  ELSE NewResourceMonitor /\ levels = <<[cpu |-> 1, mem |-> 1], [cpu |-> 1, mem |-> 1]>>

mcInit ==
  /\ part \in {"watchdog", "monitor", "usage", "vortex", "exporter", "scanner"}
  /\ WatchdogInit /\ mcMonitorInit /\ NewComponentMonitor /\ VortexInit /\ NewBaseExporter
  /\ NewProcessScanner

mcNext ==
  /\ UNCHANGED part
  /\ \/ /\ part = "watchdog" /\ WatchdogNext
        /\ UNCHANGED <<monitorVars, usageVars, vortexVars, exporterVars, scannerVars>>
     \/ /\ part = "monitor" /\ MonitorNext
        /\ UNCHANGED <<watchdogVars, usageVars, vortexVars, exporterVars, scannerVars>>
     \/ /\ part = "usage" /\ UsageNext
        /\ UNCHANGED <<watchdogVars, monitorVars, vortexVars, exporterVars, scannerVars>>
     \/ /\ part = "vortex" /\ VortexNext
        /\ UNCHANGED <<watchdogVars, monitorVars, usageVars, exporterVars, scannerVars>>
     \/ /\ part = "exporter" /\ ExporterNext
        /\ UNCHANGED <<watchdogVars, monitorVars, usageVars, vortexVars, scannerVars>>
     \/ /\ part = "scanner" /\ ScannerNext
        /\ UNCHANGED <<watchdogVars, monitorVars, usageVars, vortexVars, exporterVars>>

mcSpec == mcInit /\ [][mcNext]_mcvars
=============================================================================
