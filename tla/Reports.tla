---------------------------------- MODULE Reports ----------------------------------
(***************************************************************************)
(* Reports of threads (report.cpp) reach monitors (report_monitor.cpp,        *)
(* report_monitor_file.cpp) through one message that all of them share        *)
(* (report_msg.cpp), which drops those that no registered level asks for.      *)
(* Flags are left out: every monitor takes every kind of report.             *)
(***************************************************************************)
EXTENDS Naturals

CONSTANTS
  Reporters,   \* threads
  Monitors,
  MonitorIds,  \* the lower 32 bits of their addresses
  GlobalId,    \* and of gbl_debuglevel's
  Severities,  \* levels of reports, monitors and gbl_debuglevel
  DebugLevel   \* 3: gbl_debuglevel at first

ASSUME ReportsAssumption == GlobalId \notin MonitorIds /\ Severities \subseteq Nat /\ DebugLevel \in Nat

VARIABLES
  active,      \* gbl_reportingActive
  debugLevel,  \* gbl_debuglevel
  debugLevels, \* _debuglevels of the message
  msgLevel,    \* _level of the message
  monitor,     \* at: none, made, on (initialized) or dying; id, level and enabled
  reporter,    \* the report of a thread that is on its way, and observer: its level and
               \* those of the reports that other threads made since
  reportOdd    \* observer: "shared", an id, "unregistered", a level, "dead", a call
               \* of a monitor that is half destroyed; "wrong", who a report reached

reportVars == <<active, debugLevel, debugLevels, msgLevel, monitor, reporter, reportOdd>>

Unmade == [at |-> "none", id |-> GlobalId, level |-> 0, enabled |-> TRUE]
Silent == [busy |-> FALSE, levels |-> {}]

ReportInit ==
  /\ active = FALSE /\ debugLevel = DebugLevel
  /\ debugLevels = [id \in {} |-> 0] /\ msgLevel = 0
  /\ monitor = [m \in Monitors |-> Unmade] /\ reporter = [t \in Reporters |-> Silent]
  /\ reportOdd = {}

On == {m \in Monitors : monitor[m].at \in {"on", "dying"}}
Made == {m \in Monitors : monitor[m].at # "none"}

(* register_level(), of all that changes; shutdown() takes no level back. *)
Registered(ids, level) ==
  [id \in DOMAIN debugLevels \cup ids |-> IF id \in ids THEN level ELSE debugLevels[id]]
SharesId(m, id) == IF \E n \in Made \ {m} : monitor[n].id = id THEN {"shared"} ELSE {}

-------------------------------------------------------------------------------
MakeMonitor(m, id, level) ==
  /\ m \notin Made
  /\ monitor' = [monitor EXCEPT ![m] = [at |-> "made", id |-> id, level |-> level, enabled |-> TRUE]]
  /\ debugLevels' = IF level > 0 THEN Registered({id}, level) ELSE debugLevels
  /\ reportOdd' = reportOdd \cup SharesId(m, id)
  /\ UNCHANGED <<active, debugLevel, msgLevel, reporter>>

Initialize(m) ==
  /\ monitor[m].at = "made"
  /\ monitor' = [monitor EXCEPT ![m].at = "on", ![m].level = debugLevel]
  /\ debugLevels' = Registered({monitor[m].id}, debugLevel)
  /\ UNCHANGED <<active, debugLevel, msgLevel, reporter, reportOdd>>

Shutdown(m) ==
  /\ monitor[m].at = "on" /\ monitor' = [monitor EXCEPT ![m].at = "made"]
  /\ UNCHANGED <<active, debugLevel, debugLevels, msgLevel, reporter, reportOdd>>

(* The destructor of a monitor's class; then ~ReportMonitor() shuts it down. *)
Destroy(m) ==
  /\ monitor[m].at \in {"made", "on"}
  /\ monitor' = [monitor EXCEPT ![m] = IF @.at = "on" THEN [@ EXCEPT !.at = "dying"] ELSE Unmade]
  /\ UNCHANGED <<active, debugLevel, debugLevels, msgLevel, reporter, reportOdd>>
Destroyed(m) ==
  /\ monitor[m].at = "dying" /\ monitor' = [monitor EXCEPT ![m] = Unmade]
  /\ UNCHANGED <<active, debugLevel, debugLevels, msgLevel, reporter, reportOdd>>

(* level() and enabled() are references to what a monitor has. *)
SetLevel(m, level) ==
  /\ m \in Made /\ monitor' = [monitor EXCEPT ![m].level = level]
  /\ reportOdd' = reportOdd \cup IF level > monitor[m].level THEN {"unregistered"} ELSE {}
  /\ UNCHANGED <<active, debugLevel, debugLevels, msgLevel, reporter>>
SetEnabled(m, b) ==
  /\ m \in Made /\ monitor' = [monitor EXCEPT ![m].enabled = b]
  /\ UNCHANGED <<active, debugLevel, debugLevels, msgLevel, reporter, reportOdd>>

(* reporting_level(): every monitor has the new level, if it is one. *)
ReportingLevel(level) ==
  LET told == IF level = debugLevel THEN {} ELSE On
  IN /\ debugLevel' = level
     /\ monitor' = [m \in Monitors |-> IF m \in told THEN [monitor[m] EXCEPT !.level = level] ELSE monitor[m]]
     /\ debugLevels' = Registered({monitor[m].id : m \in told} \cup {GlobalId}, level)
     /\ UNCHANGED <<active, msgLevel, reporter, reportOdd>>

(* reporting_start() and reporting_stop(), but for the monitor that writes to a file:
   these make and initialize() it, and shut it down and destroy it. *)
ReportingStart == active' = TRUE /\ UNCHANGED <<debugLevel, debugLevels, msgLevel, monitor, reporter, reportOdd>>
ReportingStop == active' = FALSE /\ UNCHANGED <<debugLevel, debugLevels, msgLevel, monitor, reporter, reportOdd>>

-------------------------------------------------------------------------------
(* debug_report() sets the level of the message... *)
Report(t, level) ==
  /\ ~reporter[t].busy
  /\ active /\ On # {}
  /\ msgLevel' = level
  /\ reporter' = [u \in Reporters |->
       IF u = t THEN [busy |-> TRUE, levels |-> {level}]
       ELSE IF reporter[u].busy THEN [reporter[u] EXCEPT !.levels = @ \cup {level}]
       ELSE reporter[u]]
  /\ UNCHANGED <<active, debugLevel, debugLevels, monitor, reportOdd>>

(* Mistake: off by one. *)
IsWatchedAbove == \E id \in DOMAIN debugLevels : msgLevel < debugLevels[id]

(* ... and, if isWatched(), prints it, which calls onReportUpdate() of the monitors. *)
IsWatched == \E id \in DOMAIN debugLevels : msgLevel <= debugLevels[id]
Hears(m, level) == monitor[m].enabled /\ level <= monitor[m].level

Delivers(t) ==
  LET reached == IF IsWatched THEN {m \in On : Hears(m, msgLevel)} ELSE {}
      meant == {{m \in On : Hears(m, level)} : level \in reporter[t].levels}
  IN /\ reporter[t].busy
     /\ reporter' = [reporter EXCEPT ![t] = Silent]
     /\ reportOdd' = reportOdd
          \cup (IF reached \notin meant THEN {"wrong"} ELSE {})
          \cup (IF \E m \in reached : monitor[m].at = "dying" THEN {"dead"} ELSE {})
     /\ UNCHANGED <<active, debugLevel, debugLevels, msgLevel, monitor>>

(* Bound: a program that shares an id, raises a level or calls the dead goes no further. *)
ReportNext ==
  /\ reportOdd = {}
  /\ \/ \E m \in Monitors :
          \/ \E id \in MonitorIds, level \in Severities : MakeMonitor(m, id, level)
          \/ Initialize(m) \/ Shutdown(m) \/ Destroy(m) \/ Destroyed(m)
          \/ \E level \in Severities : SetLevel(m, level)
          \/ \E b \in BOOLEAN : SetEnabled(m, b)
     \/ \E level \in Severities : ReportingLevel(level)
     \/ ReportingStart \/ ReportingStop
     \/ \E t \in Reporters :
          \/ \E level \in Severities : Report(t, level)
          \/ Delivers(t)

(***************************************************************************)
(* A report reaches the enabled monitors whose level is at least its own and   *)
(* no other: the levels that are registered, of monitors that are gone, too,   *)
(* hide none; unless an id is shared or a level was raised without registering *)
(* it.  If other threads report meanwhile its own may be taken for the level   *)
(* of one of those, but for no other.                                        *)
(***************************************************************************)
ReportsArrive == "wrong" \notin reportOdd
===============================================================================
