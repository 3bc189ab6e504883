------------------------------ MODULE Services ------------------------------
(***************************************************************************)
(* What goes on in the services beside their handlers: metrics, sessions,  *)
(* the clean-up of logs and queries, and settings.  They share no state,   *)
(* so what holds of one does not depend on the others: a behaviour is of   *)
(* one of them, and the others stay as they start.                         *)
(***************************************************************************)
EXTENDS Metrics, AdminSessions, LogCleanup, ServiceSettings

VARIABLE moving \* the one that moves

servicesVars == <<moving, metricsVars, sessionsVars, cleanupVars, settingsVars>>

(* Where there are several initial states, the parts that do not move have *)
(* one of them.                                                            *)
ServicesInit ==
  /\ moving \in {"metrics", "sessions", "old logs", "old queries", "settings"}
  /\ MetricsInit /\ SessionsInit /\ CleanupInit /\ SettingsInit
  /\ moving # "metrics" => protocol = "tcp"
  /\ moving # "sessions" => auth = "db"

(* The clean-up goes through logs and then through queries, which are      *)
(* tables that have nothing to do with each other either.                  *)
CleanupPart ==
  \/ CleanerActs
  \/ moving = "old logs" /\ LogsChange
  \/ moving = "old queries" /\ QueriesChange

ServicesNext ==
  /\ UNCHANGED moving
  /\ \/ moving = "metrics" /\ MetricsNext /\ UNCHANGED <<sessionsVars, cleanupVars, settingsVars>>
     \/ moving = "sessions" /\ SessionsNext /\ UNCHANGED <<metricsVars, cleanupVars, settingsVars>>
     \/ /\ moving \in {"old logs", "old queries"} /\ CleanupPart
        /\ UNCHANGED <<metricsVars, sessionsVars, settingsVars>>
     \/ moving = "settings" /\ SettingsNext /\ UNCHANGED <<metricsVars, sessionsVars, cleanupVars>>

(* Sessions grow old and the clean-ups wake up, every hour; a supervisor   *)
(* starts a service again, which goes on starting; the goroutine that      *)
(* reloads the settings wakes up.  Nothing else has to happen.             *)
ServicesFairness ==
  /\ \A i \in SessionId : WF_sessionsVars(moving = "sessions" /\ SessionAges(i))
  /\ WF_sessionsVars(moving = "sessions" /\ CleanupSessions)
  /\ WF_cleanupVars(moving \in {"old logs", "old queries"} /\ CleanerStep(TRUE))
  /\ \A s \in Services : /\ WF_settingsVars(moving = "settings" /\ StartService(s))
                         /\ WF_settingsVars(moving = "settings" /\ StartStep(s))
  /\ WF_settingsVars(moving = "settings" /\ RefreshSettings)

ServicesSpec == ServicesInit /\ [][ServicesNext]_servicesVars /\ ServicesFairness
-----------------------------------------------------------------------------
(* Counters, the rounds of the clean-up and rows keep their types.         *)
ServicesTypeOK == MetricsTypeOK /\ SessionsTypeOK /\ CleanupTypeOK /\ SettingsTypeOK

(* What the admin service is to clean up every hour does not stay for      *)
(* ever: each session is deleted, also those that no cookie can be decoded *)
(* for any more after a restart; old logs go while their environment       *)
(* exists; and of queries that are all completed no more than the setting  *)
(* says are kept.                                                          *)
OldRecordsGo ==
  /\ \A i \in SessionId :
       (i \in DOMAIN sessions) ~> (i \in DOMAIN sessions /\ sessions[i].deleted)
  /\ CompletedQueriesGo
  /\ OldLogsGo

=============================================================================
