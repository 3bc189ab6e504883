---------------------------- MODULE Administration ----------------------------
(***************************************************************************)
(* What administrators change with osctrl-admin and the command:           *)
(* environments, users, their own sessions and settings.                   *)
(* These tables have nothing in common: a behaviour is of one of them, and *)
(* the others stay as they start.                                          *)
(***************************************************************************)
EXTENDS EnvironmentsProps, AdminUsers, AdminSessions, ServiceSettings

VARIABLE part \* the one that moves

administrationVars == <<part, environmentVars, usersVars, sessionsVars, settingsVars>>

(* Where there are several initial states, the parts that do not move have *)
(* one of them.                                                            *)
AdministrationInit ==
  /\ part \in {"environments", "users", "sessions", "settings"}
  /\ EnvironmentsInit /\ UsersInit /\ SessionsInit /\ SettingsInit
  /\ part # "users" => lastId = 1
  /\ part # "sessions" => auth = "db"

AdministrationNext ==
  /\ UNCHANGED part
  /\ \/ /\ part = "environments" /\ EnvironmentsNext
        /\ UNCHANGED <<usersVars, sessionsVars, settingsVars>>
     \/ part = "users" /\ UsersNext /\ UNCHANGED <<environmentVars, sessionsVars, settingsVars>>
     \/ part = "sessions" /\ SessionsNext /\ UNCHANGED <<environmentVars, usersVars, settingsVars>>
     \/ part = "settings" /\ SettingsNext /\ UNCHANGED <<environmentVars, usersVars, sessionsVars>>

(* Rows, requests and histories keep their types, whatever overlaps. *)
AdministrationTypeOK == EnvironmentsTypeOK /\ UsersTypeOK /\ SessionsTypeOK /\ SettingsTypeOK

AdministrationSpec == AdministrationInit /\ [][AdministrationNext]_administrationVars
=============================================================================
