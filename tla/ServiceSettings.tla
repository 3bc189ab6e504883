--------------------------- MODULE ServiceSettings ---------------------------
(***************************************************************************)
(* The settings that services check, insert and read when they start, that *)
(* operators add, change and delete meanwhile, and that osctrl-tls keeps a *)
(* map of, which a goroutine reloads.  A value is looked up by service and *)
(* name (here one name); nothing keeps that unique.                        *)
(***************************************************************************)
EXTENDS Naturals, Sequences, SequencesExt

CONSTANTS
  Services,     \* programs that start and check settings
  Program,      \* Program[s]: the values that s checks, in that order
  JsonNames,    \* those of its configuration file, written at each start
  MetricNames,  \* those that say whether metrics are sent
  Disabling,    \* services that switch metrics off when there is no collector
  MapOf,        \* the service with the map
  MapNames,     \* the values of that service that its map is asked for
  MaxEdits      \* how many requests operators make

SettingNames == UNION {ToSet(Program[s]) : s \in Services}

ASSUME SettingsAssumption ==
  /\ \A s \in Services :
       Program[s] \in Seq(SettingNames) \ {<<>>} /\ IsInjective(Program[s])
  /\ \A s, t \in Services :
       JsonNames \cap ToSet(Program[s]) \cap ToSet(Program[t]) # {} => s = t
  /\ MapOf \in Services /\ Disabling \subseteq Services
  /\ JsonNames \cap (MetricNames \cup MapNames) = {}
  /\ MapNames \subseteq ToSet(Program[MapOf])
  /\ MaxEdits \in Nat

VARIABLES
  rows,      \* setting_values: the values in the rows of a name, in the order of their ids
  proc,      \* where each service is: pc, and at in its program
  config,    \* the configuration file of each service: its first or its second version
  collector, \* the collector of metrics can be reached
  map,       \* settingsmap, once loaded: no value or one of each name
  fetched,   \* what the goroutine has read for it
  edits,     \* requests of operators so far
  mishaps    \* history: two starts at a time, a statement that failed, a value added, a crash

settingsVars == <<rows, proc, config, collector, map, fetched, edits, mishaps>>

(* For metrics, "default" is off and "set" is on. *)
SettingValue == {"default", "set", "first", "second"}

MapSettings == [MapNames -> {<<>>} \cup {<<v>> : v \in SettingValue}]

(* A service that starts checks the value at its place, then inserts or    *)
(* writes it, connects to the collector or switches metrics off.           *)
ProcState == [pc : {"down", "check", "insert", "write", "connect", "disable", "up"}, at : Nat]

SettingsTypeOK ==
  /\ rows \in [SettingNames -> Seq(SettingValue)]
  /\ proc \in [Services -> ProcState]
  /\ \A s \in Services :
       proc[s].pc \notin {"down", "up"} => proc[s].at \in DOMAIN Program[s]
  /\ config \in [Services -> {"first", "second"}]
  /\ collector \in BOOLEAN
  /\ map \in {<<>>} \cup {<<f>> : f \in MapSettings}
  /\ fetched \in {<<>>} \cup {<<f>> : f \in MapSettings}
  /\ edits \in 0 .. MaxEdits
  /\ mishaps \subseteq {"overlap", "failure", "added", "crash"}

SettingsInit ==
  /\ rows = [n \in SettingNames |-> <<>>]
  /\ proc = [s \in Services |-> [pc |-> "down", at |-> 1]]
  /\ config = [s \in Services |-> "first"]
  /\ collector = TRUE
  /\ map = <<>> /\ fetched = <<>>
  /\ edits = 0 /\ mishaps = {}

At(s, pc) == proc[s].pc = pc

Starting(s) == proc[s].pc \notin {"down", "up"}

Checked(s) == Program[s][proc[s].at]

(* One statement in a behaviour fails. *)
StatementFails ==
  /\ "failure" \notin mishaps
  /\ mishaps' = mishaps \cup {"failure"}

GoTo(s, pc) == proc' = [proc EXCEPT ![s].pc = pc]

(* The value at its place is there: the next one, or the service listens.  *)
NextValue(s) ==
  proc' = [proc EXCEPT ![s] = IF @.at = Len(Program[s])
                                THEN [@ EXCEPT !.pc = "up"]
                                ELSE [pc |-> "check", at |-> @.at + 1]]

(* Mutant: metrics stay on when the service ends. *)
SetFirstNever(n, v) == UNCHANGED rows

(* Updates are of the row with the lowest id, that First returned.  Values *)
(* of MapNames and of links are read and updated in two statements, where  *)
(* the other order of a deletion in between has the same outcome.          *)
SetFirst(n, v) ==
  rows' = IF rows[n] = <<>> THEN rows ELSE [rows EXCEPT ![n][1] = v]

NewRow(n, v) == rows' = [rows EXCEPT ![n] = Append(@, v)]

----------------------------------------------------------------------------
(* A service starts, while others do or not. *)
StartService(s) ==
  /\ At(s, "down")
  /\ proc' = [proc EXCEPT ![s] = [pc |-> "check", at |-> 1]]
  /\ mishaps' = IF \E t \in Services : Starting(t) THEN mishaps \cup {"overlap"} ELSE mishaps
  /\ UNCHANGED <<rows, config, collector, map, fetched, edits>>

(* Mutants: the value is not looked up; the values of the file are         *)
(* inserted empty.                                                         *)
AfterFoundInsert(s) == GoTo(s, "insert")

InsertDefault(s) ==
  /\ At(s, "insert")
  /\ \/ NewRow(Checked(s), "default") /\ NextValue(s) /\ UNCHANGED mishaps
     \/ StatementFails /\ GoTo(s, "down") /\ UNCHANGED rows
  /\ UNCHANGED <<config, collector, map, fetched, edits>>

(* What follows a value that is there. *)
AfterFound(s) ==
  LET n == Checked(s) IN
  IF n \in JsonNames THEN GoTo(s, "write")
  ELSE IF n \in MetricNames THEN GoTo(s, "connect")
  ELSE NextValue(s)

(* IsValue and IsJSON: a query that fails is an absent value. *)
CheckValue(s) ==
  /\ At(s, "check")
  /\ \/ /\ rows[Checked(s)] # <<>>
        /\ AfterFound(s)
        /\ UNCHANGED mishaps
     \/ /\ rows[Checked(s)] = <<>>
        /\ GoTo(s, "insert")
        /\ UNCHANGED mishaps
     \/ StatementFails /\ GoTo(s, "insert")
  /\ UNCHANGED <<rows, config, collector, map, fetched, edits>>

(* NewValue and NewJSON; the service ends when they fail. *)
InsertValue(s) ==
  /\ At(s, "insert")
  /\ \/ /\ NewRow(Checked(s), IF Checked(s) \in JsonNames THEN config[s] ELSE "default")
        /\ NextValue(s)
        /\ UNCHANGED mishaps
     \/ StatementFails /\ GoTo(s, "down") /\ UNCHANGED rows
  /\ UNCHANGED <<config, collector, map, fetched, edits>>

(* SetString of a JSON value; the service ends when it fails. *)
WriteValue(s) ==
  /\ At(s, "write")
  /\ \/ SetFirst(Checked(s), config[s]) /\ NextValue(s) /\ UNCHANGED mishaps
     \/ StatementFails /\ GoTo(s, "down") /\ UNCHANGED rows
  /\ UNCHANGED <<config, collector, map, fetched, edits>>

(* ServiceMetrics, which is false when the query fails, and CreateMetrics. *)
(* A service that cannot connect ends, and one of Disabling first switches *)
(* metrics off.                                                            *)
ConnectCollector(s) ==
  LET on == rows[Checked(s)] # <<>> /\ Head(rows[Checked(s)]) = "set" IN
  /\ At(s, "connect")
  /\ \/ /\ on /\ ~collector
        /\ GoTo(s, IF s \in Disabling THEN "disable" ELSE "down")
        /\ UNCHANGED mishaps
     \/ (on => collector) /\ NextValue(s) /\ UNCHANGED mishaps
     \/ StatementFails /\ NextValue(s)
  /\ UNCHANGED <<rows, config, collector, map, fetched, edits>>

(* SetBoolean(false), then log.Fatalf, whether or not it worked. *)
DisableMetrics(s) ==
  /\ At(s, "disable")
  /\ \/ SetFirst(Checked(s), "default") /\ UNCHANGED mishaps
     \/ StatementFails /\ UNCHANGED rows
  /\ GoTo(s, "down")
  /\ UNCHANGED <<config, collector, map, fetched, edits>>

StartStep(s) ==
  CheckValue(s) \/ InsertValue(s) \/ WriteValue(s) \/ ConnectCollector(s) \/ DisableMetrics(s)

(* A crash, at any step or when it listens, loses the map. *)
CrashService(s) ==
  /\ ~At(s, "down") /\ "crash" \notin mishaps
  /\ GoTo(s, "down")
  /\ mishaps' = mishaps \cup {"crash"}
  /\ map' = IF s = MapOf THEN <<>> ELSE map
  /\ fetched' = IF s = MapOf THEN <<>> ELSE fetched
  /\ UNCHANGED <<rows, config, collector, edits>>

(* The file is edited while its service is down. *)
EditConfig(s) ==
  /\ At(s, "down") /\ config[s] = "first" /\ JsonNames \cap ToSet(Program[s]) # {}
  /\ config' = [config EXCEPT ![s] = "second"]
  /\ UNCHANGED <<rows, proc, collector, map, fetched, edits, mishaps>>

CollectorChanges ==
  /\ collector' = ~collector
  /\ UNCHANGED <<rows, proc, config, map, fetched, edits, mishaps>>

----------------------------------------------------------------------------
(* SettingsPOSTHandler, and the commands that update and delete.  Adding   *)
(* does not ask whether the value exists; values of a file are not found.  *)
Edit ==
  /\ edits < MaxEdits
  /\ edits' = edits + 1
  /\ UNCHANGED <<proc, config, collector, map, fetched>>

AddSetting(n) ==
  /\ Edit
  /\ \E v \in {"default", "set"} : NewRow(n, v)
  /\ mishaps' = mishaps \cup {"added"}

ChangeSetting(n) ==
  /\ Edit
  /\ rows[n] # <<>>
  /\ \E v \in {"default", "set"} : SetFirst(n, v)
  /\ UNCHANGED mishaps

DeleteSetting(n) ==
  /\ Edit
  /\ rows[n] # <<>>
  /\ rows' = [rows EXCEPT ![n] = Tail(@)]
  /\ UNCHANGED mishaps

Operator ==
  \E n \in SettingNames \ JsonNames : AddSetting(n) \/ ChangeSetting(n) \/ DeleteSetting(n)

----------------------------------------------------------------------------
(* Mutant: only values that have been changed are in the map. *)
MapsOfSet ==
  {f \in MapSettings :
     \A n \in MapNames : IF "set" \in ToSet(rows[n]) THEN f[n] = <<"set">> ELSE f[n] = <<>>}

(* GetMap: the rows come in any order, and the last one of a name remains. *)
MapsOfRows ==
  {f \in MapSettings :
     \A n \in MapNames : IF rows[n] = <<>> THEN f[n] = <<>>
                                           ELSE \E v \in ToSet(rows[n]) : f[n] = <<v>>}

(* refreshSettings returns an empty map when the query fails. *)
ReadSettings ==
  /\ At(MapOf, "up") /\ fetched = <<>>
  /\ \/ \E f \in MapsOfRows : fetched' = <<f>> /\ UNCHANGED mishaps
     \/ StatementFails /\ fetched' = <<[n \in MapNames |-> <<>>]>>
  /\ UNCHANGED <<rows, proc, config, collector, map, edits>>

AssignSettings ==
  /\ At(MapOf, "up") /\ fetched # <<>>
  /\ map' = fetched /\ fetched' = <<>>
  /\ UNCHANGED <<rows, proc, config, collector, edits, mishaps>>

RefreshSettings == ReadSettings \/ AssignSettings

SettingsNext ==
  \/ \E s \in Services : StartService(s) \/ StartStep(s) \/ CrashService(s) \/ EditConfig(s)
  \/ CollectorChanges
  \/ Operator
  \/ RefreshSettings

SettingsSpec == SettingsInit /\ [][SettingsNext]_settingsVars

----------------------------------------------------------------------------
(* A value has one row, unless someone added it by hand, a lookup failed,  *)
(* or two services that both check it were starting at the same time       *)
(* (osctrl-admin and the database logger of osctrl-tls).                   *)
OneRowPerSetting ==
  \A n \in SettingNames :
    \/ Len(rows[n]) <= 1
    \/ mishaps \cap {"added", "failure"} # {}
    \/ /\ "overlap" \in mishaps
       /\ \E s, t \in Services : s # t /\ n \in ToSet(Program[s]) \cap ToSet(Program[t])

(* A service that listens has its own configuration in the values of its   *)
(* file, unless a lookup failed: the row inserted then is not the first.   *)
FileValuesCurrent ==
  \A s \in Services :
    At(s, "up") /\ "failure" \notin mishaps =>
      \A n \in JsonNames \cap ToSet(Program[s]) : rows[n] = <<config[s]>>

(* A value that stays comes to be in the map of a service that stays up.   *)
ValuesReachMap ==
  \A n \in MapNames, v \in {"default", "set"} :
    (At(MapOf, "up") /\ rows[n] = <<v>>) ~>
      (~At(MapOf, "up") \/ rows[n] # <<v>> \/ (map # <<>> /\ map[1][n] = <<v>>))

(* Every start of a service that switches metrics off is followed by its   *)
(* listening, whatever happens to the collector, its file and a statement. *)
StartsSucceed == \A s \in Disabling : At(s, "check") ~> At(s, "up")

=============================================================================
