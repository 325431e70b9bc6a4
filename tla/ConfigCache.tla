---------------------------- MODULE ConfigCache ----------------------------
(***************************************************************************)
(* The configuration cache of pkg/configuration: one configuration object  *)
(* and the Secrets of its namespace, loaded from the API by LoadLatest and *)
(* by the first GetConfig, stored by UpdateConfig, read by                 *)
(* GetCachedConfig.  UpdateConfig is called by a controller that has read  *)
(* the configuration and the Secrets itself (in another repository); its   *)
(* reads are the steps LoadConfig and LoadSecrets too.  The cache is       *)
(* locked for one set or one get; a load reads the configuration, lists    *)
(* the Secrets, sets and gets, and other goroutines run in between.  Reads *)
(* are answered with the current version: an informer that lags behind     *)
(* would only make a load older.                                           *)
(*                                                                         *)
(* The content of the configuration and of the Secrets is the number of    *)
(* changes made to it.                                                     *)
(***************************************************************************)
EXTENDS Naturals

CONSTANTS
    Loaders,     \* goroutines using the configuration
    Nil,
    MaxVersion,  \* bound on the changes of the configuration and the Secrets
    MaxFailures  \* bound on the API calls that fail

ASSUME ConfigBoundsAssumption == MaxVersion \in Nat /\ MaxFailures \in Nat

VARIABLES
    config,    \* the configuration in the API: its latest version
    exists,    \* whether there is one
    secrets,   \* version of the Secrets in the API
    cached,    \* configObj and secrets of the cache
    stage, op, \* where each goroutine is, and what it called
    readConfig, readSecrets,  \* what it loaded so far
    returned,  \* what it returns
    failures,
    began,     \* history: configuration when the call began
    alone,     \* history: goroutines beside which no other loaded since their call
    loads      \* history: complete loads

apiVars == <<config, exists, secrets>>
readVars == <<readConfig, readSecrets>>
configVars == <<apiVars, cached, stage, op, readVars, returned, failures, began, alone, loads>>

Versions == 0 .. MaxVersion
Pairs == [config : Versions, secrets : Versions]
Ops == {"GetConfig", "LoadLatest", "UpdateConfig", "GetCachedConfig"}

Value(v) == [kind |-> "value", value |-> v]
NotFound == Value(Nil)
Failed == [kind |-> "error", value |-> Nil]
Results == [kind : {"value", "error"}, value : Pairs \cup {Nil}]

ASSUME NilAssumption == Nil \notin Versions \cup Pairs \cup Results

LoadPcs == {"secrets", "set", "get"}

ConfigTypeOK ==
    /\ config \in Versions /\ exists \in BOOLEAN /\ secrets \in Versions
    /\ cached \in Pairs \cup {Nil}
    /\ stage \in [Loaders -> {"idle", "begin", "load", "done"} \cup LoadPcs]
    /\ op \in [Loaders -> Ops \cup {Nil}]
    /\ readConfig \in [Loaders -> Versions \cup {Nil}]
    /\ readSecrets \in [Loaders -> Versions \cup {Nil}]
    /\ returned \in [Loaders -> Results \cup {Nil}]
    /\ failures \in 0 .. MaxFailures
    /\ began \in [Loaders -> Versions]
    /\ alone \subseteq Loaders
    /\ loads \subseteq Pairs

ConfigInit ==
    /\ config = 0 /\ exists \in BOOLEAN /\ secrets = 0
    /\ cached = Nil
    /\ stage = [p \in Loaders |-> "idle"]
    /\ op = [p \in Loaders |-> Nil]
    /\ readConfig = [p \in Loaders |-> Nil]
    /\ readSecrets = [p \in Loaders |-> Nil]
    /\ returned = [p \in Loaders |-> Nil]
    /\ failures = 0
    /\ began = [p \in Loaders |-> 0]
    /\ alone = {}
    /\ loads = {}

Moves(p, label) == stage' = [stage EXCEPT ![p] = label]
Loading(p) == stage[p] \in {"load"} \cup LoadPcs
CallFails == failures < MaxFailures /\ failures' = failures + 1

(***************************************************************************)
(* The API.                                                                *)
(***************************************************************************)

(* The configuration is created or changed, or it is deleted.              *)
ConfigChange(exist) ==
    /\ config < MaxVersion
    /\ exist \/ exists
    /\ config' = config + 1
    /\ exists' = exist
    /\ UNCHANGED <<secrets, cached, stage, op, readVars, returned, failures, began, alone, loads>>

SecretsChange ==
    /\ secrets < MaxVersion
    /\ secrets' = secrets + 1
    /\ UNCHANGED <<config, exists, cached, stage, op, readVars, returned, failures, began, alone,
                   loads>>

(***************************************************************************)
(* The operations.                                                         *)
(***************************************************************************)

Returns(p, r) ==
    /\ Moves(p, "done")
    /\ returned' = [returned EXCEPT ![p] = r]

(* The load of p begins, and overlaps those under way.                     *)
LoadBegins(p) ==
    /\ Moves(p, "load")
    /\ began' = [began EXCEPT ![p] = config]
    /\ alone' = {q \in alone \ {p} : ~Loading(q)}
              \cup {q \in {p} : \A o \in Loaders : ~Loading(o)}

ConfigCall(p, f) ==
    /\ stage[p] = "idle"
    /\ op' = [op EXCEPT ![p] = f]
    /\ IF f \in {"LoadLatest", "UpdateConfig"}
       THEN LoadBegins(p)
       ELSE Moves(p, "begin") /\ UNCHANGED <<began, alone>>
    /\ UNCHANGED <<apiVars, cached, readVars, returned, failures, loads>>

(* GetConfig and GetCachedConfig read the cache; GetConfig loads if it is  *)
(* empty.                                                                  *)
ReadCache(p) ==
    /\ stage[p] = "begin"
    /\ \/ /\ op[p] = "GetConfig" /\ cached = Nil
          /\ LoadBegins(p)
          /\ UNCHANGED returned
       \/ /\ op[p] = "GetCachedConfig" \/ cached # Nil
          /\ Returns(p, Value(cached))
          /\ UNCHANGED <<began, alone>>
    /\ UNCHANGED <<apiVars, cached, op, readVars, failures, loads>>

(* The Get of the configuration.  If there is none, the cache is left as   *)
(* it is.                                                                  *)
LoadConfig(p) ==
    /\ stage[p] = "load"
    /\ \/ /\ exists
          /\ readConfig' = [readConfig EXCEPT ![p] = config]
          /\ Moves(p, "secrets")
          /\ UNCHANGED <<returned, failures>>
       \/ /\ ~exists
          /\ Returns(p, NotFound)
          /\ UNCHANGED <<readConfig, failures>>
       \/ /\ CallFails
          /\ Returns(p, Failed)
          /\ UNCHANGED readConfig
    /\ UNCHANGED <<apiVars, cached, op, readSecrets, began, alone, loads>>

(* LoadSecrets lists the Secrets.  After an error nothing is stored.       *)
SecretsFailedIgnored(p) ==
    /\ Moves(p, "set")
    /\ UNCHANGED <<readSecrets, returned, loads>>
SecretsFailed(p) ==
    /\ Returns(p, Failed)
    /\ UNCHANGED <<readSecrets, loads>>

LoadSecrets(p) ==
    /\ stage[p] = "secrets"
    /\ \/ /\ readSecrets' = [readSecrets EXCEPT ![p] = secrets]
          /\ loads' = loads \cup {[config |-> readConfig[p], secrets |-> secrets]}
          /\ Moves(p, "set")
          /\ UNCHANGED <<returned, failures>>
       \/ CallFails /\ SecretsFailed(p)
    /\ UNCHANGED <<apiVars, cached, op, readConfig, began, alone>>

(* What set leaves in the cache.                                           *)
StoredIfEmpty(p) ==
    IF cached = Nil THEN [config |-> readConfig[p], secrets |-> readSecrets[p]] ELSE cached
Stored(p) == [config |-> readConfig[p], secrets |-> readSecrets[p]]

Set(p) ==
    /\ stage[p] = "set"
    /\ cached' = Stored(p)
    /\ \/ /\ op[p] = "UpdateConfig"
          /\ Returns(p, NotFound)
       \/ /\ op[p] # "UpdateConfig"
          /\ Moves(p, "get")
          /\ UNCHANGED returned
    /\ UNCHANGED <<apiVars, op, readVars, failures, began, alone, loads>>

(* LoadLatest returns what the cache holds by then.                        *)
GetAfterSet(p) ==
    /\ stage[p] = "get"
    /\ Returns(p, Value(cached))
    /\ UNCHANGED <<apiVars, cached, op, readVars, failures, began, alone, loads>>

ConfigReturn(p) ==
    /\ stage[p] = "done"
    /\ Moves(p, "idle")
    /\ op' = [op EXCEPT ![p] = Nil]
    /\ readConfig' = [readConfig EXCEPT ![p] = Nil]
    /\ readSecrets' = [readSecrets EXCEPT ![p] = Nil]
    /\ returned' = [returned EXCEPT ![p] = Nil]
    /\ began' = [began EXCEPT ![p] = 0]
    /\ alone' = alone \ {p}
    /\ UNCHANGED <<apiVars, cached, failures, loads>>

ConfigNext ==
    \/ \E exist \in BOOLEAN : ConfigChange(exist)
    \/ SecretsChange
    \/ \E p \in Loaders :
        \/ \E f \in Ops : ConfigCall(p, f)
        \/ ReadCache(p)
        \/ LoadConfig(p)
        \/ LoadSecrets(p)
        \/ Set(p)
        \/ GetAfterSet(p)
        \/ ConfigReturn(p)

ConfigSpec == ConfigInit /\ [][ConfigNext]_configVars

(***************************************************************************)
(* Properties.                                                             *)
(***************************************************************************)

(* The configuration and the Secrets in the cache, and those any call      *)
(* returns, were read by one load that succeeded: no mixture of two loads  *)
(* and no half of a failed one.                                            *)
LoadedTogether ==
    /\ cached # Nil => cached \in loads
    /\ \A p \in Loaders :
        returned[p] # Nil /\ returned[p].value # Nil => returned[p].value \in loads

(* LoadLatest, if no other load overlaps it, returns a configuration that  *)
(* is not older than the one in the API when it was called.                *)
UndisturbedLoadIsLatest ==
    \A p \in Loaders :
        stage[p] = "done" /\ op[p] = "LoadLatest" /\ p \in alone /\ returned[p].value # Nil =>
            returned[p].value.config >= began[p]

(* "loadLatest retrieves the latest configuration": what it returns is not *)
(* older than the configuration was when it was called.                    *)
LoadLatestIsLatest ==
    \A p \in Loaders :
        stage[p] = "done" /\ op[p] = "LoadLatest" /\ returned[p].value # Nil =>
            returned[p].value.config >= began[p]
=============================================================================
