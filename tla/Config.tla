------------------------------- MODULE Config -------------------------------
(***************************************************************************)
(* The YAML file both processes read once, and what its lookups refuse.    *)
(***************************************************************************)
EXTENDS Sequences

CONSTANTS
  Configs,    \* the files a process may be started with
  Known       \* the services StartService has an initializer for

Names == {"ports", "restgateway"}

\* What NewManager finds at the path of the command line.
IsConfig(f) ==
  /\ f.file \in {"missing", "malformed", "readable"}
  /\ f.databases \subseteq {"postgres"}
  /\ f.services \subseteq Names
  /\ f.portsServices \in Seq(STRING)

ASSUME ConfigAssumption == \A f \in Configs : IsConfig(f)

\* os.Stat and ConfigManager.Load.
Loads(f) == f.file = "readable"

HasDSN(f) == "postgres" \in f.databases

HasService(f, name) == name \in f.services

\* gorm.Open reaches the database once.
Opens(f, dbUp) == HasDSN(f) /\ dbUp

\* Every name has an initializer, and the gRPC server takes no service twice.
Registrable(names) ==
  /\ \A i \in DOMAIN names : names[i] \in Known
  /\ \A i, j \in DOMAIN names : names[i] = names[j] => i = j
=============================================================================
