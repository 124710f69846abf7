--------------------------- MODULE PanelSettings ---------------------------
(***************************************************************************)
(* The settings table and the panel client that follows it: the admin's    *)
(* settings page, internal/config/config.go (SaveSetting, LoadFromDB) and  *)
(* internal/xui/dynamic.go.  The client is rebuilt when the stamp of the   *)
(* "xui" row is not the one it was built under.                            *)
(*                                                                         *)
(* A section's value is abstracted to whether its validate accepts it; a   *)
(* row is that and the stamp of its last write.                            *)
(***************************************************************************)
EXTENDS HotReload

CONSTANTS
  Known,       \* the keys LoadFromDB understands (sectionTargets)
  Validated,   \* those whose section has rules of its own (sectionValidators)
  Required,    \* of these, the sections whose defaults break their rules
  Unknown      \* other keys

Panel == "xui"

Keys == Known \cup Unknown

\* What a value does when its section decodes and validates it.
Value == {"valid", "invalid", "undecodable", "not JSON"}

Row == [at : Stamp, value : Value]
Unset == [at |-> 0, value |-> "valid"]
Settings == [Keys -> Row]

SettingsAssumption ==
  /\ Panel \in Required /\ Required \subseteq Validated /\ Validated \subseteq Known
  /\ Known \cap Unknown = {}
  /\ None \notin [client : Row, loadedAt : Stamp] \cup [{Panel} -> Row]

\* An answer is a client, made from one row.
Client(row) == [p \in {Panel} |-> row]

TypeOK ==
  /\ now \in Stamp
  /\ writing \in [Writers -> Stamp \cup {None}]
  /\ table \in Settings
  /\ cache = None \/ cache \in [client : Row, loadedAt : Stamp]
  /\ lock = None
  /\ \A r \in Readers :
       /\ reader[r].pc \in {"idle", "queried", "reload", "done"}
       /\ reader[r].pc \in {"queried", "reload"} => reader[r].stamp \in Stamp
       /\ reader[r].pc = "done" => reader[r].answer \in [{Panel} -> Row] \cup {None}
       /\ seen[r] \in [{Panel} -> SUBSET Row]

-----------------------------------------------------------------------------
(* config.go.                                                              *)

\* Mutant of Accepted: saved as soon as it decodes.
AcceptedDecoded(key, value) ==
  value # "not JSON" /\ (key \in Known => value # "undecodable")

\* SaveSetting: JSON, of the section's shape, by the section's own rules.
Accepted(key, value) ==
  /\ value # "not JSON"
  /\ key \in Known => value # "undecodable"
  /\ key \in Validated => value # "invalid"

\* LoadFromDB: the rows over the defaults, then Validate.
Loadable(t) ==
  /\ \A key \in Known : t[key].value # "undecodable"
  /\ \A key \in Validated :
       IF t[key].at = 0 THEN key \notin Required ELSE t[key].value # "invalid"

\* The process starts only if the settings load.
Init ==
  /\ now = 1
  /\ table \in [Keys -> {Unset, [at |-> 1, value |-> "valid"]}]
  /\ Loadable(table)
  /\ cache = None
  /\ Quiet({Panel})

\* Rejected values change nothing.
SaveSetting(w, key, value) ==
  LET saved == IF Accepted(key, value)
                 THEN [table EXCEPT ![key] = [at |-> writing[w], value |-> value]]
                 ELSE table
  IN  Commit(w, saved, Client(saved[Panel]))

-----------------------------------------------------------------------------
(* DynamicClient.client.                                                   *)

Query(r) == Ask(r, table[Panel].at, Client(table[Panel]))

\* Mutant of Current: any client will do.
CurrentIfAny(stamp) == cache # None

Current(stamp) == cache # None /\ stamp = cache.loadedAt

\* Under the read lock; what is returned is what it saw there.
Peek(r) ==
  /\ reader[r].pc = "queried"
  /\ IF Current(reader[r].stamp)
       THEN Returned(r, Client(cache.client))
       ELSE Moved(r, "reload")
  /\ UNCHANGED <<now, writing, table, cache, lock>>

\* Under the write lock: a second look, then every section is loaded, and
\* the client is filed under the stamp queried before.
Reload(r) ==
  /\ reader[r].pc = "reload"
  /\ \/ /\ Current(reader[r].stamp)
        /\ Returned(r, Client(cache.client))
        /\ UNCHANGED cache
     \/ /\ ~Current(reader[r].stamp) /\ Loadable(table)
        /\ cache' = [client |-> table[Panel], loadedAt |-> reader[r].stamp]
        /\ Returned(r, Client(table[Panel]))
     \/ /\ ~Current(reader[r].stamp) /\ ~Loadable(table)
        /\ Returned(r, None)
        /\ UNCHANGED cache
  /\ UNCHANGED <<now, writing, table, lock>>

Write ==
  \/ \E w \in Writers : TakeStamp(w)
  \/ \E w \in Writers, key \in Keys, value \in Value : SaveSetting(w, key, value)

Next == Write \/ \E r \in Readers : Query(r) \/ Peek(r) \/ Reload(r)

Spec == Init /\ [][Next]_vars

-----------------------------------------------------------------------------
(* Properties.                                                             *)

Fresh == INSTANCE FreshRead WITH
  Parts <- {Panel}, Lingering <- FALSE, Absent <- Unset,
  Broken <- [p \in {Panel} |-> {}],
  truth <- Client(table[Panel]), call <- [r \in Readers |-> CallOf(r)],
  answer <- [r \in Readers |-> reader[r].answer]

\* A call to the panel goes out under the settings stored at some moment of
\* it: nothing saved before it is missing.  No call fails for its settings.
ClientFollowsSettings == Fresh!Spec

\* No sequence of saves, each checked against its own section only, leaves
\* settings that do not load together: the service can be started again.
SettingsStayLoadable == Loadable(table)
=============================================================================
