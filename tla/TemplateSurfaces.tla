-------------------------- MODULE TemplateSurfaces --------------------------
(***************************************************************************)
(* The two sides of the templates table: who may write it (Templates), and *)
(* the compiled copies that are served of one format (TemplateCache).      *)
(* They are about different parts of a row, so a behaviour is about one of *)
(* them, chosen at the start.                                              *)
(***************************************************************************)
EXTENDS Templates

CONSTANTS Profiles, Readers, Savers, CacheStamps

VARIABLES surface, clock, saving, table, cache, lock, reader, seen

Served == INSTANCE TemplateCache WITH Writers <- Savers, MaxStamp <- CacheStamps,
  now <- clock, writing <- saving

ASSUME ServedAssumption ==
  /\ CacheStamps \in Nat \ {0}
  /\ None \notin Served!Row

servedVars == <<clock, saving, table, cache, lock, reader, seen>>
allvars == <<vars, surface, servedVars>>

NoCache ==
  /\ clock = None /\ saving = None /\ table = None /\ cache = None
  /\ lock = None /\ reader = None /\ seen = None

\* One of the states of Init.
NoImports == Init /\ \A k \in Keys : shipped[k] = None /\ row[k] = Absent

SidesInit ==
  \/ surface = "imports" /\ Init /\ NoCache
  \/ surface = "cache" /\ NoImports /\ Served!Init

SidesNext ==
  \/ surface = "imports" /\ Next /\ UNCHANGED <<surface, servedVars>>
  \/ surface = "cache" /\ Served!Next /\ UNCHANGED <<surface, vars>>

SidesSpec == SidesInit /\ [][SidesNext]_allvars

\* See TemplateCache: a template is served as its row was during the call.
TemplatesFollowTable ==
  /\ [](surface = "cache" => Served!TypeOK)
  /\ [][surface = "cache" => Served!AnswersFromTable]_allvars
=============================================================================
