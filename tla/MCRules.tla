------------------------------ MODULE MCRules ------------------------------
(* The parts of the system that share no state with the others in one run: *)
(* a behaviour is one of a single module, the variables of the others keep *)
(* their initial values.                                                   *)
EXTENDS MCEventRules, MCSourceRules, MCModelCalls, MCPlatformPages, MCLocalPostgres,
        MCDesktopRuntime, MCSourceIngestion

VARIABLE part   \* the module this behaviour is one of

RulesInit ==
  /\ part \in {"events", "sources", "calls", "pages", "postgres", "desktop", "items"}
  /\ RuleInit /\ SourceInit /\ CallInit /\ PageInit /\ PostgresInit /\ DesktopInit
  /\ IngestionInit

RulesNext ==
  \/ /\ part = "events" /\ RuleNext
     /\ UNCHANGED <<part, sourceVars, callVars, pageVars, postgresVars, desktopVars,
                    ingestionVars>>
  \/ /\ part = "sources" /\ SourceNext
     /\ UNCHANGED <<part, ruleVars, callVars, pageVars, postgresVars, desktopVars, ingestionVars>>
  \/ /\ part = "calls" /\ CallNext
     /\ UNCHANGED <<part, ruleVars, sourceVars, pageVars, postgresVars, desktopVars,
                    ingestionVars>>
  \/ /\ part = "pages" /\ PageNext
     /\ UNCHANGED <<part, ruleVars, sourceVars, callVars, postgresVars, desktopVars,
                    ingestionVars>>
  \/ /\ part = "postgres" /\ PostgresNext
     /\ UNCHANGED <<part, ruleVars, sourceVars, callVars, pageVars, desktopVars, ingestionVars>>
  \/ /\ part = "desktop" /\ DesktopNext
     /\ UNCHANGED <<part, ruleVars, sourceVars, callVars, pageVars, postgresVars, ingestionVars>>
  \/ /\ part = "items" /\ IngestionNext
     /\ UNCHANGED <<part, ruleVars, sourceVars, callVars, pageVars, postgresVars, desktopVars>>

allVars == <<part, ruleVars, sourceVars, callVars, pageVars, postgresVars, desktopVars,
             ingestionVars>>
RulesSpec == RulesInit /\ [][RulesNext]_allVars
=============================================================================
