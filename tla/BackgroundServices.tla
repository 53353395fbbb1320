------------------------- MODULE BackgroundServices -------------------------
(***************************************************************************)
(* The services around the pipeline, each a module of its own: they share  *)
(* no state with one another, only the event loop, so a behaviour here is  *)
(* a behaviour of one of them, chosen at the start.                        *)
(***************************************************************************)
EXTENDS ItsmSync, CpiMonitor, TokenCache, DbPool, RuntimeSettings, ToolClient, CappedTable

CONSTANT Services   \* the services to check

VARIABLE service    \* the one this behaviour is about

vars == << service, itsmVars, cpiVars, tokenVars, dbVars, settingsVars, toolVars, tableVars >>

\* A service that is not checked stays in one of its initial states.
Still(s, cfg, configs) == service # s => cfg = CHOOSE c \in configs : TRUE

Init ==
    /\ service \in Services
    /\ ItsmInit /\ Still("itsm", itsmCfg, ItsmConfigs)
    /\ CpiInit /\ Still("cpi", cpiCfg, CpiConfigs)
    /\ TokenInit
    /\ PoolInit
    /\ SettingsInit /\ Still("settings", settingsCfg, SettingsConfigs)
    /\ ToolInit /\ Still("tools", discovered, BOOLEAN) /\ Still("tools", maxRetries, RetrySettings)
    /\ TableInit

Next ==
    /\ UNCHANGED service
    /\ \/ service = "itsm" /\ ItsmNext /\ UNCHANGED << cpiVars, tokenVars, dbVars, settingsVars, toolVars, tableVars >>
       \/ service = "cpi" /\ CpiNext /\ UNCHANGED << itsmVars, tokenVars, dbVars, settingsVars, toolVars, tableVars >>
       \/ service = "token" /\ TokenNext /\ UNCHANGED << itsmVars, cpiVars, dbVars, settingsVars, toolVars, tableVars >>
       \/ service = "database" /\ PoolNext /\ UNCHANGED << itsmVars, cpiVars, tokenVars, settingsVars, toolVars, tableVars >>
       \/ service = "settings" /\ SettingsNext /\ UNCHANGED << itsmVars, cpiVars, tokenVars, dbVars, toolVars, tableVars >>
       \/ service = "tools" /\ ToolNext /\ UNCHANGED << itsmVars, cpiVars, tokenVars, dbVars, settingsVars, tableVars >>
       \/ service = "tables" /\ TableNext /\ UNCHANGED << itsmVars, cpiVars, tokenVars, dbVars, settingsVars, toolVars >>

\* The ITSM poller is an endless loop of the process, and each of its awaits ends: the
\* requests have timeouts.
PollerStep(step) == step /\ service = "itsm" /\ UNCHANGED << service, cpiVars, tokenVars, dbVars, settingsVars, toolVars, tableVars >>

Fairness ==
    /\ WF_vars(PollerStep(Begin("loop")))
    /\ WF_vars(PollerStep(Credentials("loop")))
    /\ WF_vars(PollerStep(Ask("loop")))
    /\ WF_vars(PollerStep(Unanswered("loop") \/ StillOpen("loop") \/ Resolve("loop")))

Spec == Init /\ [][Next]_vars /\ Fairness

-----------------------------------------------------------------------------
\* Each module keeps its variables in their types.
TypeOK ==
    /\ ItsmTypeOK /\ CpiTypeOK /\ TokenTypeOK /\ PoolTypeOK
    /\ SettingsTypeOK /\ ToolTypeOK /\ TableTypeOK
=============================================================================
