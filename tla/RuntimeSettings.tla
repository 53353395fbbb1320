--------------------------- MODULE RuntimeSettings ---------------------------
(***************************************************************************)
(* The runtime settings: the overrides in memory that the agents read, the *)
(* table EM_RUNTIME_SETTINGS, the endpoints that change both, the load at  *)
(* startup, and the flag auto_fix_enabled that the gates read in place of  *)
(* the setting of the same meaning.                                        *)
(***************************************************************************)
EXTENDS Integers, FiniteSets

CONSTANTS
    Key,            \* settings
    MasterSwitch,   \* AUTO_FIX_ALL_CPI_ERRORS, whose values are On and Off
    Value,          \* values of a setting
    On, Off,
    Unset,          \* no override
    Default,        \* Default[k]: the schema's default
    Merged,         \* Merged[v]: what loading v gives, for REMEDIATION_POLICIES v over the defaults
    Environment,    \* value of the flag in the environment of the process
    SettingsConfigs \* [faults, restarts, toggles: how many]

\* Merging a value with the defaults gives a value, and leaves the switch's two values.
ASSUME SettingsConstants ==
    /\ Merged \in [Value -> Value] /\ { On, Off } \subseteq Value
    /\ MasterSwitch \in Key /\ { Merged[On], Merged[Off], Default[MasterSwitch], Environment } \subseteq { On, Off }
    /\ SettingsConfigs \subseteq [ faults : Nat, restarts : Nat, toggles : Nat ]

VARIABLES
    settingsCfg,
    overrides,      \* _RuntimeConfig._overrides
    saved,          \* EM_RUNTIME_SETTINGS
    autoFix,        \* RUNTIME_FLAGS["auto_fix_enabled"]
    \* history
    drifted,        \* settings whose memory and table may differ because the database failed
    lastFix         \* the master switch's setting when the gate last fixed automatically

settingsVars == << settingsCfg, overrides, saved, autoFix, drifted, lastFix >>

SettingsTypeOK ==
    /\ settingsCfg \in [ faults : Nat, restarts : Nat, toggles : Nat ]
    /\ overrides \in [Key -> Value \union {Unset}]
    /\ saved \in [Key -> Value \union {Unset}]
    /\ autoFix \in {On, Off}
    /\ drifted \subseteq Key
    /\ lastFix \in {On, Off}

SettingsInit ==
    /\ settingsCfg \in SettingsConfigs
    /\ overrides = [k \in Key |-> Unset]
    /\ saved = [k \in Key |-> Unset]
    /\ autoFix = Environment
    /\ drifted = {}
    /\ lastFix = On

SettingsFails == settingsCfg.faults > 0 /\ settingsCfg' = [ settingsCfg EXCEPT !.faults = @ - 1 ]

\* _RuntimeConfig.get
Setting(k) == IF overrides[k] = Unset THEN Default[k] ELSE overrides[k]

\* Mutated form: only the table is changed, memory follows at the next start.
Override_Later(k, v) == overrides

Override(k, v) == [ overrides EXCEPT ![k] = v ]

\* patch_settings, one key of the payload: memory first, then the table, then the flag.
\* When the table cannot be written, memory keeps the value and the flag is not set.  A
\* value that cannot be converted changes nothing.
PatchSetting(k, v) ==
    /\ overrides' = Override(k, v)
    /\ \/ /\ saved' = [ saved EXCEPT ![k] = v ]
          /\ autoFix' = IF k = MasterSwitch THEN v ELSE autoFix
          /\ drifted' = drifted \ {k}
          /\ UNCHANGED settingsCfg
       \/ /\ SettingsFails
          /\ drifted' = drifted \union {k}
          /\ UNCHANGED << saved, autoFix >>
    /\ UNCHANGED lastFix

\* reset_setting: the failure of the DELETE is ignored.
ResetSetting(k) ==
    /\ overrides' = [ overrides EXCEPT ![k] = Unset ]
    /\ autoFix' = IF k = MasterSwitch THEN Default[k] ELSE autoFix
    /\ \/ saved' = [ saved EXCEPT ![k] = Unset ] /\ drifted' = drifted \ {k} /\ UNCHANGED settingsCfg
       \/ SettingsFails /\ drifted' = drifted \union {k} /\ UNCHANGED saved
    /\ UNCHANGED lastFix

\* toggle_auto_fix: the flag alone.
ToggleAutoFix ==
    /\ settingsCfg.toggles > 0
    /\ settingsCfg' = [ settingsCfg EXCEPT !.toggles = @ - 1 ]
    /\ autoFix' = IF autoFix = On THEN Off ELSE On
    /\ UNCHANGED << overrides, saved, drifted, lastFix >>

\* load_from_db: error types that stored policies lack come from the defaults.  A PATCH
\* does not do that, so the agents' policies change at the next start.
Loaded == [ k \in Key |-> IF saved[k] = Unset THEN Unset ELSE Merged[saved[k]] ]

\* lifespan: load_from_db fills the overrides; when the table cannot be read, every
\* setting has its default.  The flag comes from the environment.
RestartSettings ==
    /\ settingsCfg.restarts > 0
    /\ \/ /\ settingsCfg' = [ settingsCfg EXCEPT !.restarts = @ - 1 ]
          /\ overrides' = Loaded /\ drifted' = {}
       \/ /\ settingsCfg.faults > 0
          /\ settingsCfg' = [ settingsCfg EXCEPT !.restarts = @ - 1, !.faults = @ - 1 ]
          /\ overrides' = [k \in Key |-> Unset] /\ drifted' = Key
    /\ autoFix' = Environment
    /\ UNCHANGED << saved, lastFix >>

\* The gates (remediation_gate, _run_fixer_task) with a fix to apply and confidence
\* enough: they look at the flag.
GateFixes ==
    /\ autoFix = On
    /\ lastFix' = Setting(MasterSwitch)
    /\ UNCHANGED << settingsCfg, overrides, saved, autoFix, drifted >>

ValuesOf(k) == IF k = MasterSwitch THEN {On, Off} ELSE Value \ {On, Off}

SettingsNext ==
    \/ \E k \in Key : \E v \in ValuesOf(k) : PatchSetting(k, v)
    \/ \E k \in Key : ResetSetting(k)
    \/ ToggleAutoFix \/ RestartSettings \/ GateFixes

SettingsSpec == SettingsInit /\ [][SettingsNext]_settingsVars

-----------------------------------------------------------------------------
\* What the agents read is what the table says, as it was saved or as it is loaded,
\* across changes, resets and restarts, unless a statement on the table failed since.
MemoryMatchesTable ==
    \A k \in Key : overrides[k] \in { saved[k], Loaded[k] } \/ k \in drifted

\* "Master switch. When off, the agent detects and diagnoses errors but never applies a
\* fix automatically": stated for the setting as the settings page shows it, with no
\* failure and without the toggle.
SwitchedOffMeansNoFix == lastFix # Off
=============================================================================
