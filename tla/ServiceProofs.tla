---------------------------- MODULE ServiceProofs ----------------------------
(***************************************************************************)
(* What TLAPS proves of the services around the pipeline, for any number   *)
(* of coroutines, callers, threads, settings and entries and any bounds:   *)
(* first service by service, then of BackgroundServices, which runs any    *)
(* one of them, with the invariants of ItsmSyncProofs and                  *)
(* CpiMonitorProofs.                                                       *)
(***************************************************************************)
EXTENDS BackgroundServices, ItsmSyncProofs, CpiMonitorProofs, FiniteSetTheorems, TLAPS

-----------------------------------------------------------------------------
(* Tokens: the cache never takes one for younger than it is *)

\* Tokens expire a lifetime after they were issued at the latest; what a coroutine brings
\* was asked for before it was issued.
Bearing(u) ==
    /\ user[u].now <= tokenTime
    /\ user[u].at = "store" =>
          /\ user[u].token # 0
          /\ ExpiresAt(u) <= issued[user[u].token]
          /\ ExpiresAt(u) >= 0
    /\ user[u].taken => user[u].at = "use" /\ user[u].token # 0

TokenInv ==
    /\ TokenTypeOK
    /\ CachedTokenIsFresh
    /\ \A k \in 1 .. Len(issued) : issued[k] <= tokenTime + Lifetime
    /\ \A u \in User : Bearing(u)

LEMMA TokenInitInv == ASSUME TokenInit PROVE TokenInv
  BY TokenConstants DEF TokenInit, TokenInv, TokenTypeOK, CachedTokenIsFresh, Bearing, ExpiresAt, NoToken, IdleUser

LEMMA TokenTickInv == ASSUME TokenInv, TokenTick PROVE TokenInv'
  <1> USE DEF TokenInv, TokenTick
  <1>1. TokenTypeOK'  BY TokenConstants DEF TokenTypeOK
  <1>2. CachedTokenIsFresh'  BY DEF CachedTokenIsFresh
  <1>3. \A k \in 1 .. Len(issued) : issued'[k] <= tokenTime' + Lifetime
    BY TokenConstants DEF TokenTypeOK
  <1>4. \A u \in User : Bearing(u)'
    BY TokenConstants DEF Bearing, ExpiresAt, TokenTypeOK
  <1> QED  BY <1>1, <1>2, <1>3, <1>4

LEMMA ReadInv == ASSUME TokenInv, NEW u \in User, Read(u) PROVE TokenInv'
  <1> USE DEF TokenInv, Read
  <1>1. TokenTypeOK'  BY TokenConstants DEF TokenTypeOK
  <1>2. CachedTokenIsFresh'
    <2>1. cache.token # 0 => cache.token \in 1 .. Len(issued) /\ issued[cache.token] \in Int
      <3>1. issued \in Seq(Int) /\ Len(issued) \in Nat  BY TokenConstants DEF TokenTypeOK
      <3>2. cache.token \in 0 .. Len(issued)  BY DEF TokenTypeOK
      <3>3. cache.token # 0 => cache.token \in 1 .. Len(issued)  BY <3>1, <3>2
      <3> QED  BY <3>1, <3>3
    <2>2. ASSUME NEW w \in User, user'[w].at = "use", user'[w].taken
          PROVE  user'[w].now + Margin < issued[user'[w].token]
      <3>1. CASE w # u  BY <3>1, <2>2 DEF CachedTokenIsFresh, TokenTypeOK
      <3>2. CASE w = u
        <4>1. cache.token # 0 /\ tokenTime < cache.expires - Margin
          BY <3>2, <2>2 DEF TokenTypeOK
        <4>2. user'[u].now = tokenTime /\ user'[u].token = cache.token
          BY <4>1 DEF TokenTypeOK
        <4>3. /\ cache.expires \in Int /\ tokenTime \in Int /\ Margin \in Int
              /\ cache.expires <= issued[cache.token]
          BY <4>1, TokenConstants DEF CachedTokenIsFresh, TokenTypeOK
        <4>4. tokenTime + Margin < issued[cache.token]
          BY <2>1, <4>1, <4>3
        <4> QED  BY <3>2, <4>2, <4>4
      <3> QED  BY <3>1, <3>2
    <2> QED  BY <2>2 DEF CachedTokenIsFresh
  <1>3. \A w \in User : Bearing(w)'
    BY TokenConstants DEF Bearing, ExpiresAt, TokenTypeOK
  <1> QED  BY <1>1, <1>2, <1>3

LEMMA IssueInv == ASSUME TokenInv, NEW u \in User, Issue(u) PROVE TokenInv'
  <1> USE DEF TokenInv, Issue
  <1>1. CASE /\ Len(issued) < MaxTokens
             /\ issued' = Append(issued, tokenTime + Lifetime)
             /\ user' = [ user EXCEPT ![u] = Brings(u, Len(issued) + 1, Lifetime) ]
    <2> USE <1>1
    <2>1. /\ Len(issued') = Len(issued) + 1
          /\ \A k \in 1 .. Len(issued) : issued'[k] = issued[k]
          /\ issued'[Len(issued) + 1] = tokenTime + Lifetime
          /\ issued' \in Seq(0 .. TokenTime + Lifetime)
      BY TokenConstants DEF TokenTypeOK
    <2>2. TokenTypeOK'
      <3>1. issued' \in Seq(0 .. TokenTime + Lifetime) /\ Len(issued') <= MaxTokens
        BY <2>1, TokenConstants DEF TokenTypeOK
      <3>2. cache' \in [ token : 0 .. Len(issued'), expires : 0 .. TokenTime + Lifetime ]
        BY <2>1, TokenConstants DEF TokenTypeOK
      <3>3. 0 .. Len(issued) \subseteq 0 .. Len(issued') /\ Len(issued) + 1 \in 0 .. Len(issued')
        BY <2>1 DEF TokenTypeOK
      <3>4. user' \in [User -> [ at : { "idle", "fetch", "store", "use" }, now : 0 .. TokenTime,
                                 token : 0 .. Len(issued'), ttl : 0 .. Lifetime, taken : BOOLEAN ]]
        BY <3>3, TokenConstants DEF TokenTypeOK, Brings
      <3> QED  BY <3>1, <3>2, <3>4 DEF TokenTypeOK
    <2>3. CachedTokenIsFresh'
      <3>1. cache'.token # 0 => cache'.expires <= issued'[cache'.token]
        BY <2>1 DEF CachedTokenIsFresh, TokenTypeOK
      <3>2. ASSUME NEW w \in User, user'[w].at = "use", user'[w].taken
            PROVE  user'[w].now + Margin < issued'[user'[w].token]
        <4>1. w # u /\ user'[w] = user[w]
          BY <3>2 DEF TokenTypeOK, Brings
        <4>2. user[w].token \in 1 .. Len(issued)
          BY <3>2, <4>1 DEF Bearing, TokenTypeOK
        <4> QED  BY <2>1, <3>2, <4>1, <4>2 DEF CachedTokenIsFresh
      <3> QED  BY <3>1, <3>2 DEF CachedTokenIsFresh
    <2>4. \A k \in 1 .. Len(issued') : issued'[k] <= tokenTime' + Lifetime
      BY <2>1, TokenConstants, SMTT(40) DEF TokenTypeOK
    <2>5. ASSUME NEW w \in User PROVE Bearing(w)'
      <3>1. CASE w # u
        <4>1. user'[w] = user[w] /\ (user[w].at = "store" => user[w].token \in 1 .. Len(issued))
          BY <3>1 DEF Bearing, TokenTypeOK
        <4> QED  BY <2>1, <4>1 DEF Bearing, ExpiresAt
      <3>2. CASE w = u
        <4>1. /\ user'[u].at = "store" /\ user'[u].token = Len(issued) + 1 /\ user'[u].ttl = Lifetime
              /\ user'[u].now = user[u].now /\ ~ user'[u].taken
          BY DEF TokenTypeOK, Brings
        <4>2. user[u].now \in Nat /\ user[u].now <= tokenTime /\ tokenTime \in Nat
          BY DEF Bearing, TokenTypeOK
        <4> QED  BY <2>1, <3>2, <4>1, <4>2, TokenConstants, SMTT(40) DEF Bearing, ExpiresAt, TokenTypeOK
      <3> QED  BY <3>1, <3>2
    <2> QED  BY <2>2, <2>3, <2>4, <2>5
  <1>2. CASE /\ issued # << >> /\ issued[Len(issued)] > tokenTime
             /\ user' = [ user EXCEPT ![u] = Brings(u, Len(issued), issued[Len(issued)] - tokenTime) ]
             /\ UNCHANGED issued
    <2> USE <1>2
    <2>1. /\ Len(issued) \in 1 .. Len(issued)
          /\ issued[Len(issued)] \in Nat /\ issued[Len(issued)] <= tokenTime + Lifetime
      <3>1. issued \in Seq(Nat) /\ issued # << >>  BY TokenConstants DEF TokenTypeOK
      <3>2. Len(issued) \in Nat /\ Len(issued) >= 1  BY <3>1
      <3>3. Len(issued) \in 1 .. Len(issued)  BY <3>2
      <3>4. issued[Len(issued)] \in Nat  BY <3>1, <3>3
      <3>5. issued[Len(issued)] <= tokenTime + Lifetime  BY <3>3
      <3> QED  BY <3>3, <3>4, <3>5
    <2>2. issued[Len(issued)] - tokenTime \in 0 .. Lifetime
      <3>1. tokenTime \in Nat /\ Lifetime \in Nat  BY TokenConstants DEF TokenTypeOK
      <3> QED  BY <2>1, <3>1
    <2>3. TokenTypeOK'
      <3> DEFINE left == issued[Len(issued)] - tokenTime
      <3>1. left \in 0 .. Lifetime /\ Len(issued) \in 0 .. Len(issued)  BY <2>1, <2>2
      <3>2. user' = [ user EXCEPT ![u] = Brings(u, Len(issued), left) ]  OBVIOUS
      <3>3. TokenTypeOK /\ UNCHANGED << tokenTime, issued, cache >>  OBVIOUS
      <3> HIDE DEF left
      <3>4. user' \in [User -> [ at : { "idle", "fetch", "store", "use" }, now : 0 .. TokenTime,
                                 token : 0 .. Len(issued), ttl : 0 .. Lifetime, taken : BOOLEAN ]]
        BY ONLY <3>1, <3>2, <3>3 DEF TokenTypeOK, Brings
      <3> QED  BY ONLY <3>3, <3>4 DEF TokenTypeOK
    <2>4. CachedTokenIsFresh'  BY DEF CachedTokenIsFresh, TokenTypeOK, Brings, Bearing
    <2>5. ASSUME NEW w \in User PROVE Bearing(w)'
      <3>1. CASE w # u
        BY <3>1 DEF Bearing, ExpiresAt, TokenTypeOK
      <3>2. CASE w = u
        <4>1. /\ user'[u].at = "store" /\ user'[u].token = Len(issued)
              /\ user'[u].ttl = issued[Len(issued)] - tokenTime
              /\ user'[u].now = user[u].now /\ ~ user'[u].taken
          BY DEF TokenTypeOK, Brings
        <4>2. user[u].now \in Nat /\ user[u].now <= tokenTime /\ tokenTime \in Nat
          BY DEF Bearing, TokenTypeOK
        <4> QED  BY <2>1, <2>2, <3>2, <4>1, <4>2 DEF Bearing, ExpiresAt
      <3> QED  BY <3>1, <3>2
    <2> QED  BY <2>3, <2>4, <2>5
  <1>3. CASE user' = [ user EXCEPT ![u] = IdleUser ] /\ UNCHANGED issued
    <2> USE <1>3
    <2>1. TokenTypeOK'  BY TokenConstants DEF TokenTypeOK, IdleUser
    <2>2. CachedTokenIsFresh'  BY DEF CachedTokenIsFresh, TokenTypeOK, IdleUser
    <2>3. \A w \in User : Bearing(w)'  BY DEF Bearing, ExpiresAt, TokenTypeOK, IdleUser
    <2> QED  BY <2>1, <2>2, <2>3
  <1> QED  BY <1>1, <1>2, <1>3

LEMMA StoreInv == ASSUME TokenInv, NEW u \in User, Store(u) PROVE TokenInv'
  <1> USE DEF TokenInv, Store
  <1>1. ExpiresAt(u) \in 0 .. TokenTime + Lifetime
    BY TokenConstants DEF Bearing, ExpiresAt, TokenTypeOK
  <1>2. TokenTypeOK'  BY <1>1, ZenonT(40) DEF TokenTypeOK
  <1>3. CachedTokenIsFresh'  BY DEF CachedTokenIsFresh, Bearing, TokenTypeOK
  <1>4. \A w \in User : Bearing(w)'  BY DEF Bearing, ExpiresAt, TokenTypeOK
  <1> QED  BY <1>2, <1>3, <1>4

LEMMA UseInv == ASSUME TokenInv, NEW u \in User, UseToken(u) PROVE TokenInv'
  <1> USE DEF TokenInv, UseToken
  <1>1. TokenTypeOK'  BY TokenConstants, SMTT(40) DEF TokenTypeOK, IdleUser, NoToken
  <1>2. CachedTokenIsFresh'  BY DEF CachedTokenIsFresh, TokenTypeOK, IdleUser, NoToken
  <1>3. \A w \in User : Bearing(w)'  BY DEF Bearing, ExpiresAt, TokenTypeOK, IdleUser
  <1> QED  BY <1>1, <1>2, <1>3

LEMMA TokenInductive == TokenInv /\ [TokenNext]_tokenVars => TokenInv'
  <1> SUFFICES ASSUME TokenInv, [TokenNext]_tokenVars PROVE TokenInv'  OBVIOUS
  <1>1. CASE UNCHANGED tokenVars
    BY <1>1 DEF tokenVars, TokenInv, TokenTypeOK, CachedTokenIsFresh, Bearing, ExpiresAt
  <1>2. CASE TokenTick  BY <1>2, TokenTickInv
  <1>3. ASSUME NEW u \in User, UserStep(u) PROVE TokenInv'
    BY <1>3, ReadInv, IssueInv, StoreInv, UseInv DEF UserStep
  <1> QED  BY <1>1, <1>2, <1>3 DEF TokenNext

\* A token from the cache was good for more than the margin when it was taken, for every
\* number of coroutines, however refreshes overlap (the token helpers of event_bus.py,
\* error_publisher.py, cpi_poller.py and itsm_client.py).
THEOREM Fresh ==
  TokenSpec => []CachedTokenIsFresh
  <1>1. TokenInit => TokenInv  BY TokenInitInv
  <1>2. TokenInv => CachedTokenIsFresh  BY DEF TokenInv
  <1> QED  BY <1>1, <1>2, TokenInductive, PTL DEF TokenSpec

-----------------------------------------------------------------------------
(* Settings: memory and table differ after a failed statement only *)

\* Both hold a value for every setting, or none.
SettingsInv ==
    /\ overrides \in [Key -> Value \union {Unset}]
    /\ saved \in [Key -> Value \union {Unset}]
    /\ MemoryMatchesTable

LEMMA ValueOf == ASSUME NEW k \in Key, NEW v \in ValuesOf(k) PROVE v \in Value
  BY SettingsConstants DEF ValuesOf

LEMMA PatchInv ==
  ASSUME SettingsInv, NEW k \in Key, NEW v \in Value, PatchSetting(k, v)
  PROVE  SettingsInv'
  <1> USE DEF SettingsInv, PatchSetting, Override
  <1>1. overrides' \in [Key -> Value \union {Unset}] /\ saved' \in [Key -> Value \union {Unset}]
    OBVIOUS
  <1>2. ASSUME NEW j \in Key, j # k
        PROVE  overrides'[j] \in { saved'[j], Loaded'[j] } \/ j \in drifted'
    <2>1. overrides'[j] = overrides[j] /\ saved'[j] = saved[j]  BY <1>2
    <2>2. Loaded'[j] = Loaded[j]  BY <2>1 DEF Loaded
    <2>3. j \in drifted => j \in drifted'  BY <1>2
    <2> QED  BY <2>1, <2>2, <2>3 DEF MemoryMatchesTable
  <1>3. overrides'[k] \in { saved'[k], Loaded'[k] } \/ k \in drifted'
    OBVIOUS
  <1> QED  BY <1>1, <1>2, <1>3 DEF MemoryMatchesTable

LEMMA ResetInv ==
  ASSUME SettingsInv, NEW k \in Key, ResetSetting(k)
  PROVE  SettingsInv'
  <1> USE DEF SettingsInv, ResetSetting
  <1>1. overrides' \in [Key -> Value \union {Unset}] /\ saved' \in [Key -> Value \union {Unset}]
    OBVIOUS
  <1>2. ASSUME NEW j \in Key, j # k
        PROVE  overrides'[j] \in { saved'[j], Loaded'[j] } \/ j \in drifted'
    <2>1. overrides'[j] = overrides[j] /\ saved'[j] = saved[j]  BY <1>2
    <2>2. Loaded'[j] = Loaded[j]  BY <2>1 DEF Loaded
    <2>3. j \in drifted => j \in drifted'  BY <1>2
    <2> QED  BY <2>1, <2>2, <2>3 DEF MemoryMatchesTable
  <1>3. overrides'[k] \in { saved'[k], Loaded'[k] } \/ k \in drifted'
    OBVIOUS
  <1> QED  BY <1>1, <1>2, <1>3 DEF MemoryMatchesTable

\* What the restart loads is what the table says, or every setting counts as drifted.
LEMMA SettingsRestartInv ==
  ASSUME SettingsInv, RestartSettings
  PROVE  SettingsInv'
  <1> USE DEF SettingsInv, RestartSettings
  <1>1. Loaded \in [Key -> Value \union {Unset}]  BY SettingsConstants DEF Loaded
  <1>2. overrides' \in [Key -> Value \union {Unset}] /\ saved' \in [Key -> Value \union {Unset}]
    BY <1>1
  <1>3. Loaded' = Loaded  BY DEF Loaded
  <1>4. MemoryMatchesTable'  BY <1>3 DEF MemoryMatchesTable
  <1> QED  BY <1>2, <1>4

LEMMA SettingsSameInv ==
  ASSUME SettingsInv, UNCHANGED << overrides, saved, drifted >>
  PROVE  SettingsInv'
  BY DEF SettingsInv, MemoryMatchesTable, Loaded

LEMMA SettingsInductive == SettingsInv /\ [SettingsNext]_settingsVars => SettingsInv'
  <1> SUFFICES ASSUME SettingsInv, [SettingsNext]_settingsVars PROVE SettingsInv'  OBVIOUS
  <1>1. CASE UNCHANGED settingsVars  BY <1>1, SettingsSameInv DEF settingsVars
  <1>2. ASSUME NEW k \in Key, NEW v \in ValuesOf(k), PatchSetting(k, v) PROVE SettingsInv'
    BY <1>2, ValueOf, PatchInv
  <1>3. ASSUME NEW k \in Key, ResetSetting(k) PROVE SettingsInv'  BY <1>3, ResetInv
  <1>4. CASE ToggleAutoFix  BY <1>4, SettingsSameInv DEF ToggleAutoFix
  <1>5. CASE RestartSettings  BY <1>5, SettingsRestartInv
  <1>6. CASE GateFixes  BY <1>6, SettingsSameInv DEF GateFixes
  <1> QED  BY <1>1, <1>2, <1>3, <1>4, <1>5, <1>6 DEF SettingsNext

\* What the agents read is what the settings table holds or loads to, over every history of
\* changes, resets and restarts, except for settings whose last statement failed
\* (patch_settings, reset_setting and load_from_db of runtime_config.py and main.py).
THEOREM Matches ==
  SettingsSpec => []MemoryMatchesTable
  <1>1. SettingsInit => SettingsInv  BY DEF SettingsInit, SettingsInv, MemoryMatchesTable
  <1>2. SettingsInv => MemoryMatchesTable  BY DEF SettingsInv
  <1> QED  BY <1>1, <1>2, SettingsInductive, PTL DEF SettingsSpec

\* The switch is on or off wherever it is stored, and so is what the gate last read.
SwitchInv ==
    /\ SettingsTypeOK
    /\ { overrides[MasterSwitch], saved[MasterSwitch] } \subseteq { On, Off, Unset }

LEMMA SwitchInitInv == ASSUME SettingsInit PROVE SwitchInv
  BY SettingsConstants DEF SettingsInit, SwitchInv, SettingsTypeOK

LEMMA SwitchInductive == SwitchInv /\ [SettingsNext]_settingsVars => SwitchInv'
  <1> SUFFICES ASSUME SwitchInv, [SettingsNext]_settingsVars PROVE SwitchInv'  OBVIOUS
  <1> USE SettingsConstants DEF SwitchInv, SettingsTypeOK
  <1>1. CASE UNCHANGED settingsVars  BY <1>1 DEF settingsVars
  <1>2. ASSUME NEW k \in Key, NEW v \in ValuesOf(k), PatchSetting(k, v) PROVE SwitchInv'
    <2>1. v \in Value /\ (k = MasterSwitch => v \in { On, Off })  BY DEF ValuesOf
    <2>2. settingsCfg' \in [ faults : Nat, restarts : Nat, toggles : Nat ]
      BY <1>2 DEF PatchSetting, SettingsFails
    <2>3. /\ overrides' \in [Key -> Value \union {Unset}] /\ saved' \in [Key -> Value \union {Unset}]
          /\ { overrides'[MasterSwitch], saved'[MasterSwitch] } \subseteq { On, Off, Unset }
      BY <1>2, <2>1 DEF PatchSetting, Override
    <2> QED  BY <1>2, <2>1, <2>2, <2>3 DEF PatchSetting
  <1>3. ASSUME NEW k \in Key, ResetSetting(k) PROVE SwitchInv'
    <2>1. settingsCfg' \in [ faults : Nat, restarts : Nat, toggles : Nat ]
      BY <1>3 DEF ResetSetting, SettingsFails
    <2>2. /\ overrides' \in [Key -> Value \union {Unset}] /\ saved' \in [Key -> Value \union {Unset}]
          /\ { overrides'[MasterSwitch], saved'[MasterSwitch] } \subseteq { On, Off, Unset }
      BY <1>3 DEF ResetSetting
    <2> QED  BY <1>3, <2>1, <2>2 DEF ResetSetting
  <1>4. CASE ToggleAutoFix
    BY <1>4 DEF ToggleAutoFix
  <1>5. CASE RestartSettings
    <2>1. Loaded \in [Key -> Value \union {Unset}]  BY DEF Loaded
    <2>2. Loaded[MasterSwitch] \in { On, Off, Unset }  BY DEF Loaded
    <2>3. /\ overrides' \in [Key -> Value \union {Unset}] /\ overrides'[MasterSwitch] \in { On, Off, Unset }
          /\ saved' = saved /\ autoFix' \in { On, Off } /\ drifted' \subseteq Key /\ lastFix' = lastFix
      BY <1>5, <2>1, <2>2 DEF RestartSettings
    <2>4. settingsCfg' \in [ faults : Nat, restarts : Nat, toggles : Nat ]
      <3>1. CASE settingsCfg' = [ settingsCfg EXCEPT !.restarts = @ - 1 ]
        BY <1>5, <3>1 DEF RestartSettings
      <3>2. CASE /\ settingsCfg.faults > 0
                 /\ settingsCfg' = [ settingsCfg EXCEPT !.restarts = @ - 1, !.faults = @ - 1 ]
        <4> DEFINE a == [ settingsCfg EXCEPT !.restarts = @ - 1 ]
        <4>1. settingsCfg.restarts > 0  BY <1>5 DEF RestartSettings
        <4>2. a \in [ faults : Nat, restarts : Nat, toggles : Nat ] /\ a.faults = settingsCfg.faults
          BY <4>1
        <4>3. settingsCfg' = [ a EXCEPT !.faults = a.faults - 1 ]  BY <3>2, Zenon
        <4> HIDE DEF a
        <4> QED  BY <3>2, <4>2, <4>3
      <3> QED  BY <1>5, <3>1, <3>2 DEF RestartSettings
    <2> QED  BY <2>3, <2>4
  <1>6. CASE GateFixes
    BY <1>6 DEF GateFixes, Setting
  <1> QED  BY <1>1, <1>2, <1>3, <1>4, <1>5, <1>6 DEF SettingsNext

-----------------------------------------------------------------------------
(* Tool calls: a result is an answer, and no call is sent or done too often *)

\* ReportedAsAnswered for one caller.
Reported(c) ==
    /\ call[c].result = "success" /\ sent[c] > 0 => applied[c] > 0 \/ c \in refused
    /\ call[c].result = "error" => sent[c] > 0 /\ (call[c].attempts = 0 \/ c \in refused)
    /\ call[c].result \in { "unavailable", "missing", "invalid" } => sent[c] = 0
    /\ applied[c] + late[c] + (IF c \in refused THEN 1 ELSE 0) <= sent[c]
    /\ sent[c] > 0 => \E n \in RetrySettings : sent[c] <= n

\* What a caller has sent and has left is the number it read; nothing was sent before the
\* first attempt, a call is refused in words once and then ends, and a request the client
\* still waits for was neither done nor given up.
Counts(c) ==
    /\ call[c].at = "start" => sent[c] = 0
    /\ call[c].at # "end" => call[c].result = "none" /\ c \notin refused
    /\ call[c].at \in { "attempt", "wait", "pause" } => call[c].attempts + sent[c] \in RetrySettings
    /\ call[c].at = "attempt" => call[c].attempts > 0 \/ sent[c] = 0
    /\ call[c].at = "pause" => call[c].attempts > 0
    /\ call[c].at = "wait" =>
          /\ call[c].attempts >= 0
          /\ applied[c] + late[c] < sent[c]

ToolInv ==
    /\ ToolTypeOK
    /\ \A c \in Caller : Reported(c) /\ Counts(c)

\* Callers share nothing but the setting.
LEMMA CallersKeep ==
  ASSUME NEW w \in Caller, Reported(w), Counts(w), call'[w] = call[w], sent'[w] = sent[w],
         applied'[w] = applied[w], late'[w] = late[w], w \in refused' <=> w \in refused
  PROVE  Reported(w)' /\ Counts(w)'
  BY DEF Reported, Counts

LEMMA ToolInitInv == ASSUME ToolInit PROVE ToolInv
  BY RetriesAreIntegers DEF ToolInit, ToolInv, ToolTypeOK, Reported, Counts, Failures

LEMMA CallInv == ASSUME ToolInv, NEW c \in Caller, Call(c) PROVE ToolInv'
  <1> USE DEF ToolInv, Call, End
  <1>1. ToolTypeOK'  BY RetriesAreIntegers DEF ToolTypeOK, Failures
  <1>2. ASSUME NEW w \in Caller, w # c PROVE Reported(w)' /\ Counts(w)'
    BY <1>2, CallersKeep DEF ToolTypeOK
  <1>3. Reported(c)' /\ Counts(c)'
    <2>1. /\ sent[c] = 0 /\ sent'[c] = 0 /\ applied'[c] = applied[c] /\ late' = late
          /\ refused' = refused /\ c \notin refused
      BY DEF Counts
    <2>2. \/ call'[c].at = "end" /\ call'[c].result \in { "unavailable", "missing", "invalid" }
          \/ /\ call'[c].at = "attempt" /\ call'[c].result = "none" /\ call'[c].attempts = maxRetries
      BY DEF ToolTypeOK, Counts
    <2> QED  BY <2>1, <2>2 DEF Reported, Counts, ToolTypeOK
  <1> QED  BY <1>1, <1>2, <1>3

LEMMA NoAttemptsInv == ASSUME ToolInv, NEW c \in Caller, NoAttempts(c) PROVE ToolInv'
  <1> USE DEF ToolInv, NoAttempts, End
  <1>1. ToolTypeOK'  BY ZenonT(40) DEF ToolTypeOK, Failures
  <1>2. ASSUME NEW w \in Caller, w # c PROVE Reported(w)' /\ Counts(w)'
    BY <1>2, CallersKeep DEF ToolTypeOK
  <1>3. Reported(c)' /\ Counts(c)'
    <2>1. sent'[c] = 0 /\ sent[c] = 0  BY DEF Counts, ToolTypeOK
    <2>2. call'[c].at = "end" /\ call'[c].result = "success"  BY DEF ToolTypeOK
    <2> QED  BY <2>1, <2>2 DEF Reported, Counts
  <1> QED  BY <1>1, <1>2, <1>3

LEMMA SendInv == ASSUME ToolInv, NEW c \in Caller, Send(c) PROVE ToolInv'
  <1> USE RetriesAreIntegers DEF ToolInv, Send
  <1>1. ToolTypeOK'  BY DEF ToolTypeOK
  <1>2. ASSUME NEW w \in Caller, w # c PROVE Reported(w)' /\ Counts(w)'
    BY <1>2, CallersKeep DEF ToolTypeOK
  <1>3. Reported(c)' /\ Counts(c)'
    <2>1. /\ call'[c].at = "wait" /\ call'[c].attempts = call[c].attempts - 1
          /\ call'[c].result = "none" /\ sent'[c] = sent[c] + 1
      BY DEF ToolTypeOK, Counts
    <2>2. /\ sent[c] \in Nat /\ applied[c] \in Nat /\ late[c] \in Nat
          /\ call[c].attempts \in Int /\ call[c].attempts > 0
      BY DEF ToolTypeOK
    <2>3. call'[c].attempts + sent'[c] = call[c].attempts + sent[c]  BY <2>1, <2>2
    <2>4. call[c].attempts + sent[c] \in RetrySettings  BY DEF Counts
    <2>5. sent'[c] <= call[c].attempts + sent[c]  BY <2>1, <2>2
    <2>6. \E n \in RetrySettings : sent'[c] <= n  BY <2>4, <2>5
    <2>7. /\ applied' = applied /\ late' = late /\ refused' = refused /\ c \notin refused
          /\ applied[c] + late[c] <= sent[c]
      <3>1. c \notin refused  BY DEF Counts
      <3>2. applied[c] + late[c] + 0 <= sent[c]  BY <3>1 DEF Reported
      <3>3. applied[c] + late[c] <= sent[c]  BY <2>2, <3>2
      <3> QED  BY <3>1, <3>3
    <2>8. Reported(c)'
      <3>1. applied[c] + late[c] <= sent'[c] /\ sent'[c] > 0  BY <2>1, <2>2, <2>7
      <3> QED  BY <2>1, <2>2, <2>6, <2>7, <3>1 DEF Reported
    <2>9. Counts(c)'
      <3>1. applied[c] + late[c] < sent'[c]  BY <2>1, <2>2, <2>7
      <3> QED  BY <2>1, <2>2, <2>3, <2>4, <2>7, <3>1 DEF Counts
    <2> QED  BY <2>8, <2>9
  <1> QED  BY <1>1, <1>2, <1>3

LEMMA AnswerInv == ASSUME ToolInv, NEW c \in Caller, Answer(c) PROVE ToolInv'
  <1> USE DEF ToolInv, Answer
  <1>1. PICK r \in { "success", "error" } : End(c, r) /\ (r = "error" => c \in refused')
    OBVIOUS
  <1>2. ToolTypeOK'
    <2>1. applied' \in [Caller -> Nat] /\ refused' \subseteq Caller  BY DEF ToolTypeOK
    <2>2. call' \in [Caller -> [ at : { "start", "attempt", "wait", "pause", "end" }, attempts : Int,
                                result : Failures \union { "none", "success" } ]]
      BY <1>1 DEF ToolTypeOK, End, Failures
    <2> QED  BY <2>1, <2>2 DEF ToolTypeOK
  <1>3. ASSUME NEW w \in Caller, w # c PROVE Reported(w)' /\ Counts(w)'
    <2>1. call'[w] = call[w]  BY <1>1, <1>3 DEF End, ToolTypeOK
    <2> QED  BY <1>3, <2>1, CallersKeep DEF ToolTypeOK
  <1>4. Reported(c)' /\ Counts(c)'
    <2>1. call'[c].at = "end" /\ call'[c].result = r  BY <1>1 DEF ToolTypeOK, End
    <2>2. /\ sent' = sent /\ late' = late /\ c \notin refused
          /\ \/ applied'[c] = applied[c] + 1 /\ refused' = refused
             \/ applied'[c] = applied[c] /\ c \in refused'
      BY DEF ToolTypeOK, Counts
    <2>3. sent[c] \in Nat /\ applied[c] \in Nat /\ late[c] \in Nat  BY DEF ToolTypeOK
    <2>4. applied[c] + late[c] < sent[c]  BY DEF Counts
    <2>5. applied'[c] + late'[c] + (IF c \in refused' THEN 1 ELSE 0) <= sent'[c]
      BY <2>2, <2>3, <2>4
    <2>6. Reported(c)'  BY <1>1, <2>1, <2>2, <2>3, <2>4, <2>5 DEF Reported
    <2>7. Counts(c)'  BY <2>1 DEF Counts
    <2> QED  BY <2>6, <2>7
  <1> QED  BY <1>2, <1>3, <1>4

LEMMA NoAnswerInv == ASSUME ToolInv, NEW c \in Caller, NoAnswer(c) PROVE ToolInv'
  <1> USE DEF ToolInv, NoAnswer, GivenUp, End
  <1>1. ToolTypeOK'  BY DEF ToolTypeOK, Failures
  <1>2. ASSUME NEW w \in Caller, w # c PROVE Reported(w)' /\ Counts(w)'
    BY <1>2, CallersKeep DEF ToolTypeOK
  <1>3. Reported(c)' /\ Counts(c)'
    <2>1. \/ /\ call'[c].at = "end" /\ call'[c].result = "error" /\ call'[c].attempts = 0
          \/ /\ call'[c].at = "pause" /\ call'[c].result = "none" /\ call'[c].attempts = call[c].attempts
             /\ call[c].attempts # 0
      BY DEF ToolTypeOK, Counts
    <2>2. sent[c] \in Nat /\ applied[c] \in Nat /\ call[c].attempts \in Int /\ sent'[c] = sent[c]
      BY DEF ToolTypeOK
    <2>3. \/ applied'[c] = applied[c] + 1 /\ late'[c] = late[c]
          \/ applied'[c] = applied[c] /\ late'[c] = late[c] + 1
          \/ applied'[c] = applied[c] /\ late'[c] = late[c]
      BY DEF ToolTypeOK
    <2>4. /\ applied'[c] + late'[c] + (IF c \in refused' THEN 1 ELSE 0) <= sent'[c]
          /\ sent[c] > 0
      <3>1. late[c] \in Nat /\ refused' = refused /\ c \notin refused  BY DEF ToolTypeOK, Counts
      <3>2. applied[c] + late[c] < sent[c]  BY DEF Counts
      <3> QED  BY <2>2, <2>3, <3>1, <3>2
    <2>5. Reported(c)'  BY <2>1, <2>2, <2>4 DEF Reported
    <2>6. Counts(c)'  BY <2>1, <2>2 DEF Counts
    <2> QED  BY <2>5, <2>6
  <1> QED  BY <1>1, <1>2, <1>3

LEMMA ResumeInv == ASSUME ToolInv, NEW c \in Caller, Resume(c) PROVE ToolInv'
  <1> USE DEF ToolInv, Resume
  <1>1. ToolTypeOK'  BY DEF ToolTypeOK
  <1>2. ASSUME NEW w \in Caller, w # c PROVE Reported(w)' /\ Counts(w)'
    BY <1>2, CallersKeep DEF ToolTypeOK
  <1>3. Reported(c)' /\ Counts(c)'
    <2>1. /\ call'[c].at = "attempt" /\ call'[c].result = call[c].result
          /\ call'[c].attempts = call[c].attempts
      BY DEF ToolTypeOK
    <2> QED  BY <2>1 DEF Reported, Counts
  <1> QED  BY <1>1, <1>2, <1>3

LEMMA LateInv == ASSUME ToolInv, NEW c \in Caller, Late(c) PROVE ToolInv'
  <1> USE DEF ToolInv, Late
  <1>1. ToolTypeOK'  BY DEF ToolTypeOK
  <1>2. ASSUME NEW w \in Caller, w # c PROVE Reported(w)' /\ Counts(w)'
    BY <1>2, CallersKeep DEF ToolTypeOK
  <1>3. Reported(c)' /\ Counts(c)'
    <2>1. applied'[c] = applied[c] + 1 /\ late'[c] = late[c] - 1  BY DEF ToolTypeOK
    <2>2. sent[c] \in Nat /\ applied[c] \in Nat /\ late[c] \in Nat  BY DEF ToolTypeOK
    <2>3. applied'[c] + late'[c] = applied[c] + late[c]  BY <2>1, <2>2
    <2> QED  BY <2>1, <2>2, <2>3 DEF Reported, Counts
  <1> QED  BY <1>1, <1>2, <1>3

LEMMA ToolInductive == ToolInv /\ [ToolNext]_toolVars => ToolInv'
  <1> SUFFICES ASSUME ToolInv, [ToolNext]_toolVars PROVE ToolInv'  OBVIOUS
  <1>1. CASE UNCHANGED toolVars
    BY <1>1 DEF toolVars, ToolInv, ToolTypeOK, Reported, Counts
  <1>2. ASSUME NEW c \in Caller, CallStep(c) PROVE ToolInv'
    BY <1>2, CallInv, NoAttemptsInv, SendInv, AnswerInv, NoAnswerInv, ResumeInv DEF CallStep
  <1>3. ASSUME NEW c \in Caller, Late(c) PROVE ToolInv'  BY <1>3, LateInv
  <1>4. ASSUME NEW n \in RetrySettings, ChangeRetries(n) PROVE ToolInv'
    BY <1>4 DEF ChangeRetries, ToolInv, ToolTypeOK, Reported, Counts
  <1> QED  BY <1>1, <1>2, <1>3, <1>4 DEF ToolNext

\* A tool call reported successful after it was sent was answered by the server, which did
\* the update or refused it in words; one reported in error used up its attempts or was told
\* so; one refused before the loop was not sent; and none is sent or done more often than
\* MAX_RETRIES allows, answers late or lost (MultiMCP.execute and execute_integration_tool
\* of mcp_manager.py).
THEOREM AnsweredAsReported ==
  ToolSpec => []ReportedAsAnswered
  <1>1. ToolInit => ToolInv  BY ToolInitInv
  <1>2. ToolInv => ReportedAsAnswered  BY DEF ToolInv, Reported, ReportedAsAnswered
  <1> QED  BY <1>1, <1>2, ToolInductive, PTL DEF ToolSpec

-----------------------------------------------------------------------------
(* The connection pool: none is handed out twice and only failures lose one *)

PoolInv == PoolTypeOK /\ IsFiniteSet(Held) /\ PoolAccounts

\* A queue loses its first element or gets a new last one.
LEMMA PoolQueue ==
  ASSUME NEW s \in Seq({ "up", "down" })
  PROVE  /\ Len(s) \in Nat
         /\ s # << >> => /\ Head(s) \in { "up", "down" } /\ Tail(s) \in Seq({ "up", "down" })
                         /\ Len(Tail(s)) = Len(s) - 1
         /\ Append(s, "up") \in Seq({ "up", "down" }) /\ Len(Append(s, "up")) = Len(s) + 1
  <1>1. Len(s) \in Nat  OBVIOUS
  <1>2. ASSUME s # << >>
        PROVE  /\ Head(s) \in { "up", "down" } /\ Tail(s) \in Seq({ "up", "down" })
               /\ Len(Tail(s)) = Len(s) - 1
    <2>1. Len(s) # 0  BY <1>2
    <2> QED  BY <1>1, <1>2, <2>1
  <1> QED  BY <1>1, <1>2

\* The connections in use, when the user u gets one, gives one away, or has one that breaks.
LEMMA HeldTaken ==
  ASSUME PoolTypeOK, IsFiniteSet(Held), NEW u \in DbUser, dbUser[u] = "none",
         dbUser' = [ dbUser EXCEPT ![u] = "up" ]
  PROVE  /\ dbUser' \in [DbUser -> { "none", "up", "down" }]
         /\ IsFiniteSet(Held') /\ Cardinality(Held') = Cardinality(Held) + 1
  <1>1. dbUser' \in [DbUser -> { "none", "up", "down" }]  BY DEF PoolTypeOK
  <1>2. Held' = Held \union {u} /\ u \notin Held  BY DEF Held, PoolTypeOK
  <1>3. IsFiniteSet(Held \union {u}) /\ Cardinality(Held \union {u}) = Cardinality(Held) + 1
    BY <1>2, FS_AddElement
  <1> QED  BY <1>1, <1>2, <1>3

LEMMA HeldGiven ==
  ASSUME PoolTypeOK, IsFiniteSet(Held), NEW u \in DbUser, dbUser[u] # "none",
         dbUser' = [ dbUser EXCEPT ![u] = "none" ]
  PROVE  /\ dbUser' \in [DbUser -> { "none", "up", "down" }]
         /\ IsFiniteSet(Held') /\ Cardinality(Held') = Cardinality(Held) - 1
  <1>1. dbUser' \in [DbUser -> { "none", "up", "down" }]  BY DEF PoolTypeOK
  <1>2. Held' = Held \ {u} /\ u \in Held  BY DEF Held, PoolTypeOK
  <1>3. IsFiniteSet(Held \ {u}) /\ Cardinality(Held \ {u}) = Cardinality(Held) - 1
    BY <1>2, FS_RemoveElement
  <1> QED  BY <1>1, <1>2, <1>3

LEMMA HeldBroken ==
  ASSUME PoolTypeOK, NEW u \in DbUser, dbUser[u] = "up", dbUser' = [ dbUser EXCEPT ![u] = "down" ]
  PROVE  dbUser' \in [DbUser -> { "none", "up", "down" }] /\ Held' = Held
  BY DEF Held, PoolTypeOK

\* A step that leaves the sum of queue and users where it is, or one lower for a fault.
LEMMA PoolStep ==
  ASSUME PoolInv, pool' \in Seq({ "up", "down" }), dbUser' \in [DbUser -> { "none", "up", "down" }],
         IsFiniteSet(Held'), dbFaults' \in 0 .. DbFaults,
         \/ /\ Len(pool') + Cardinality(Held') = Len(pool) + Cardinality(Held)
            /\ dbFaults' = dbFaults
         \/ /\ Len(pool') + Cardinality(Held') = Len(pool) + Cardinality(Held) - 1
            /\ dbFaults' = dbFaults - 1
  PROVE  PoolInv'
  <1>1. Cardinality(Held) \in Nat /\ Cardinality(Held') \in Nat
    BY FS_CardinalityType DEF PoolInv
  <1>2. Len(pool) \in Nat /\ Len(pool') \in Nat /\ dbFaults \in 0 .. DbFaults
    BY DEF PoolInv, PoolTypeOK
  <1>3. PoolAccounts'
    BY <1>1, <1>2, PoolConstants DEF PoolInv, PoolAccounts
  <1>4. Len(pool') <= PoolSize  BY <1>1, <1>2, <1>3, PoolConstants DEF PoolAccounts
  <1> QED  BY <1>3, <1>4 DEF PoolInv, PoolTypeOK

\* What the actions know of the state before.
LEMMA PoolKnown ==
  ASSUME PoolInv
  PROVE  /\ PoolTypeOK /\ IsFiniteSet(Held) /\ Cardinality(Held) \in Nat
         /\ pool \in Seq({ "up", "down" }) /\ Len(pool) \in Nat /\ dbFaults \in 0 .. DbFaults
         /\ dbUser \in [DbUser -> { "none", "up", "down" }]
  BY PoolQueue, FS_CardinalityType DEF PoolInv, PoolTypeOK

LEMMA FaultSpent ==
  ASSUME PoolInv, DbFault
  PROVE  dbFaults' \in 0 .. DbFaults /\ dbFaults' = dbFaults - 1
  BY PoolConstants DEF PoolInv, PoolTypeOK, DbFault

LEMMA AcquireInv == ASSUME PoolInv, NEW u \in DbUser, Acquire(u) PROVE PoolInv'
  <1>1. dbUser[u] = "none" /\ pool' \in Seq({ "up", "down" }) /\ Len(pool') = Len(pool) - 1
    BY PoolKnown, PoolQueue DEF Acquire
  <1>2. CASE dbUser' = [ dbUser EXCEPT ![u] = "up" ] /\ UNCHANGED dbFaults
    <2>1. /\ dbUser' \in [DbUser -> { "none", "up", "down" }] /\ IsFiniteSet(Held')
          /\ Cardinality(Held') = Cardinality(Held) + 1
      BY <1>1, <1>2, PoolKnown, HeldTaken
    <2>2. Len(pool') + Cardinality(Held') = Len(pool) + Cardinality(Held)
      BY <1>1, <2>1, PoolKnown
    <2>3. dbFaults' = dbFaults /\ dbFaults' \in 0 .. DbFaults  BY <1>2, PoolKnown
    <2> QED  BY <1>1, <2>1, <2>2, <2>3, PoolStep
  <1>3. CASE DbFault /\ UNCHANGED dbUser
    <2>1. Held' = Held /\ dbUser' \in [DbUser -> { "none", "up", "down" }]
      BY <1>3, PoolKnown DEF Held
    <2>2. dbFaults' \in 0 .. DbFaults /\ dbFaults' = dbFaults - 1  BY <1>3, FaultSpent
    <2>3. Len(pool') + Cardinality(Held') = Len(pool) + Cardinality(Held) - 1
      BY <1>1, <2>1, PoolKnown
    <2>4. IsFiniteSet(Held')  BY <2>1, PoolKnown
    <2> QED  BY <1>1, <2>1, <2>2, <2>3, <2>4, PoolStep
  <1> QED  BY <1>2, <1>3 DEF Acquire

LEMMA StatementRaisesInv == ASSUME PoolInv, NEW u \in DbUser, StatementRaises(u) PROVE PoolInv'
  <1>1. /\ dbUser[u] # "none" /\ dbUser' = [ dbUser EXCEPT ![u] = "none" ] /\ pool' = pool
        /\ DbFault
    BY DEF StatementRaises
  <1>2. dbFaults' \in 0 .. DbFaults /\ dbFaults' = dbFaults - 1  BY <1>1, FaultSpent
  <1>3. /\ dbUser' \in [DbUser -> { "none", "up", "down" }] /\ IsFiniteSet(Held')
        /\ Cardinality(Held') = Cardinality(Held) - 1
    BY <1>1, PoolKnown, HeldGiven
  <1>4. Len(pool') + Cardinality(Held') = Len(pool) + Cardinality(Held) - 1
    BY <1>1, <1>3, PoolKnown
  <1>5. pool' \in Seq({ "up", "down" })  BY <1>1, PoolKnown
  <1> QED  BY <1>2, <1>3, <1>4, <1>5, PoolStep

LEMMA CloseConnectionInv == ASSUME PoolInv, NEW u \in DbUser, CloseConnection(u) PROVE PoolInv'
  <1>1. dbUser[u] # "none" /\ dbUser' = [ dbUser EXCEPT ![u] = "none" ]
    BY DEF CloseConnection
  <1>2. /\ dbUser' \in [DbUser -> { "none", "up", "down" }] /\ IsFiniteSet(Held')
        /\ Cardinality(Held') = Cardinality(Held) - 1
    BY <1>1, PoolKnown, HeldGiven
  <1>3. CASE pool' = Append(pool, "up") /\ UNCHANGED dbFaults
    <2>1. pool' \in Seq({ "up", "down" }) /\ Len(pool') = Len(pool) + 1  BY <1>3, PoolKnown, PoolQueue
    <2>2. Len(pool') + Cardinality(Held') = Len(pool) + Cardinality(Held)
      BY <1>2, <2>1, PoolKnown
    <2>3. dbFaults' = dbFaults /\ dbFaults' \in 0 .. DbFaults  BY <1>3, PoolKnown
    <2> QED  BY <1>2, <2>1, <2>2, <2>3, PoolStep
  <1>4. CASE DbFault /\ UNCHANGED pool
    <2>1. dbFaults' \in 0 .. DbFaults /\ dbFaults' = dbFaults - 1  BY <1>4, FaultSpent
    <2>2. pool' \in Seq({ "up", "down" })  BY <1>4, PoolKnown
    <2>3. Len(pool') + Cardinality(Held') = Len(pool) + Cardinality(Held) - 1
      BY <1>2, <1>4, PoolKnown
    <2> QED  BY <1>2, <2>1, <2>2, <2>3, PoolStep
  <1> QED  BY <1>3, <1>4 DEF CloseConnection

LEMMA BreaksInv == ASSUME PoolInv, Breaks PROVE PoolInv'
  <1>1. dbFaults' = dbFaults /\ dbFaults' \in 0 .. DbFaults  BY PoolKnown DEF Breaks
  <1>2. ASSUME NEW i \in DOMAIN pool, pool' = [ pool EXCEPT ![i] = "down" ], UNCHANGED dbUser
        PROVE  PoolInv'
    <2>1. pool' \in Seq({ "up", "down" }) /\ Len(pool') = Len(pool)  BY <1>2, PoolKnown
    <2>2. Held' = Held /\ dbUser' \in [DbUser -> { "none", "up", "down" }]
      BY <1>2, PoolKnown DEF Held
    <2>3. IsFiniteSet(Held') /\ Len(pool') + Cardinality(Held') = Len(pool) + Cardinality(Held)
      BY <2>1, <2>2, PoolKnown
    <2> QED  BY <1>1, <2>1, <2>2, <2>3, PoolStep
  <1>3. ASSUME NEW u \in DbUser, dbUser[u] = "up", dbUser' = [ dbUser EXCEPT ![u] = "down" ],
               UNCHANGED pool
        PROVE  PoolInv'
    <2>1. dbUser' \in [DbUser -> { "none", "up", "down" }] /\ Held' = Held
      BY <1>3, PoolKnown, HeldBroken
    <2>2. IsFiniteSet(Held') /\ Len(pool') + Cardinality(Held') = Len(pool) + Cardinality(Held)
      BY <1>3, <2>1, PoolKnown
    <2>3. pool' \in Seq({ "up", "down" })  BY <1>3, PoolKnown
    <2> QED  BY <1>1, <2>1, <2>2, <2>3, PoolStep
  <1> QED  BY <1>2, <1>3 DEF Breaks

LEMMA PoolInitInv == ASSUME PoolInit PROVE PoolInv
  <1>1. Held = {}  BY DEF PoolInit, Held
  <1>2. IsFiniteSet(Held) /\ Cardinality(Held) = 0  BY <1>1, FS_EmptySet
  <1>3. pool \in Seq({ "up", "down" }) /\ Len(pool) = PoolSize  BY PoolConstants DEF PoolInit
  <1> QED  BY <1>2, <1>3, PoolConstants DEF PoolInit, PoolInv, PoolTypeOK, PoolAccounts

LEMMA PoolInductive == PoolInv /\ [PoolNext]_dbVars => PoolInv'
  <1> SUFFICES ASSUME PoolInv, [PoolNext]_dbVars PROVE PoolInv'  OBVIOUS
  <1>1. CASE UNCHANGED dbVars
    BY <1>1 DEF dbVars, PoolInv, PoolTypeOK, PoolAccounts, Held
  <1> QED
    BY <1>1, AcquireInv, StatementRaisesInv, CloseConnectionInv, BreaksInv DEF PoolNext

\* A connection is lost only to a statement that raised or a logon that was refused, and none
\* is put back twice, for any number of threads (get_connection and _PooledConnection.close of
\* db/database.py).
THEOREM NoneLent ==
  PoolSpec => []PoolAccounts
  <1>1. PoolInv => PoolAccounts  BY DEF PoolInv
  <1> QED  BY <1>1, PoolInitInv, PoolInductive, PTL DEF PoolSpec

-----------------------------------------------------------------------------
(* The tables in memory: room is made by the oldest entries *)

TableInv ==
    /\ TableTypeOK
    /\ IsFiniteSet(Present(entries)) /\ Cardinality(Present(entries)) <= Capacity + 1

\* The entries that speak for dropping e: those that are no older.
NoOlder(t, e) == { f \in Entry \ {e} : t[f] >= t[e] }

\* What a trimmed table is: within the capacity, and short only of entries that as many
\* others as the capacity are no older than.
LEMMA TrimmedTable ==
  ASSUME NEW s \in [Entry -> -1 .. TableTime], IsFiniteSet(Present(s)), NEW t \in Trimmed(s)
  PROVE  /\ t \in [Entry -> -1 .. TableTime] /\ IsFiniteSet(Present(t))
         /\ Cardinality(Present(t)) <= Capacity
         /\ \A e \in Present(s) \ Present(t) :
               IsFiniteSet(NoOlder(s, e)) /\ Cardinality(NoOlder(s, e)) >= Capacity
  <1> DEFINE P == Present(s)
  <1>0. Cardinality(P) \in Nat /\ Capacity \in Nat  BY FS_CardinalityType, TableConstants
  <1>1. CASE Excess(s) <= 0
    <2>1. t = s  BY <1>1 DEF Trimmed
    <2> QED  BY <1>0, <1>1, <2>1 DEF Excess
  <1>2. CASE ~ (Excess(s) <= 0)
    <2>1. PICK D \in SUBSET P :
             MakesRoom(s, D) /\ t = [ e \in Entry |-> IF e \in D THEN -1 ELSE s[e] ]
      BY <1>2 DEF Trimmed
    <2>2. t \in [Entry -> -1 .. TableTime]  BY <2>1, TableConstants
    <2>3. Present(t) = P \ D  BY <2>1, <2>2 DEF Present
    <2>4. IsFiniteSet(D) /\ IsFiniteSet(P \ D)  BY <2>1, FS_Subset
    <2>5. Cardinality(D) = Cardinality(P) - Capacity  BY <2>1 DEF MakesRoom, Excess
    <2>6. Cardinality(P \ D) = Cardinality(P) - Cardinality(P \cap D)
      BY FS_Difference
    <2>7. P \cap D = D  BY <2>1
    <2>8. Cardinality(P \ D) = Capacity  BY <1>0, <2>5, <2>6, <2>7
    <2>9. ASSUME NEW e \in P \ Present(t)
          PROVE  IsFiniteSet(NoOlder(s, e)) /\ Cardinality(NoOlder(s, e)) >= Capacity
      <3>1. e \in D /\ e \in Entry /\ s[e] >= 0  BY <2>1, <2>3 DEF Present
      <3>2. P \ D \subseteq NoOlder(s, e)
        <4> SUFFICES ASSUME NEW f \in P \ D PROVE f \in NoOlder(s, e)  OBVIOUS
        <4>1. s[e] <= s[f]  BY <2>1, <3>1 DEF MakesRoom
        <4>2. f \in Entry \ {e} /\ s[f] \in Int /\ s[e] \in Int  BY <3>1, TableConstants DEF Present
        <4> QED  BY <4>1, <4>2 DEF NoOlder
      <3>3. NoOlder(s, e) \subseteq P
        <4> SUFFICES ASSUME NEW f \in NoOlder(s, e) PROVE f \in P  OBVIOUS
        <4>1. f \in Entry /\ s[f] >= s[e]  BY DEF NoOlder
        <4>2. s[f] \in Int /\ s[e] \in Int  BY <3>1, <4>1, TableConstants
        <4> QED  BY <3>1, <4>1, <4>2 DEF Present
      <3>4. IsFiniteSet(NoOlder(s, e))  BY <3>3, FS_Subset
      <3>5. Cardinality(P \ D) <= Cardinality(NoOlder(s, e)) /\ Cardinality(NoOlder(s, e)) \in Nat
        BY <3>2, <3>4, FS_Subset, FS_CardinalityType
      <3> QED  BY <1>0, <2>8, <3>4, <3>5
    <2> QED  BY <1>0, <2>2, <2>3, <2>4, <2>8, <2>9
  <1> QED  BY <1>1, <1>2

\* The same for the table as it was before the expired entries went.
LEMMA TrimmedUnexpired ==
  ASSUME TableInv, NEW t \in Trimmed(Unexpired(entries))
  PROVE  /\ t \in [Entry -> -1 .. TableTime] /\ IsFiniteSet(Present(t))
         /\ Cardinality(Present(t)) <= Capacity
         /\ \A e \in Present(entries) \ Present(t) :
               tableTime - entries[e] > EntryTtl \/ Cardinality(NoOlder(entries, e)) >= Capacity
  <1> DEFINE s == Unexpired(entries)
  <1>1. entries \in [Entry -> -1 .. TableTime] /\ IsFiniteSet(Present(entries))
    BY DEF TableInv, TableTypeOK
  <1>2. s \in [Entry -> -1 .. TableTime]  BY <1>1, TableConstants DEF Unexpired
  <1>3. \A e \in Entry : s[e] = IF tableTime - entries[e] > EntryTtl THEN -1 ELSE entries[e]
    BY DEF Unexpired
  <1>4. Present(s) \subseteq Present(entries)  BY <1>1, <1>3 DEF Present
  <1>5. IsFiniteSet(Present(s))  BY <1>1, <1>4, FS_Subset
  <1> HIDE DEF s
  <1>6. /\ t \in [Entry -> -1 .. TableTime] /\ IsFiniteSet(Present(t))
        /\ Cardinality(Present(t)) <= Capacity
        /\ \A e \in Present(s) \ Present(t) :
              IsFiniteSet(NoOlder(s, e)) /\ Cardinality(NoOlder(s, e)) >= Capacity
    BY <1>2, <1>5, TrimmedTable DEF s
  <1>7. ASSUME NEW e \in Present(entries) \ Present(t), ~ (tableTime - entries[e] > EntryTtl)
        PROVE  Cardinality(NoOlder(entries, e)) >= Capacity
    <2>1. e \in Entry /\ entries[e] >= 0 /\ s[e] = entries[e]  BY <1>3, <1>7 DEF Present
    <2>2. e \in Present(s) \ Present(t)  BY <1>7, <2>1 DEF Present
    <2>3. NoOlder(s, e) \subseteq NoOlder(entries, e)
      <3> SUFFICES ASSUME NEW f \in NoOlder(s, e) PROVE f \in NoOlder(entries, e)  OBVIOUS
      <3>1. f \in Entry \ {e} /\ s[f] >= s[e]  BY DEF NoOlder
      <3>2. s[f] \in Int /\ s[e] \in Int  BY <1>2, <2>1, <3>1, TableConstants
      <3>3. s[f] # -1  BY <2>1, <3>1, <3>2
      <3>4. s[f] = entries[f]  BY <1>3, <3>1, <3>3
      <3> QED  BY <2>1, <3>1, <3>4 DEF NoOlder
    <2>4. NoOlder(entries, e) \subseteq Present(entries)
      <3> SUFFICES ASSUME NEW f \in NoOlder(entries, e) PROVE f \in Present(entries)  OBVIOUS
      <3>1. f \in Entry /\ entries[f] >= entries[e]  BY DEF NoOlder
      <3>2. entries[f] \in Int /\ entries[e] \in Int  BY <1>1, <2>1, <3>1, TableConstants
      <3> QED  BY <2>1, <3>1, <3>2 DEF Present
    <2>5. IsFiniteSet(NoOlder(entries, e))  BY <1>1, <2>4, FS_Subset
    <2>6. /\ Cardinality(NoOlder(s, e)) <= Cardinality(NoOlder(entries, e))
          /\ Cardinality(NoOlder(s, e)) \in Nat /\ Cardinality(NoOlder(entries, e)) \in Nat
      BY <1>6, <2>2, <2>3, <2>5, FS_Subset, FS_CardinalityType
    <2> QED  BY <1>6, <2>2, <2>6, TableConstants
  <1> QED  BY <1>6, <1>7

\* One step of the table, and what it may drop.
Keeps ==
    /\ Cardinality(Present(entries')) <= Capacity + 1
    /\ \A e \in Present(entries) \ Present(entries') :
          tableTime - entries[e] > EntryTtl \/ Cardinality(NoOlder(entries, e)) >= Capacity

LEMMA TableTickKeeps == ASSUME TableInv, TableTick PROVE TableInv' /\ Keeps
  <1>1. entries' = entries /\ tableTime' \in 0 .. TableTime
    BY TableConstants DEF TableInv, TableTypeOK, TableTick
  <1> QED  BY <1>1 DEF TableInv, TableTypeOK, Keeps

LEMMA LookKeeps == ASSUME TableInv, Look PROVE TableInv' /\ Keeps
  <1>1. entries' \in Trimmed(Unexpired(entries)) /\ tableTime' = tableTime  BY DEF Look
  <1>2. /\ entries' \in [Entry -> -1 .. TableTime] /\ IsFiniteSet(Present(entries'))
        /\ Cardinality(Present(entries')) <= Capacity
        /\ \A e \in Present(entries) \ Present(entries') :
              tableTime - entries[e] > EntryTtl \/ Cardinality(NoOlder(entries, e)) >= Capacity
    BY <1>1, TrimmedUnexpired
  <1>3. Cardinality(Present(entries')) <= Capacity + 1
    BY <1>2, FS_CardinalityType, TableConstants
  <1> QED  BY <1>1, <1>2, <1>3 DEF TableInv, TableTypeOK, Keeps, Present

LEMMA WriteKeeps == ASSUME TableInv, NEW e \in Entry, Write(e) PROVE TableInv' /\ Keeps
  <1>1. PICK t \in Trimmed(Unexpired(entries)) : entries' = [ t EXCEPT ![e] = tableTime ]
    BY DEF Write
  <1>2. tableTime' = tableTime /\ tableTime \in 0 .. TableTime
    BY DEF Write, TableInv, TableTypeOK
  <1>3. /\ t \in [Entry -> -1 .. TableTime] /\ IsFiniteSet(Present(t))
        /\ Cardinality(Present(t)) <= Capacity
        /\ \A d \in Present(entries) \ Present(t) :
              tableTime - entries[d] > EntryTtl \/ Cardinality(NoOlder(entries, d)) >= Capacity
    BY TrimmedUnexpired
  <1>4. entries' \in [Entry -> -1 .. TableTime]  BY <1>1, <1>2, <1>3, TableConstants
  <1>5. Present(entries') = Present(t) \union {e}
    BY <1>1, <1>2, <1>3 DEF Present
  <1>6. /\ IsFiniteSet(Present(t) \union {e})
        /\ Cardinality(Present(t) \union {e}) = IF e \in Present(t) THEN Cardinality(Present(t))
                                                ELSE Cardinality(Present(t)) + 1
    BY <1>3, FS_AddElement
  <1>7. Cardinality(Present(entries')) <= Capacity + 1
    BY <1>3, <1>5, <1>6, FS_CardinalityType, TableConstants
  <1>8. \A d \in Present(entries) \ Present(entries') :
           tableTime - entries[d] > EntryTtl \/ Cardinality(NoOlder(entries, d)) >= Capacity
    BY <1>3, <1>5
  <1> QED  BY <1>2, <1>4, <1>5, <1>6, <1>7, <1>8 DEF TableInv, TableTypeOK, Keeps, Present

LEMMA TableInitInv == ASSUME TableInit PROVE TableInv
  <1>1. Present(entries) = {}  BY DEF TableInit, Present
  <1>2. IsFiniteSet(Present(entries)) /\ Cardinality(Present(entries)) = 0  BY <1>1, FS_EmptySet
  <1>3. TableTypeOK  BY TableConstants DEF TableInit, TableTypeOK
  <1> QED  BY <1>2, <1>3, TableConstants DEF TableInv

LEMMA TableInductive == TableInv /\ [TableNext]_tableVars => TableInv' /\ [Keeps]_tableVars
  <1> SUFFICES ASSUME TableInv, [TableNext]_tableVars PROVE TableInv' /\ [Keeps]_tableVars  OBVIOUS
  <1>1. CASE UNCHANGED tableVars
    BY <1>1 DEF tableVars, TableInv, TableTypeOK, Present
  <1> QED  BY <1>1, TableTickKeeps, LookKeeps, WriteKeeps DEF TableNext

\* The table never holds more than one entry beyond its capacity, and drops an entry that has
\* not expired only for a full table of entries that are no older, for any number of incidents
\* and sessions (cleanup_fix_progress, _set_progress, cleanup_memory and update_memory).
THEOREM NewestKept ==
  TableSpec => TableKeepsNewest
  <1>1. [Keeps]_tableVars => [ /\ Cardinality(Present(entries')) <= Capacity + 1
            /\ \A e \in Present(entries) \ Present(entries') :
                  \/ tableTime - entries[e] > EntryTtl
                  \/ Cardinality({ f \in Entry \ {e} : entries[f] >= entries[e] }) >= Capacity ]_tableVars
    BY DEF Keeps, NoOlder
  <1> QED  BY <1>1, TableInitInv, TableInductive, PTL DEF TableSpec, TableKeepsNewest

-----------------------------------------------------------------------------
(* The services together: what holds of each holds of the process that runs them *)

ServicesInv ==
    /\ OrphanInv /\ ResolvedTogether /\ OnceInv
    /\ CInv /\ CpiTypeOK
    /\ TokenInv
    /\ PoolInv
    /\ SettingsInv /\ SwitchInv
    /\ ToolInv
    /\ TableInv

LEMMA ServicesInit == ASSUME Init PROVE ServicesInv
  <1>1. /\ ItsmInit /\ CpiInit /\ TokenInit /\ PoolInit /\ SettingsInit /\ ToolInit /\ TableInit
    BY DEF Init
  <1>2. ResolvedTogether  BY <1>1 DEF ItsmInit, ResolvedTogether
  <1>3. SettingsInv  BY <1>1 DEF SettingsInit, SettingsInv, MemoryMatchesTable
  <1> QED
    BY <1>1, <1>2, <1>3, OrphanInitInv, OnceInitInv, InitInv, CpiInitTyped, TokenInitInv, PoolInitInv,
       SwitchInitInv, ToolInitInv, TableInitInv DEF ServicesInv

\* A step of the process is a step of each service, or leaves it alone.
LEMMA EachSteps ==
  ASSUME [Next]_vars
  PROVE  /\ [ItsmNext]_itsmVars /\ [CpiNext]_cpiVars /\ [TokenNext]_tokenVars /\ [PoolNext]_dbVars
         /\ [SettingsNext]_settingsVars /\ [ToolNext]_toolVars /\ [TableNext]_tableVars
  <1>1. CASE UNCHANGED vars  BY <1>1 DEF vars
  <1>2. CASE Next  BY <1>2 DEF Next
  <1> QED  BY <1>1, <1>2

LEMMA ServicesInductive == ServicesInv /\ [Next]_vars => ServicesInv'
  <1> SUFFICES ASSUME ServicesInv, [Next]_vars PROVE ServicesInv'  OBVIOUS
  <1> USE DEF ServicesInv
  <1>1. ItsmTypeOK  BY DEF OrphanInv, ItsmInv
  <1>2. OrphanInv' /\ ResolvedTogether' /\ OnceInv'
    BY <1>1, EachSteps, OrphanInductive, TogetherInductive, OnceInductive
  <1>3. CInv' /\ CpiTypeOK'  BY EachSteps, CpiInductive, CpiTyping
  <1>4. TokenInv' /\ PoolInv'  BY EachSteps, TokenInductive, PoolInductive
  <1>5. SettingsInv' /\ SwitchInv'  BY EachSteps, SettingsInductive, SwitchInductive
  <1>6. ToolInv' /\ TableInv'  BY EachSteps, ToolInductive, TableInductive
  <1> QED  BY <1>2, <1>3, <1>4, <1>5, <1>6

LEMMA ServicesAlways == Spec => []ServicesInv
  BY ServicesInit, ServicesInductive, PTL DEF Spec

\* Every service keeps its variables in their types, whichever of them runs.
THEOREM ServicesTyped ==
  Spec => []TypeOK
  <1>1. ServicesInv => TypeOK
    BY DEF ServicesInv, TypeOK, OrphanInv, ItsmInv, TokenInv, PoolInv, SwitchInv, ToolInv, TableInv
  <1> QED  BY <1>1, ServicesAlways, PTL

\* The invariants of the single services hold of the process that runs one of them.
THEOREM ServicesSafe ==
  Spec => [](/\ NoOrphan /\ ResolvedTogether /\ LearnedOnce /\ NoDuplicate /\ MarkedIsDelivered
             /\ CachedTokenIsFresh /\ PoolAccounts /\ MemoryMatchesTable /\ ReportedAsAnswered)
  <1>1. ServicesInv => /\ NoOrphan /\ ResolvedTogether /\ LearnedOnce /\ NoDuplicate /\ MarkedIsDelivered
                       /\ CachedTokenIsFresh /\ PoolAccounts /\ MemoryMatchesTable /\ ReportedAsAnswered
    <2> SUFFICES ASSUME ServicesInv
                 PROVE  /\ NoOrphan /\ ResolvedTogether /\ LearnedOnce /\ NoDuplicate /\ MarkedIsDelivered
                        /\ CachedTokenIsFresh /\ PoolAccounts /\ MemoryMatchesTable /\ ReportedAsAnswered
      OBVIOUS
    <2>1. LearnedOnce  BY DEF ServicesInv, OnceInv, LearnedOnce, Counted
    <2>2. ReportedAsAnswered  BY DEF ServicesInv, ToolInv, Reported, ReportedAsAnswered
    <2> QED  BY <2>1, <2>2 DEF ServicesInv, OrphanInv, CInv, TokenInv, PoolInv, SettingsInv
  <1> QED  BY <1>1, ServicesAlways, PTL

\* No step of the process undoes what must not be undone: a closed ticket stays closed, and an
\* entry that is neither expired nor among the oldest of a full table stays in it.
THEOREM ServicesNeverUndo ==
  Spec => ClosedStaysClosed /\ TableKeepsNewest
  <1>1. Init => ItsmInit /\ TableInit  BY DEF Init
  <1>2. [Next]_vars => [ItsmNext]_itsmVars /\ [TableNext]_tableVars  BY EachSteps
  <1>3. Spec => ItsmSpec /\ TableSpec  BY <1>1, <1>2, PTL DEF Spec, ItsmSpec, TableSpec
  <1> QED  BY <1>3, StayClosed, NewestKept
=============================================================================
