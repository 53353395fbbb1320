--------------------------- MODULE MCEventPipeline ---------------------------
EXTENDS EventPipeline, TLC
CONSTANTS e1, e2, e3, f1, f2, f3, f4, s1, s2
MCEntries == e1 :> << f1, f2 >> @@ e2 :> << f3 >> @@ e3 :> << f4 >>
MCSigOf == f1 :> s1 @@ f2 :> s2 @@ f3 :> s1 @@ f4 :> s1
Agents == [ doors |-> {"agents"}, mesh |-> TRUE, retype |-> FALSE, faults |-> {}, spare |-> 0, sends |-> {e1, e2},
            burst |-> TRUE ]
AgentsTwice == [ Agents EXCEPT !.spare = 1, !.sends = {e2} ]
Recurring == [ Agents EXCEPT !.mesh = FALSE, !.sends = {e1, e2, e3}, !.burst = FALSE ]
Events == [ Agents EXCEPT !.doors = {"events"}, !.mesh = FALSE, !.retype = TRUE, !.sends = {e1} ]
BothDoors == [ Events EXCEPT !.doors = {"agents", "events"}, !.retype = FALSE, !.sends = {e2, e3} ]
EventsRestart == [ Events EXCEPT !.mesh = TRUE, !.retype = FALSE, !.faults = {"restart"}, !.sends = {e1} ]
Database == [ BothDoors EXCEPT !.faults = {"database"}, !.sends = {e2, e3} ]
DatabaseEntries == [ Database EXCEPT !.doors = {"events"}, !.sends = {e1} ]
Legacy == [ Agents EXCEPT !.doors = {"agents", "legacy"}, !.mesh = FALSE, !.spare = 1, !.sends = {e2} ]
MCConfigs == { Agents, AgentsTwice, Recurring, Events, BothDoors, EventsRestart, Database, DatabaseEntries, Legacy }
=============================================================================
