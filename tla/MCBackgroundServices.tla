------------------------ MODULE MCBackgroundServices ------------------------
EXTENDS BackgroundServices, TLC
CONSTANTS policies, whole, part
MCItsm == { [ faults |-> 1, restarts |-> 0, pushes |-> 2, pollers |-> {"loop"}, once |-> TRUE ],
            [ faults |-> 0, restarts |-> 1, pushes |-> 2, pollers |-> {"loop"}, once |-> TRUE ],
            [ faults |-> 1, restarts |-> 0, pushes |-> 1, pollers |-> {"loop", "request"}, once |-> FALSE ] }
MCCpi == { [ faults |-> 0, restarts |-> 0, cycles |-> {"loop", "request"} ],
           [ faults |-> 1, restarts |-> 0, cycles |-> {"loop"} ],
           [ faults |-> 0, restarts |-> 1, cycles |-> {"loop"} ] }
MCDefault == MasterSwitch :> On @@ policies :> whole
MCMerged == On :> On @@ Off :> Off @@ whole :> whole @@ part :> whole
MCSettings == { [ faults |-> 1, restarts |-> 2, toggles |-> 1 ] }
MCNoFault == { [ faults |-> 0, restarts |-> 1, toggles |-> 0 ] }
=============================================================================
