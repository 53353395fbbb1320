------------------------ MODULE MCDiagnosisServices ------------------------
EXTENDS DiagnosisServices, TLC, Sequences
CONSTANTS i1, i2, router, header, header2, xpath, adapter, newEvent, m1, m2, m3, m4
MCAnswers == { {}, {"exact"}, {"invented"}, {"invented", "blank"} }

Base == [ ok |-> TRUE, mapped |-> TRUE, prefixed |-> {xpath}, flaws |-> {header}, version |-> (adapter :> 2 @@ newEvent :> 0) ]
Clean == [ Base EXCEPT !.mapped = FALSE, !.prefixed = {}, !.flaws = {} ]
MCDrafts == { [ Base EXCEPT !.mapped = FALSE, !.flaws = {header, header2} ],  \* the mapping is gone; one more header in a step
              [ Base EXCEPT !.flaws = {router} ],                   \* a router lost its default route
              [ Base EXCEPT !.version = (adapter :> 3 @@ newEvent :> 3) ],
              [ Base EXCEPT !.ok = FALSE ] }
MCDocument == MCDrafts \union { Base, Clean }
MCOriginalOf == i1 :> Base @@ i2 :> Clean
MCDraftsOf == i1 :> MCDrafts @@ i2 :> {}
MCEditsOf == i1 :> { [ Base EXCEPT !.ok = FALSE ] } @@ i2 :> {}
MCFingerprint == router :> router @@ header :> header @@ header2 :> header @@ xpath :> xpath
File(name, xml) == [ name |-> name, xml |-> xml ]
MCPackage == { [ json |-> FALSE, files |-> << File("own", TRUE) >> ],
               [ json |-> FALSE, files |-> << File("other", FALSE), File("own", TRUE) >> ],
               [ json |-> TRUE, files |-> << File("longer", TRUE), File("own", TRUE) >> ],
               [ json |-> FALSE, files |-> << File("longer", TRUE), File("own", TRUE) >> ],
               [ json |-> FALSE, files |-> << File("own", FALSE) >> ] }
MCForeign == { [ Base EXCEPT !.flaws = {router} ] }
MCLoaded == << m3, m2, m1 >>
=============================================================================
