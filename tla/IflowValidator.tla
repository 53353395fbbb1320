--------------------------- MODULE IflowValidator ---------------------------
(***************************************************************************)
(* The XML validator (core/validators.py) and the process-wide store of    *)
(* the iFlows being fixed that it compares with: filled when a fix reads   *)
(* its iFlow, emptied at one of the ends of ask_fix_and_deploy, read by    *)
(* the door in front of update-iflow (the first entry with the submitted   *)
(* file path) and by the agent's validate_iflow_xml tool (the first one).  *)
(* A document is what the seven checks can tell apart.                     *)
(***************************************************************************)
EXTENDS Integers, Sequences, SequencesExt, FiniteSets, FiniteSetsExt

CONSTANTS
    Fixer,          \* coroutines that run ask_fix_and_deploy
    Iflow,
    Document,       \* [ok, mapped, prefixed, flaws, version]: see below
    OriginalOf,     \* OriginalOf[i]: the iFlow as it was first designed
    DraftsOf,       \* DraftsOf[i]: what an agent may make of it
    EditsOf,        \* EditsOf[i]: what the chat or the designer may make of it
    Fingerprint,    \* Fingerprint[f]: what the validator remembers a flaw by
    Package,        \* answers of get-iflow: [json, files], a file [name, xml]
    Foreign,        \* what the files of other iFlows in such an answer hold
    MaxEdits        \* bound on uploads from the chat or the designer

(***************************************************************************)
(* File paths.  The path of an iFlow's file is src/.../<id>.iflw and       *)
(* stands as the iFlow.  An agent may submit others: one that no file has, *)
(* such as an absolute path, or one with the iFlow's id in front.          *)
(***************************************************************************)
Unknown == "unknown"
Named == "named"
Submitted == Iflow \union {Unknown, Named}

\* Each check compares with what the same check found in the original.
ASSUME ValidatorConstants ==
    /\ Iflow # {} /\ OriginalOf \in [Iflow -> Document] /\ MaxEdits \in Nat
    /\ \A i \in Iflow : DraftsOf[i] \subseteq Document /\ EditsOf[i] \subseteq Document
    /\ {Unknown, Named} \intersect Iflow = {} /\ Foreign \subseteq Document
    /\ \A d, e \in Document : \A x \in d.flaws, y \in e.prefixed : Fingerprint[x] # Fingerprint[y]

VARIABLES
    artifact,       \* the iFlows in SAP CPI
    store,          \* _fix_ctx_store, in the order of insertion: [iflow, path, doc]
    fixer,          \* [at, iflow; path and orig: what ask_fix_and_deploy read; to, draft: submitted]
    edits,
    \* history
    left,           \* iFlows whose entry a fix has left behind
    loose,          \* fixers whose entry is not, or no longer, in the store as they read it
    unchecked       \* fixers whose upload was compared with nothing

validatorVars == << artifact, store, fixer, edits, left, loose, unchecked >>

(***************************************************************************)
(* A document: ok, it parses; mapped, the collaboration has a              *)
(* namespaceMapping; prefixed, its XPath values with undeclared prefixes;  *)
(* flaws, everything else the checks find (stray collaboration properties, *)
(* constant headers with expressions, routers without default, archive     *)
(* paths of scripts); version[e], the version of an element.               *)
(***************************************************************************)
Absent == 0
Unversioned == 1
Low == 2
OverCap == 3

\* What stands for an original that could not be read.
NoOriginal == [ ok |-> FALSE, mapped |-> FALSE, prefixed |-> {}, flaws |-> {}, version |-> << >> ]

IdleFixer == [ at |-> "idle", iflow |-> CHOOSE i \in Iflow : TRUE, path |-> Unknown,
               orig |-> NoOriginal, to |-> Unknown, draft |-> CHOOSE d \in Document : TRUE ]

Entries == [ iflow : Iflow, path : Iflow, doc : Document ]

ValidatorTypeOK ==
    /\ artifact \in [Iflow -> Document]
    /\ store \in Seq(Entries) /\ \A m, n \in 1 .. Len(store) : store[m].iflow = store[n].iflow => m = n
    /\ fixer \in [Fixer -> [ at : { "idle", "open", "drafted", "uploaded" }, iflow : Iflow,
                             path : Iflow \union {Unknown}, orig : Document \union {NoOriginal},
                             to : Submitted, draft : Document ]]
    /\ edits \in 0 .. MaxEdits
    /\ left \subseteq Iflow
    /\ loose \subseteq Fixer
    /\ unchecked \subseteq Fixer

ValidatorInit ==
    /\ artifact = OriginalOf
    /\ store = << >>
    /\ fixer = [f \in Fixer |-> IdleFixer]
    /\ edits = 0
    /\ left = {} /\ loose = {} /\ unchecked = {}

-----------------------------------------------------------------------------
(* The checks *)

Prints(flaws) == { Fingerprint[x] : x \in flaws }

\* What is wrong with a document by itself.
Flaws(doc) == doc.flaws \union (IF doc.mapped THEN {} ELSE doc.prefixed)

\* Mutated form: an issue is known when the original has one at all.
Known_Any(orig) == IF orig.ok /\ Flaws(orig) # {} THEN Prints(DOMAIN Fingerprint) ELSE {}

\* What the original is known to have had; a prefixed XPath counts whether or not the
\* mapping covered it there.
Known(orig) == IF orig.ok THEN Prints(orig.flaws \union orig.prefixed) ELSE {}

VersionOf(doc, e) == IF doc.ok THEN doc.version[e] ELSE Absent

\* Versions are compared where both documents have one, and capped on new elements.
VersionErrors(orig, doc) ==
    { e \in DOMAIN doc.version :
        LET was == VersionOf(orig, e)
            is  == doc.version[e]
        IN  \/ was >= Low /\ is >= Low /\ was # is
            \/ was = Absent /\ is = OverCap }

\* _check_iflow_xml finds nothing.
Passes(orig, doc) ==
    /\ doc.ok
    /\ \A x \in Flaws(doc) : Fingerprint[x] \in Known(orig)
    /\ VersionErrors(orig, doc) = {}

-----------------------------------------------------------------------------
(* The store *)

Held == { store[n].iflow : n \in 1 .. Len(store) }

EntryOf(i) == CHOOSE n \in 1 .. Len(store) : store[n].iflow = i

\* Mutated form: the entry is added, whatever is there.
StoreWith_Append(i, p, doc) == Append(store, [ iflow |-> i, path |-> p, doc |-> doc ])

\* _fix_ctx_set: a key keeps its place.
StoreWith(i, p, doc) ==
    IF i \in Held THEN [ store EXCEPT ![EntryOf(i)] = [ iflow |-> i, path |-> p, doc |-> doc ] ]
    ELSE Append(store, [ iflow |-> i, path |-> p, doc |-> doc ])

\* Mutated form: the end of a fix empties the store.
StoreWithout_All(i) == << >>

\* _fix_ctx_clear
StoreWithout(i) == IF i \in Held THEN RemoveAt(store, EntryOf(i)) ELSE store

\* The entries the door may take for an upload of i under path p: by the id in front of the
\* path, of which a path below src/ has none, or else with that very path.
Matching(i, p) ==
    { n \in 1 .. Len(store) : IF p = Named THEN store[n].iflow = i ELSE store[n].path = p }

\* validate_before_update_iflow: without an entry the upload goes unseen; an entry found by
\* the id has another path than the submitted one.
Admits(i, p, doc) ==
    Matching(i, p) # {} => p # Named /\ Passes(store[Min(Matching(i, p))].doc, doc)

-----------------------------------------------------------------------------
(* _extract_iflow_file: which file of the answer is taken for the iFlow.  The concatenated
   form takes the first whose name ends with the id, or the only one, or the first that is
   not empty; the JSON form prefers the exact name. *)

IndexesOf(pkg, names) == { n \in 1 .. Len(pkg.files) : pkg.files[n].name \in names }

Chosen(pkg) ==
    LET exact == IndexesOf(pkg, {"own"})
        tail  == IndexesOf(pkg, {"own", "longer"})
        full  == { n \in 1 .. Len(pkg.files) : pkg.files[n].xml }
    IN  IF pkg.json /\ exact # {} THEN Min(exact)
        ELSE IF tail # {} THEN Min(tail)
        ELSE IF pkg.json \/ Len(pkg.files) = 1 THEN Min(1 .. Len(pkg.files))
        ELSE IF full # {} THEN Min(full)
        ELSE 0

\* A file without XML is no file: the fix ends before it began.
Extracts(pkg) == pkg.files # << >> /\ Chosen(pkg) # 0 /\ pkg.files[Chosen(pkg)].xml

\* The files of other iFlows stand for a document of theirs, under its path.
Extracted(i, pkg, p, doc) ==
    IF pkg.files[Chosen(pkg)].name = "own" THEN p = i /\ doc = artifact[i]
    ELSE p # i /\ doc \in Foreign

-----------------------------------------------------------------------------
(* Steps *)

OthersOn(f, i) == { g \in Fixer \ {f} : fixer[g].at # "idle" /\ fixer[g].iflow = i }

\* capture_snapshot, and the pre-fetch of ask_fix_and_deploy: the iFlow is read and stored.
OpenFix(f, i) ==
    /\ fixer[f].at = "idle"
    /\ \E pkg \in Package, p \in Iflow, doc \in Document :
          /\ Extracts(pkg) /\ Extracted(i, pkg, p, doc)
          /\ store' = StoreWith(i, p, doc)
          /\ fixer' = [ fixer EXCEPT ![f] =
                 [ IdleFixer EXCEPT !.at = "open", !.iflow = i, !.path = p, !.orig = doc ] ]
          /\ loose' = (loose \ {f}) \union { g \in OthersOn(f, i) : fixer[g].path # p }
    /\ left' = left \ {i}
    /\ UNCHANGED << artifact, edits, unchecked >>

\* get-iflow fails: the fix goes on with whatever the store holds.
OpenBlind(f, i) ==
    /\ fixer[f].at = "idle"
    /\ fixer' = [ fixer EXCEPT ![f] = [ IdleFixer EXCEPT !.at = "open", !.iflow = i ] ]
    /\ loose' = loose \union {f}
    /\ UNCHANGED << artifact, store, edits, left, unchecked >>

\* validate_iflow_xml on a draft: VALID, or errors after which the agent drafts again or
\* gives up.  Which path it submits the draft under is up to the agent.
Draft(f, p, d) ==
    /\ fixer[f].at = "open"
    /\ d \in DraftsOf[fixer[f].iflow]
    /\ Passes(IF store = << >> THEN NoOriginal ELSE store[1].doc, d)
    /\ fixer' = [ fixer EXCEPT ![f].at = "drafted", ![f].to = p, ![f].draft = d ]
    /\ UNCHANGED << artifact, store, edits, left, loose, unchecked >>

\* A structured patch: pre_validate compares it with what this fix has read, whose path it
\* goes to, and there is nothing to patch when that failed.
Patch(f, d) ==
    /\ fixer[f].at = "open" /\ fixer[f].orig # NoOriginal
    /\ d \in DraftsOf[fixer[f].iflow]
    /\ Passes(fixer[f].orig, d)
    /\ fixer' = [ fixer EXCEPT ![f].at = "drafted", ![f].to = fixer[f].path, ![f].draft = d ]
    /\ UNCHANGED << artifact, store, edits, left, loose, unchecked >>

\* validate_before_update_iflow lets the upload through.  Under any other path than its own
\* the draft does not reach the iFlow's file.
Upload(f) ==
    LET i == fixer[f].iflow
        p == fixer[f].to
    IN  /\ fixer[f].at = "drafted"
        /\ Admits(i, p, fixer[f].draft)
        /\ artifact' = IF p = i THEN [ artifact EXCEPT ![i] = fixer[f].draft ] ELSE artifact
        /\ fixer' = [ fixer EXCEPT ![f].at = "uploaded", ![f].orig = NoOriginal, ![f].draft = IdleFixer.draft ]
        /\ unchecked' = IF Matching(i, p) = {} THEN unchecked \union {f} ELSE unchecked
        /\ UNCHANGED << store, edits, left, loose >>

\* The door says no: back to drafting.
Refused(f) ==
    /\ fixer[f].at = "drafted"
    /\ ~Admits(fixer[f].iflow, fixer[f].to, fixer[f].draft)
    /\ fixer' = [ fixer EXCEPT ![f].at = "open", ![f].to = IdleFixer.to, ![f].draft = IdleFixer.draft ]
    /\ UNCHANGED << artifact, store, edits, left, loose, unchecked >>

\* The last lines of ask_fix_and_deploy: the entry goes, whoever else counts on it.
EndFix(f) ==
    /\ fixer[f].at # "idle"
    /\ store' = StoreWithout(fixer[f].iflow)
    /\ left' = left \ {fixer[f].iflow}
    /\ loose' = (loose \union OthersOn(f, fixer[f].iflow)) \ {f}
    /\ unchecked' = unchecked \ {f}
    /\ fixer' = [ fixer EXCEPT ![f] = IdleFixer ]
    /\ UNCHANGED << artifact, edits >>

\* The other returns: the entry stays.
EndFixEarly(f) ==
    /\ fixer[f].at # "idle"
    /\ left' = left \union {fixer[f].iflow}
    /\ loose' = loose \ {f}
    /\ unchecked' = unchecked \ {f}
    /\ fixer' = [ fixer EXCEPT ![f] = IdleFixer ]
    /\ UNCHANGED << artifact, store, edits >>

\* An upload that is no fix: from the designer, or through the chat, where the door
\* compares it with what a fix has left.
EditIflow(i, d) ==
    /\ edits < MaxEdits
    /\ edits' = edits + 1
    /\ artifact' = [ artifact EXCEPT ![i] = d ]
    /\ UNCHANGED << store, fixer, left, loose, unchecked >>

FixerStep(f) ==
    \/ \E i \in Iflow : OpenFix(f, i) \/ OpenBlind(f, i)
    \/ \E d \in Document : Patch(f, d) \/ \E p \in Submitted : Draft(f, p, d)
    \/ Upload(f) \/ Refused(f) \/ EndFix(f) \/ EndFixEarly(f)

ValidatorNext ==
    \/ \E f \in Fixer : FixerStep(f)
    \/ \E i \in Iflow : \E d \in EditsOf[i] : EditIflow(i, d)

ValidatorSpec == ValidatorInit /\ [][ValidatorNext]_validatorVars

-----------------------------------------------------------------------------
(* Properties *)

Fixing == { fixer[f].iflow : f \in { g \in Fixer : fixer[g].at # "idle" } }

\* An upload of a fix goes unseen by the door only when the agent submits another path than
\* the one the fix has read, when its iFlow could not be read, or when another fix of the
\* same iFlow has meanwhile ended or read another file; and the store holds an iFlow only
\* while it is being fixed or after a fix of it has ended early.  What validate_iflow_xml
\* compares a draft with, the oldest entry whosever it is, is another matter.
ComparedWithOwn ==
    /\ \A f \in unchecked : f \in loose \/ fixer[f].to # fixer[f].path
    /\ Held \subseteq Fixing \union left

\* What the door lets through when it finds an entry has nothing wrong that the entry's
\* document did not have, versions included, except that the mapping that covered its
\* prefixes may be gone; and it is not meant for another file.
AcceptedIsNoWorse ==
    [][ \A f \in Fixer :
          LET doc   == fixer[f].draft
              found == Matching(fixer[f].iflow, fixer[f].to)
              was   == store[Min(found)].doc
          IN  fixer[f].at = "drafted" /\ fixer'[f].at = "uploaded" /\ found # {} =>
                /\ store[Min(found)].path = fixer[f].to
                /\ was.ok =>
                     /\ doc.ok
                     /\ Prints(Flaws(doc)) \subseteq Prints(Flaws(was) \union (IF doc.mapped THEN {} ELSE was.prefixed))
                     /\ \A e \in DOMAIN doc.version :
                           /\ was.version[e] = Low => doc.version[e] # OverCap
                           /\ was.version[e] = Absent => doc.version[e] # OverCap ]_validatorVars
=============================================================================
