------------------------------ MODULE BulkLoad ------------------------------
(***************************************************************************)
(* scripts/initial_load.py: the failed messages of the tenant are read     *)
(* page by page, newest first, with $top and $skip, and then published one *)
(* by one.  The tenant goes on working between two pages: messages fail,   *)
(* and failed ones are retried or deleted.                                 *)
(***************************************************************************)
EXTENDS Integers, Sequences, FiniteSets, SequencesExt

CONSTANTS
    Message,        \* messages of the tenant
    Loaded,         \* those that have failed when the load starts, newest first
    LoadPage,       \* PAGE_SIZE
    Limits,         \* --limit, 0 for none
    MaxChanges      \* bound on what the tenant does meanwhile

ASSUME LoadConstants ==
    /\ Loaded \in Seq(Message) /\ IsInjective(Loaded)
    /\ LoadPage \in Nat \ {0} /\ Limits \subseteq Nat /\ MaxChanges \in Nat

VARIABLES
    failedLog,      \* the failed messages, newest first
    load,           \* [at, skip, list, limit, next, published, failed]
    sentBy,         \* sentBy[m]: times the script has published m
    changes,
    \* history
    entered,        \* messages that failed while the pages were read
    removed,        \* messages that stopped being failed meanwhile
    unsent          \* messages whose publication failed

loadVars == << failedLog, load, sentBy, changes, entered, removed, unsent >>

LoadTypeOK ==
    /\ failedLog \in Seq(Message) /\ IsInjective(failedLog)
    /\ load.at \in { "pages", "token", "publish", "done", "aborted" }
    /\ load.list \in Seq(Message)
    /\ load.limit \in Limits
    /\ load.skip \in Nat /\ load.next \in 1 .. Len(load.list) + 1
    /\ load.published \in Nat /\ load.failed \in Nat
    /\ sentBy \in [Message -> Nat]
    /\ changes \in 0 .. MaxChanges
    /\ entered \subseteq Message /\ removed \subseteq Message /\ unsent \subseteq Message

LoadInit ==
    /\ failedLog = Loaded
    /\ \E limit \in Limits :
          load = [ at |-> "pages", skip |-> 0, list |-> << >>, limit |-> limit, next |-> 1,
                   published |-> 0, failed |-> 0 ]
    /\ sentBy = [m \in Message |-> 0]
    /\ changes = 0
    /\ entered = {} /\ removed = {} /\ unsent = {}

Abort == load' = [ load EXCEPT !.at = "aborted" ]

PageAt(skip) == SubSeq(failedLog, skip + 1, IF skip + LoadPage < Len(failedLog) THEN skip + LoadPage ELSE Len(failedLog))

\* Mutated form: a page is skipped by what has been read so far, counted from one.
NextSkip_More(skip, page) == skip + LoadPage + 1

NextSkip(skip, page) == skip + LoadPage

Cut(list) == IF load.limit = 0 \/ Len(list) <= load.limit THEN list ELSE SubSeq(list, 1, load.limit)

\* _fetch_page: a short page is the last one.  Nothing found, or a dry run, ends the script.
ReadPage ==
    /\ load.at = "pages"
    /\ LET page == PageAt(load.skip)
           list == load.list \o page
       IN  IF Len(page) < LoadPage
           THEN \E at \in { "token", "done" } :
                   /\ Cut(list) = << >> => at = "done"
                   /\ load' = [ load EXCEPT !.at = at, !.list = Cut(list) ]
           ELSE load' = [ load EXCEPT !.skip = NextSkip(@, page), !.list = list ]
    /\ UNCHANGED << failedLog, sentBy, changes, entered, removed, unsent >>

\* A page that cannot be read ends the script, and so does a token that cannot be had.
LoadFails ==
    /\ load.at \in { "pages", "token" }
    /\ Abort
    /\ UNCHANGED << failedLog, sentBy, changes, entered, removed, unsent >>

\* The tokens are taken once, before the loop.
TakeTokens ==
    /\ load.at = "token"
    /\ load' = [ load EXCEPT !.at = "publish" ]
    /\ UNCHANGED << failedLog, sentBy, changes, entered, removed, unsent >>

\* One message: its error text, which may be missing, and the event; a failure is counted
\* and the loop goes on.  An answer that is lost is a failure of an event that was sent.
PublishOne ==
    /\ load.at = "publish" /\ load.next <= Len(load.list)
    /\ LET m == load.list[load.next]
       IN  \/ /\ sentBy' = [ sentBy EXCEPT ![m] = @ + 1 ]
              /\ load' = [ load EXCEPT !.next = @ + 1, !.published = @ + 1 ]
              /\ UNCHANGED unsent
           \/ /\ sentBy' \in { sentBy, [ sentBy EXCEPT ![m] = @ + 1 ] }
              /\ load' = [ load EXCEPT !.next = @ + 1, !.failed = @ + 1 ]
              /\ unsent' = unsent \union {m}
    /\ UNCHANGED << failedLog, changes, entered, removed >>

LoadDone ==
    /\ load.at = "publish" /\ load.next > Len(load.list)
    /\ load' = [ load EXCEPT !.at = "done" ]
    /\ UNCHANGED << failedLog, sentBy, changes, entered, removed, unsent >>

\* A message fails: it becomes the newest.
MessageFails(m) ==
    /\ changes < MaxChanges /\ load.at = "pages"
    /\ ~Contains(failedLog, m) /\ m \notin removed
    /\ failedLog' = << m >> \o failedLog
    /\ entered' = entered \union {m}
    /\ changes' = changes + 1
    /\ UNCHANGED << load, sentBy, removed, unsent >>

\* A failed message is retried or deleted.
MessageLeaves(m) ==
    /\ changes < MaxChanges /\ load.at = "pages"
    /\ \E n \in 1 .. Len(failedLog) : failedLog[n] = m /\ failedLog' = RemoveAt(failedLog, n)
    /\ removed' = removed \union {m}
    /\ changes' = changes + 1
    /\ UNCHANGED << load, sentBy, entered, unsent >>

LoadNext ==
    \/ ReadPage \/ LoadFails \/ TakeTokens \/ PublishOne \/ LoadDone
    \/ \E m \in Message : MessageFails(m) \/ MessageLeaves(m)

LoadSpec == LoadInit /\ [][LoadNext]_loadVars

-----------------------------------------------------------------------------
Listed == { load.list[n] : n \in 1 .. Len(load.list) }

\* The load misses a message, or publishes it twice, only for a reason it does not see:
\* as many messages as left the list moved the rest under the pages that were read, and
\* as many as entered it moved them onto the next page.
LoadIsComplete ==
    load.at \in { "publish", "done" } /\ load.limit = 0 =>
        /\ Cardinality((ToSet(Loaded) \ removed) \ Listed) <= Cardinality(removed)
        /\ Len(load.list) - Cardinality(Listed) <= Cardinality(entered)
        /\ load.at = "done" /\ load.next > 1 =>
              /\ load.published + load.failed = Len(load.list)
              /\ \A m \in Listed \ unsent : sentBy[m] >= 1
=============================================================================
