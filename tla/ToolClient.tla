----------------------------- MODULE ToolClient -----------------------------
(***************************************************************************)
(* Calls of the tools of an MCP server: discovery, the checks before a     *)
(* call, the attempts of MultiMCP.execute with their timeout and pauses,   *)
(* and what execute_integration_tool makes of the outcome.  The tool of    *)
(* interest is update-iflow, which has an effect and is tried again when   *)
(* its answer does not come in time.                                       *)
(***************************************************************************)
EXTENDS Integers, FiniteSets

CONSTANTS
    Caller,         \* coroutines; each makes one call
    RetrySettings   \* values MAX_RETRIES may have

\* The setting is a number, which may be zero or negative.
ASSUME RetriesAreIntegers == RetrySettings \subseteq Int

VARIABLES
    discovered,     \* whether list_tools answered in time at startup: the tool is known
    maxRetries,     \* the setting MAX_RETRIES, read when a call starts
    call,           \* [at, attempts: left, result]
    late,           \* late[c]: requests c gave up and the server still has
    \* history
    applied,        \* applied[c]: how often the server did c's update
    sent,           \* sent[c]: how many requests c sent
    refused         \* callers whom the server answered that it does not do the update

toolVars == << discovered, maxRetries, call, late, applied, sent, refused >>

Failures == { "unavailable", "missing", "invalid", "error" }

ToolTypeOK ==
    /\ discovered \in BOOLEAN
    /\ maxRetries \in RetrySettings
    /\ call \in [Caller -> [ at : { "start", "attempt", "wait", "pause", "end" }, attempts : Int,
                             result : Failures \union { "none", "success" } ]]
    /\ late \in [Caller -> Nat] /\ applied \in [Caller -> Nat] /\ sent \in [Caller -> Nat]
    /\ refused \subseteq Caller

ToolInit ==
    /\ discovered \in BOOLEAN
    /\ maxRetries \in RetrySettings
    /\ call = [c \in Caller |-> [ at |-> "start", attempts |-> 0, result |-> "none" ]]
    /\ late = [c \in Caller |-> 0]
    /\ applied = [c \in Caller |-> 0] /\ sent = [c \in Caller |-> 0] /\ refused = {}

End(c, r) == call' = [ call EXCEPT ![c].at = "end", ![c].result = r ]

\* execute_integration_tool up to the loop: an unknown tool, required fields nobody gave,
\* and an update that validate_before_update_iflow refuses never reach the server.
Call(c) ==
    /\ call[c].at = "start"
    /\ IF ~ discovered THEN End(c, "unavailable")
       ELSE \/ End(c, "missing") \/ End(c, "invalid")
            \/ call' = [ call EXCEPT ![c].at = "attempt", ![c].attempts = maxRetries ]
    /\ UNCHANGED << discovered, maxRetries, late, applied, sent, refused >>

\* range(_max_retries): with no attempts at all the result is None, whose text does not
\* start with ERROR.
NoAttempts(c) ==
    /\ call[c].at = "attempt" /\ call[c].attempts <= 0
    /\ End(c, "success")
    /\ UNCHANGED << discovered, maxRetries, late, applied, sent, refused >>

Send(c) ==
    /\ call[c].at = "attempt" /\ call[c].attempts > 0
    /\ call' = [ call EXCEPT ![c].at = "wait", ![c].attempts = @ - 1 ]
    /\ sent' = [ sent EXCEPT ![c] = @ + 1 ]
    /\ UNCHANGED << discovered, maxRetries, late, applied, refused >>

\* The text of an answer is the result, whether the server did the update or says why not.
\* Only a text that begins with ERROR: or VALIDATION FAILED is not taken for success.
Answer(c) ==
    /\ call[c].at = "wait"
    /\ \/ applied' = [ applied EXCEPT ![c] = @ + 1 ] /\ End(c, "success") /\ UNCHANGED refused
       \/ /\ refused' = refused \union {c}
          /\ End(c, "success") \/ End(c, "error")
          /\ UNCHANGED applied
    /\ UNCHANGED << discovered, maxRetries, late, sent >>

\* Mutated form: only exceptions are final, a timeout ends the loop without a result.
GivenUp_Silent(c) == End(c, "success")

\* The last attempt returns an error text.
GivenUp(c) == End(c, "error")

\* No answer in time, or an exception: the request was done, is still being done, or was
\* not done.  The client pauses and tries again.
NoAnswer(c) ==
    /\ call[c].at = "wait"
    /\ \/ applied' = [ applied EXCEPT ![c] = @ + 1 ] /\ UNCHANGED late
       \/ late' = [ late EXCEPT ![c] = @ + 1 ] /\ UNCHANGED applied
       \/ UNCHANGED << applied, late >>
    /\ IF call[c].attempts = 0 THEN GivenUp(c)
       ELSE call' = [ call EXCEPT ![c].at = "pause" ]
    /\ UNCHANGED << discovered, maxRetries, sent, refused >>

Resume(c) ==
    /\ call[c].at = "pause"
    /\ call' = [ call EXCEPT ![c].at = "attempt" ]
    /\ UNCHANGED << discovered, maxRetries, late, applied, sent, refused >>

\* The server finishes a request nobody waits for.
Late(c) ==
    /\ late[c] > 0
    /\ late' = [ late EXCEPT ![c] = @ - 1 ]
    /\ applied' = [ applied EXCEPT ![c] = @ + 1 ]
    /\ UNCHANGED << discovered, maxRetries, call, sent, refused >>

\* The setting changes; calls under way keep the number they read.
ChangeRetries(n) ==
    /\ n # maxRetries /\ maxRetries' = n
    /\ UNCHANGED << discovered, call, late, applied, sent, refused >>

CallStep(c) == Call(c) \/ NoAttempts(c) \/ Send(c) \/ Answer(c) \/ NoAnswer(c) \/ Resume(c)

ToolNext ==
    \/ \E c \in Caller : CallStep(c) \/ Late(c)
    \/ \E n \in RetrySettings : ChangeRetries(n)

ToolSpec == ToolInit /\ [][ToolNext]_toolVars

-----------------------------------------------------------------------------
\* What the caller of execute_integration_tool may conclude from a result.  Success is an
\* answer of the server to one of the requests, never silence: the update was done or
\* refused in words, unless nothing was sent at all (MAX_RETRIES 0).  An error means that
\* every attempt was used up, or that the server said so.  A call refused before the loop
\* left no request behind.  And late answers or not, an update is done at most once for
\* each request, and no more requests are sent than a value of MAX_RETRIES allows.
ReportedAsAnswered ==
    \A c \in Caller :
        /\ call[c].result = "success" /\ sent[c] > 0 => applied[c] > 0 \/ c \in refused
        /\ call[c].result = "error" => sent[c] > 0 /\ (call[c].attempts = 0 \/ c \in refused)
        /\ call[c].result \in { "unavailable", "missing", "invalid" } => sent[c] = 0
        /\ applied[c] + late[c] + (IF c \in refused THEN 1 ELSE 0) <= sent[c]
        /\ sent[c] > 0 => \E n \in RetrySettings : sent[c] <= n
=============================================================================
