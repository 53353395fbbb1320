----------------------------- MODULE TokenCache -----------------------------
(***************************************************************************)
(* The bearer token caches of the Event Mesh client, the CPI monitor and   *)
(* the ITSM client.  They share one shape: read the clock, return the      *)
(* cached token if it is good for another minute, otherwise await a new    *)
(* one and store it.  Coroutines refresh concurrently, and the clock moves *)
(* while they wait.  One cache is modelled; only the ITSM client drops its *)
(* token when a request is refused.                                        *)
(***************************************************************************)
EXTENDS Integers, Sequences

CONSTANTS
    User,           \* coroutines that need a token
    Lifetime,       \* expires_in of a new token
    Margin,         \* the 60 seconds
    TokenTime,      \* bound on time
    MaxTokens       \* bound on tokens

\* Times and bounds are natural numbers.
ASSUME TokenConstants == Lifetime \in Nat /\ Margin \in Nat /\ TokenTime \in Nat /\ MaxTokens \in Nat

VARIABLES
    tokenTime,
    issued,         \* tokens handed out by the service: when each one expires
    cache,          \* [token, expires], token 0 for none
    user            \* [at, now: the clock read first, token, ttl: expires_in, taken: from the cache]

tokenVars == << tokenTime, issued, cache, user >>

NoToken == [ token |-> 0, expires |-> 0 ]
IdleUser == [ at |-> "idle", now |-> 0, token |-> 0, ttl |-> 0, taken |-> FALSE ]

TokenTypeOK ==
    /\ tokenTime \in 0 .. TokenTime
    /\ issued \in Seq(0 .. TokenTime + Lifetime) /\ Len(issued) <= MaxTokens
    /\ cache \in [ token : 0 .. Len(issued), expires : 0 .. TokenTime + Lifetime ]
    /\ user \in [User -> [ at : { "idle", "fetch", "store", "use" }, now : 0 .. TokenTime,
                           token : 0 .. Len(issued), ttl : 0 .. Lifetime, taken : BOOLEAN ]]

TokenInit ==
    /\ tokenTime = 0
    /\ issued = << >>
    /\ cache = NoToken
    /\ user = [u \in User |-> IdleUser]

TokenTick ==
    /\ tokenTime < TokenTime
    /\ tokenTime' = tokenTime + 1
    /\ UNCHANGED << issued, cache, user >>

\* The cached token is returned, or a new one is asked for: `now` is read here.
Read(u) ==
    /\ user[u].at = "idle"
    /\ user' = [ user EXCEPT ![u] =
           IF cache.token # 0 /\ tokenTime < cache.expires - Margin
           THEN [ at |-> "use", now |-> tokenTime, token |-> cache.token, ttl |-> 0, taken |-> TRUE ]
           ELSE [ at |-> "fetch", now |-> tokenTime, token |-> 0, ttl |-> 0, taken |-> FALSE ] ]
    /\ UNCHANGED << tokenTime, issued, cache >>

\* What coroutine u comes back with.
Brings(u, token, ttl) ==
    [ at |-> "store", now |-> user[u].now, token |-> token, ttl |-> ttl, taken |-> FALSE ]

\* The service answers with a new token, or with the last one and what is left of it.
Issue(u) ==
    /\ user[u].at = "fetch"
    /\ \/ /\ Len(issued) < MaxTokens
          /\ issued' = Append(issued, tokenTime + Lifetime)
          /\ user' = [ user EXCEPT ![u] = Brings(u, Len(issued) + 1, Lifetime) ]
       \/ /\ issued # << >> /\ issued[Len(issued)] > tokenTime
          /\ user' = [ user EXCEPT ![u] = Brings(u, Len(issued), issued[Len(issued)] - tokenTime) ]
          /\ UNCHANGED issued
       \/ /\ user' = [ user EXCEPT ![u] = IdleUser ]
          /\ UNCHANGED issued
    /\ UNCHANGED << tokenTime, cache >>

\* Mutated form: the clock is read when the answer has arrived.
ExpiresAt_Late(u) == tokenTime + user[u].ttl

\* The clock was read before the awaits.
ExpiresAt(u) == user[u].now + user[u].ttl

\* Whoever answers last fills the cache.
Store(u) ==
    /\ user[u].at = "store"
    /\ cache' = [ token |-> user[u].token, expires |-> ExpiresAt(u) ]
    /\ user' = [ user EXCEPT ![u].at = "use" ]
    /\ UNCHANGED << tokenTime, issued >>

\* The request arrives.  When it is refused (401, 403), the ITSM client empties its cache,
\* whatever that holds by then; the other clients keep a refused token until it expires.
UseToken(u) ==
    /\ user[u].at = "use"
    /\ cache' \in { cache, NoToken }
    /\ user' = [ user EXCEPT ![u] = IdleUser ]
    /\ UNCHANGED << tokenTime, issued >>

UserStep(u) == Read(u) \/ Issue(u) \/ Store(u) \/ UseToken(u)

TokenNext == TokenTick \/ (\E u \in User : UserStep(u))

TokenSpec == TokenInit /\ [][TokenNext]_tokenVars

-----------------------------------------------------------------------------
\* However refreshes overlap and however long they take, the cache never gives a token a
\* longer life than the service did: a token taken from the cache was good for more than
\* the margin when it was taken.
CachedTokenIsFresh ==
    /\ cache.token # 0 => cache.expires <= issued[cache.token]
    /\ \A u \in User :
          user[u].at = "use" /\ user[u].taken => user[u].now + Margin < issued[user[u].token]
=============================================================================
