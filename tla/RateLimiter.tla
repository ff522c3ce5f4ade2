----------------------------- MODULE RateLimiter ------------------------------
(***************************************************************************)
(* core/utils/rate_limiter.py: the sliding-window RateLimiter and the      *)
(* QuotaManager on top of it, which core/tools/bus.py asks before every    *)
(* tool call when it is given one.                                         *)
(*                                                                         *)
(* No acquire suspends while it holds the lock, so each is one step.  A    *)
(* timestamp is kept as its age in ticks; a minute and an hour are Minute  *)
(* and Hour ticks.  The wall clock is assumed not to step back.            *)
(***************************************************************************)
EXTENDS Integers, Sequences, FiniteSets

CONSTANTS Clients,         \* users of "async with limiter"
          Tools, Sessions, \* arguments of check_tool_call and check_turn
          Minute, Hour,    \* window lengths in ticks
          MaxPerMinute, MaxPerHour, MaxTokensPerDay, MaxConcurrent,
          MaxToolCalls, MaxTurns,
          TokenCosts       \* arguments of acquire(tokens)

ASSUME QuotaAssumption ==
    /\ {Minute, Hour, MaxPerMinute, MaxPerHour, MaxTokensPerDay, MaxConcurrent,
        MaxToolCalls, MaxTurns} \subseteq Nat
    /\ 0 < Minute /\ Minute <= Hour
    /\ TokenCosts \subseteq Nat
    /\ IsFiniteSet(Clients)

VARIABLES ages,        \* ages of _request_timestamps, oldest first, saturated at Hour
          tokensToday, \* _token_counts[today]
          concurrent,  \* _concurrent
          toolCalls,   \* _tool_calls
          turnCounts,  \* _turn_counts
          holders,     \* clients inside "async with", or between acquire and release
          recent,      \* history: the ages below Hour of all granted requests
          checked      \* history: check_tool_call and check_turn that did not raise

limiter == <<ages, tokensToday, concurrent>>
counts  == <<toolCalls, turnCounts>>
vars    == <<limiter, counts, holders, recent, checked>>

QuotaTypeOK ==
    /\ ages \in Seq(0 .. Hour)
    /\ tokensToday \in 0 .. MaxTokensPerDay
    /\ concurrent \in 0 .. MaxConcurrent
    /\ toolCalls \in [Tools -> 0 .. MaxToolCalls]
    /\ turnCounts \in [Sessions -> 0 .. MaxTurns]
    /\ holders \subseteq Clients
    /\ recent \in Seq(0 .. Hour)
    /\ checked \in Nat

Init ==
    /\ ages = << >>
    /\ tokensToday = 0
    /\ concurrent = 0
    /\ toolCalls = [t \in Tools |-> 0]
    /\ turnCounts = [s \in Sessions |-> 0]
    /\ holders = {}
    /\ recent = << >>
    /\ checked = 0

-----------------------------------------------------------------------------
(* RateLimiter. *)

Younger(seq, limit) ==
    LET kept[n \in 0 .. Len(seq)] ==
            IF n = 0 THEN << >>
            ELSE IF seq[n] < limit THEN Append(kept[n - 1], seq[n]) ELSE kept[n - 1]
    IN  kept[Len(seq)]

PrunedToMinute == Younger(ages, Minute)    \* variant: the wrong window

\* acquire forgets what is an hour old, also when it then refuses.
Pruned == Younger(ages, Hour)

SlotFreeLate == concurrent <= MaxConcurrent    \* variant: off by one

SlotFree == concurrent < MaxConcurrent

MinuteFree == Len(Younger(Pruned, Minute)) < MaxPerMinute

HourFree == Len(Pruned) < MaxPerHour

TokensFree(tokens) == tokensToday + tokens <= MaxTokensPerDay

CanAcquire(tokens) == MinuteFree /\ HourFree /\ SlotFree /\ TokensFree(tokens)

Grant(tokens) ==
    /\ CanAcquire(tokens)
    /\ ages' = Append(Pruned, 0)
    /\ recent' = Append(recent, 0)
    /\ tokensToday' = tokensToday + tokens
    /\ concurrent' = concurrent + 1

Deny(tokens) ==
    /\ ~CanAcquire(tokens)
    /\ ages' = Pruned
    /\ UNCHANGED <<tokensToday, concurrent, recent>>

ReleaseForgotten == concurrent           \* variant: the slot is not given back

Released == IF concurrent > 0 THEN concurrent - 1 ELSE 0

\* acquire by a client that releases, as __aenter__ (tokens = 0) and __aexit__ do.
Enter(c, tokens) ==
    /\ c \notin holders
    /\ Grant(tokens)
    /\ holders' = holders \cup {c}
    /\ UNCHANGED <<counts, checked>>

EnterDenied(c, tokens) ==
    /\ c \notin holders
    /\ Deny(tokens)
    /\ UNCHANGED <<counts, holders, checked>>

Exit(c) ==
    /\ c \in holders
    /\ concurrent' = Released
    /\ holders' = holders \ {c}
    /\ UNCHANGED <<ages, tokensToday, counts, recent, checked>>

-----------------------------------------------------------------------------
(* QuotaManager: its acquires have no release. *)

CheckToolCall(t) ==
    /\ toolCalls[t] < MaxToolCalls
    /\ \/ /\ Grant(0)
          /\ toolCalls' = [toolCalls EXCEPT ![t] = @ + 1]
          /\ checked' = checked + 1
       \/ /\ Deny(0)
          /\ UNCHANGED <<toolCalls, checked>>
    /\ UNCHANGED <<turnCounts, holders>>

CheckTurn(s) ==
    /\ turnCounts[s] < MaxTurns
    /\ \/ /\ Grant(0)
          /\ turnCounts' = [turnCounts EXCEPT ![s] = @ + 1]
          /\ checked' = checked + 1
       \/ /\ Deny(0)
          /\ UNCHANGED <<turnCounts, checked>>
    /\ UNCHANGED <<toolCalls, holders>>

\* A tool or a session at its own limit: RateLimitError before any acquire.
CheckRefused ==
    /\ \/ \E t \in Tools : toolCalls[t] >= MaxToolCalls
       \/ \E s \in Sessions : turnCounts[s] >= MaxTurns
    /\ UNCHANGED vars

-----------------------------------------------------------------------------
(* Time. *)

Older(seq) == [i \in DOMAIN seq |-> IF seq[i] < Hour THEN seq[i] + 1 ELSE Hour]

Tick ==
    /\ ages' = Older(ages)
    /\ recent' = Younger(Older(recent), Hour)
    /\ UNCHANGED <<tokensToday, concurrent, counts, holders, checked>>

\* Midnight: _token_counts has no entry for the new date.
NewDay ==
    /\ tokensToday' = 0
    /\ UNCHANGED <<ages, concurrent, counts, holders, recent, checked>>

Next ==
    \/ \E c \in Clients : \/ \E tokens \in TokenCosts : Enter(c, tokens) \/ EnterDenied(c, tokens)
                          \/ Exit(c)
    \/ \E t \in Tools : CheckToolCall(t)
    \/ \E s \in Sessions : CheckTurn(s)
    \/ CheckRefused
    \/ Tick
    \/ NewDay

Spec == Init /\ [][Next]_vars

\* Time passes, and the body of every "async with" ends.
FairSpec ==
    /\ Spec
    /\ WF_vars(Tick)
    /\ WF_vars(NewDay)
    /\ \A c \in Clients : WF_vars(Exit(c))

-----------------------------------------------------------------------------

\* Of all requests ever granted, at most MaxPerMinute are younger than a minute
\* and at most MaxPerHour younger than an hour: pruning forgets nothing that
\* still counts.
WindowsRespected ==
    /\ Len(Younger(recent, Minute)) <= MaxPerMinute
    /\ Len(recent) <= MaxPerHour

\* Where the slots are: one for every client inside, and one for every check of
\* the QuotaManager that ever passed, for the rest of the process.
SlotConservation == concurrent = Cardinality(holders) + checked

\* Whatever max_tool_calls_per_session and max_turns_per_session are, only
\* MaxConcurrent checks ever pass.
ChecksBounded == checked <= MaxConcurrent

\* The limiter is never stuck by itself: again and again it can grant a free
\* request, unless checks have used up the slots.
KeepsGranting == []<>(CanAcquire(0) \/ checked = MaxConcurrent)

\* What check_tool_call says it does, raise if the call would exceed limits: with
\* no request inside, none granted in the last hour and no token limit reached,
\* a tool below its session limit gets its call.
IdleGrants ==
    holders = {} /\ recent = << >> /\ tokensToday = 0
    /\ (\E t \in Tools : toolCalls[t] < MaxToolCalls) => CanAcquire(0)
=============================================================================
