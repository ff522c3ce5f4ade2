------------------------------- MODULE ToolBus --------------------------------
(***************************************************************************)
(* core/tools/bus.py over core/utils/rate_limiter.py: the registry of      *)
(* tools, and execute with the QuotaManager the bus may be given.          *)
(*                                                                         *)
(* The lock of the limiter is never contended, so execute does not suspend *)
(* before it calls the handler, and does nothing after it: look-up, quota, *)
(* argument check and the call are one step.  Other users of the same      *)
(* limiter, turns and clients inside "async with", run between the steps.  *)
(***************************************************************************)
EXTENDS RateLimiter

CONSTANTS MaxCalls    \* bound: calls of one tool when the bus has no quotas

ASSUME BusAssumption == MaxCalls \in Nat

VARIABLES signer,     \* the constructor's signer is given
          quotas,     \* the constructor's QuotaManager is given
          tools,      \* _tools: the signature of each registered tool, or "absent"
          ran,        \* history: handler calls of each tool
          misfit      \* history: calls refused by _validate_args, of each tool

bus     == <<signer, quotas, tools>>
history == <<ran, misfit>>
busVars == <<vars, bus, history>>

Signatures == {"unsigned", "valid", "forged"}

BusTypeOK ==
    /\ QuotaTypeOK
    /\ signer \in BOOLEAN
    /\ quotas \in BOOLEAN
    /\ tools \in [Tools -> Signatures \cup {"absent"}]
    /\ ran \in [Tools -> Nat]
    /\ misfit \in [Tools -> Nat]

\* The bus of create_toolbus, which the command line uses.
CreatedToolbus ==
    /\ signer = FALSE
    /\ quotas = FALSE
    /\ tools = [t \in Tools |-> "unsigned"]

EmptyBus ==
    /\ signer \in BOOLEAN
    /\ quotas \in BOOLEAN
    /\ tools = [t \in Tools |-> "absent"]

BusInit ==
    /\ Init
    /\ CreatedToolbus \/ EmptyBus
    /\ ran = [t \in Tools |-> 0]
    /\ misfit = [t \in Tools |-> 0]

-----------------------------------------------------------------------------

\* Only a signed tool on a bus with a signer is verified.
Accepted(sig) == signer /\ sig # "unsigned" => sig = "valid"

\* register: a tool of the same name is replaced, and keeps its name's count.
Register(t, sig) ==
    /\ Accepted(sig)
    /\ tools' = [tools EXCEPT ![t] = sig]
    /\ UNCHANGED <<vars, signer, quotas, history>>

\* ToolSignatureError.
RegisterRefused(t, sig) == ~Accepted(sig) /\ UNCHANGED busVars

\* ToolNotFoundError, before the quota is asked.
ExecuteUnknown(t) == tools[t] = "absent" /\ UNCHANGED busVars

\* _validate_args, then the handler; a handler that raises has run, too.
Dispatch(t, complete) ==
    IF complete THEN ran' = [ran EXCEPT ![t] = @ + 1] /\ UNCHANGED misfit
                ELSE misfit' = [misfit EXCEPT ![t] = @ + 1] /\ UNCHANGED ran

PassedAlways(t) == TRUE              \* variant: a refusal of the quota is ignored

\* check_tool_call returned: the limiter has granted the request.
Passed(t) == toolCalls'[t] # toolCalls[t]

\* The quota is asked first, so a call with missing arguments has paid for it.
ExecuteWithQuota(t, complete) ==
    /\ tools[t] # "absent"
    /\ quotas
    /\ CheckToolCall(t)
    /\ IF Passed(t) THEN Dispatch(t, complete) ELSE UNCHANGED history
    /\ UNCHANGED bus

ExecuteFreely(t, complete) ==
    /\ tools[t] # "absent"
    /\ ~quotas
    /\ ran[t] + misfit[t] < MaxCalls
    /\ Dispatch(t, complete)
    /\ UNCHANGED <<vars, bus>>

\* What runs beside the bus on the same limiter.
Beside ==
    /\ \/ \E c \in Clients : \/ \E tokens \in TokenCosts : Enter(c, tokens) \/ EnterDenied(c, tokens)
                             \/ Exit(c)
       \/ \E s \in Sessions : CheckTurn(s)
       \/ CheckRefused
       \/ Tick
       \/ NewDay
    /\ UNCHANGED <<bus, history>>

BusNext ==
    \/ \E t \in Tools, sig \in Signatures : Register(t, sig) \/ RegisterRefused(t, sig)
    \/ \E t \in Tools : ExecuteUnknown(t)
    \/ \E t \in Tools, complete \in BOOLEAN : ExecuteWithQuota(t, complete) \/ ExecuteFreely(t, complete)
    \/ Beside

BusSpec == BusInit /\ [][BusNext]_busVars

BusFairSpec ==
    /\ BusSpec
    /\ WF_busVars(Tick /\ Beside)
    /\ WF_busVars(NewDay /\ Beside)
    /\ \A c \in Clients : WF_busVars(Exit(c) /\ Beside)

-----------------------------------------------------------------------------

\* On a bus with quotas every call the QuotaManager let pass either ran or had
\* its arguments refused, and none ran unpaid, also when tools are replaced while
\* their names keep their counts.
CallsArePaid ==
    quotas => \A t \in Tools : toolCalls[t] = ran[t] + misfit[t]
=============================================================================
