----------------------------- MODULE BudgetGuard ------------------------------
(***************************************************************************)
(* core/utils/budget_guard.py: a token budget that is asked (check) and    *)
(* charged (consume).  Nothing ties the two together: either may come with *)
(* any count, in any order, from any number of users.                      *)
(***************************************************************************)
EXTENDS Integers

CONSTANTS Requests,      \* token counts that are asked for and charged
          MaxTokens, MaxTurns,   \* of BudgetConfig; the hard stop is at 90 %
          MaxUsed        \* bound: tokens charged

ASSUME BudgetAssumption ==
    /\ MaxTokens \in Nat \ {0}
    /\ MaxTurns \in Nat
    /\ Requests \subseteq Nat
    /\ MaxUsed \in Nat

VARIABLES used,          \* _used
          budgetTurns,   \* _turns; the model stops counting at MaxTurns + 1
          passed,        \* history: checks that did not raise
          refused        \* history: the counts some check has refused

budgetVars == <<used, budgetTurns, passed, refused>>

BudgetTypeOK ==
    /\ used \in 0 .. MaxUsed
    /\ budgetTurns \in 0 .. MaxTurns + 1
    /\ passed \in Nat
    /\ refused \subseteq Requests

BudgetInit ==
    /\ used = 0
    /\ budgetTurns = 0
    /\ passed = 0
    /\ refused = {}

CountedLate(turns) == turns <= MaxTurns     \* variant: compared before it is counted

\* A check counts its turn first, also when it then raises.
TurnLeft(turns) == turns + 1 <= MaxTurns

BelowHardStop(tokens) == 10 * (used + tokens) < 9 * MaxTokens

CountTurn == budgetTurns' = IF budgetTurns > MaxTurns THEN budgetTurns ELSE budgetTurns + 1

Passes(tokens) == TurnLeft(budgetTurns) /\ BelowHardStop(tokens)

Check(tokens) ==
    /\ CountTurn
    /\ \/ Passes(tokens)  /\ passed' = passed + 1 /\ UNCHANGED refused
       \/ ~Passes(tokens) /\ refused' = refused \cup {tokens} /\ UNCHANGED passed
    /\ UNCHANGED used

LastCharge(tokens) == tokens       \* variant: the budget of the last request only

Charged(tokens) == used + tokens

\* Any count is charged, also one that was refused or never checked.
Consume(tokens) ==
    /\ used + tokens <= MaxUsed
    /\ used' = Charged(tokens)
    /\ UNCHANGED <<budgetTurns, passed, refused>>

BudgetNext == \E tokens \in Requests : Check(tokens) \/ Consume(tokens)

BudgetSpec == BudgetInit /\ [][BudgetNext]_budgetVars

-----------------------------------------------------------------------------

\* Whatever is checked and charged in whichever order: a count that was refused
\* once, and every larger one, is refused from then on, and at most MaxTurns checks
\* pass, the refused ones being counted too.  The guard promises nothing of the
\* tokens charged: consume takes any count.
RefusalIsFinal ==
    /\ \A small \in refused, large \in Requests : large >= small => ~Passes(large)
    /\ passed <= MaxTurns
=============================================================================
