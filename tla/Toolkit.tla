------------------------------- MODULE Toolkit --------------------------------
(***************************************************************************)
(* Four components around the tools: the file tools, the budget guard, the *)
(* step pruner and the memory file.  They share no state, so a behaviour   *)
(* of this module is one of any of them, chosen in its first state:        *)
(* interleaving them would multiply the states and add no behaviour of a   *)
(* component.                                                              *)
(***************************************************************************)
EXTENDS Files, BudgetGuard, StepPruner, Memory

VARIABLE part    \* the component whose behaviour this is

ToolkitInit ==
    /\ FilesInit /\ BudgetInit /\ PrunerInit /\ MemoryInit
    /\ part \in {"files", "budget", "pruner", "memory"}
    /\ part # "files"  => \A p \in Paths : files[p] = Absent
    /\ part # "memory" => \A m \in Memories : rows[m] = NoRow

ToolkitNext ==
    /\ \/ part = "files"  /\ FilesNext  /\ UNCHANGED <<budgetVars, prunerVars, memoryVars>>
       \/ part = "budget" /\ BudgetNext /\ UNCHANGED <<filesVars, prunerVars, memoryVars>>
       \/ part = "pruner" /\ PrunerNext /\ UNCHANGED <<filesVars, budgetVars, memoryVars>>
       \/ part = "memory" /\ MemoryNext /\ UNCHANGED <<filesVars, budgetVars, prunerVars>>
    /\ UNCHANGED part

ToolkitSpec ==
    ToolkitInit /\ [][ToolkitNext]_<<part, filesVars, budgetVars, prunerVars, memoryVars>>

\* The types of the four components, none of whose states is another's.
ToolkitTypeOK == FilesTypeOK /\ BudgetTypeOK /\ PrunerTypeOK /\ MemoryTypeOK
=============================================================================
