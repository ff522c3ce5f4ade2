---------------------------- MODULE MCOrchestrator ----------------------------
(***************************************************************************)
(* Instances of Orchestrator for TLC: two overlapping runs, the tool call  *)
(* shapes of the OpenAI and of the Anthropic adapter, and what a model may *)
(* embed in its JSON, forms without a meaning included.                    *)
(***************************************************************************)
EXTENDS Orchestrator

CONSTANTS r1, r2

TwoRuns == {r1, r2}

OpenAIBatches    == {{}, {"function"}, {"unreadable", "stranger", "broken"}}
AnthropicBatches == {{}, {"input"}}
PromptedBatches  == {{}, {"named"}}
EmbeddedForms    == {{}, {"shapeless"}, {"nested"}}
=============================================================================
