---------------------------- MODULE TrainingStack ----------------------------
(***************************************************************************)
(* The parts of the training stack that run apart from each other, side by *)
(* side.  They share no state, so that one behaviour here is a behaviour   *)
(* of one part while the others rest where they began; which one is chosen *)
(* at the start.  Every step and every property is that of its part: the   *)
(* properties are defined in the modules of the parts.                     *)
(***************************************************************************)
EXTENDS PartialRollout, ServerChoice, RateLimit, NaiveRouter, ToolAgent,
        TrainingRecovery, StepDataflow, ModeReward

VARIABLE component    \* the part that runs

Parts == {"partial", "choice", "limit", "router", "agent", "recovery", "dataflow", "reward"}

\* A part that rests begins in one of the states it may begin in.
Resting ==
    /\ component # "partial" => prompt = CHOOSE length \in PromptLengths : TRUE
    /\ component # "agent" => setup = CHOOSE s \in Setups : TRUE
    /\ component # "recovery" => pipelined = FALSE /\ keep = CHOOSE k \in Keeps : TRUE
    /\ component # "dataflow" =>
          /\ setting = CHOOSE s \in Settings : TRUE
          /\ workload = [row \in Rows |-> calculate_workload(CHOOSE length \in SeqLens : TRUE)]
    /\ component # "reward" =>
          /\ extra_infos = TRUE /\ prompted = Items
          /\ items = [i \in Items |-> [source |-> "text", empty |-> FALSE]]

StackInit ==
    /\ component \in Parts
    /\ Resting
    /\ PartialInit /\ ChoiceInit /\ LimitInit /\ RouterInit
    /\ AgentInit /\ RecoveryInit /\ DataflowInit /\ RewardInit

StackNext ==
    /\ UNCHANGED component
    /\ IF component = "partial" THEN PartialNext ELSE UNCHANGED partialVars
    /\ IF component = "choice" THEN ChoiceNext ELSE UNCHANGED choiceVars
    /\ IF component = "limit" THEN LimitNext ELSE UNCHANGED limitVars
    /\ IF component = "router" THEN RouterNext ELSE UNCHANGED routerVars
    /\ IF component = "agent" THEN AgentNext ELSE UNCHANGED agentVars
    /\ IF component = "recovery" THEN RecoveryNext ELSE UNCHANGED recoveryVars
    /\ IF component = "dataflow" THEN DataflowNext ELSE UNCHANGED dataflowVars
    /\ IF component = "reward" THEN RewardNext ELSE UNCHANGED rewardVars

stackVars == <<component, partialVars, choiceVars, limitVars, routerVars,
               agentVars, recoveryVars, dataflowVars, rewardVars>>

StackSpec == StackInit /\ [][StackNext]_stackVars /\ PartialFairness /\ LimitFairness

\* The part that runs keeps its variables to their types.
TypeOK ==
    CASE component = "partial" -> PartialTypeOK
      [] component = "choice" -> ChoiceTypeOK
      [] component = "limit" -> LimitTypeOK
      [] component = "router" -> RouterTypeOK
      [] component = "agent" -> AgentTypeOK
      [] component = "recovery" -> RecoveryTypeOK
      [] component = "dataflow" -> DataflowTypeOK
      [] component = "reward" -> RewardTypeOK
=============================================================================
