------------------------ MODULE TrainingStackProofs -------------------------
(***************************************************************************)
(* The parts side by side: TrainingStack implements the specification of   *)
(* each of its parts, whatever the others do, so that what is proved of a  *)
(* part holds of the specification its run checks.                         *)
(***************************************************************************)
EXTENDS TrainingStack, PartialRolloutProofs, AgentProofs,
        TrainingRecoveryProofs, BatchProofs

-----------------------------------------------------------------------------
(* A step of the stack is a step of one part, and a stutter of the others.  *)

LEMMA StepPartial == [StackNext]_stackVars => [PartialNext]_partialVars
BY DEF StackNext, stackVars

LEMMA StepChoice == [StackNext]_stackVars => [ChoiceNext]_choiceVars
BY DEF StackNext, stackVars

LEMMA StepLimit == [StackNext]_stackVars => [LimitNext]_limitVars
BY DEF StackNext, stackVars

LEMMA StepRouter == [StackNext]_stackVars => [RouterNext]_routerVars
BY DEF StackNext, stackVars

LEMMA StepAgent == [StackNext]_stackVars => [AgentNext]_agentVars
BY DEF StackNext, stackVars

LEMMA StepRecovery == [StackNext]_stackVars => [RecoveryNext]_recoveryVars
BY DEF StackNext, stackVars

LEMMA StepDataflow == [StackNext]_stackVars => [DataflowNext]_dataflowVars
BY DEF StackNext, stackVars

LEMMA StepReward == [StackNext]_stackVars => [RewardNext]_rewardVars
BY DEF StackNext, stackVars

\* The stack implements each of its parts, with the fairness that part has.
THEOREM StackImplementsParts ==
    StackSpec => /\ FairPartialSpec /\ ChoiceSpec /\ FairLimitSpec /\ RouterSpec
                 /\ AgentSpec /\ RecoverySpec /\ DataflowSpec /\ RewardSpec
<1>1. StackInit => /\ PartialInit /\ ChoiceInit /\ LimitInit /\ RouterInit
                   /\ AgentInit /\ RecoveryInit /\ DataflowInit /\ RewardInit
  BY DEF StackInit
<1> QED  BY <1>1, StepPartial, StepChoice, StepLimit, StepRouter, StepAgent, StepRecovery,
            StepDataflow, StepReward, PTL
         DEF StackSpec, FairPartialSpec, PartialSpec, ChoiceSpec, FairLimitSpec, LimitSpec, RouterSpec,
             AgentSpec, RecoverySpec, DataflowSpec, RewardSpec

-----------------------------------------------------------------------------

LEMMA ComponentKept == StackSpec => [](component \in Parts)
<1>1. StackInit => component \in Parts
  BY DEF StackInit
<1>2. component \in Parts /\ [StackNext]_stackVars => (component \in Parts)'
  BY DEF StackNext, stackVars
<1> QED  BY <1>1, <1>2, PTL DEF StackSpec

\* Every part keeps its variables to their types, the one that runs and those that rest.
THEOREM StackTypeCorrect == StackSpec => []TypeOK
<1>1. /\ component \in Parts
      /\ PartialTypeOK /\ ChoiceTypeOK /\ LimitTypeOK /\ RouterTypeOK
      /\ AgentTypeOK /\ RecoveryTypeOK /\ DataflowTypeOK /\ RewardTypeOK
      => TypeOK
  BY DEF TypeOK, Parts
<1> QED  BY <1>1, ComponentKept, StackImplementsParts, PartialTypeCorrect, ChoiceTypeCorrect,
            LimitTypeCorrect, RouterTypeCorrect, AgentTypeCorrect, RecoveryTypeCorrect,
            DataflowTypeCorrect, RewardTypeCorrect, PTL
         DEF FairPartialSpec, FairLimitSpec

\* What the run of the stack checks of its parts, for all values of the constants.
THEOREM StackCorrect ==
    StackSpec =>
        /\ [](PausedServerServesNobody /\ IdleDuringUpdate /\ ResponseIsContinuation)
        /\ [](LoadSpread /\ PermitsConserved /\ CountIsBurden)
        /\ [](MaskMarksGenerated /\ ToolsLeaveRoom /\ InstancesReleased)
        /\ [](TrackedIsComplete /\ EachBatchOnce /\ EndsOnLastStep)
        /\ [](RanksBalanced /\ AdvantagesKeptUnlessEarly /\ RewardIsOwn)
        /\ FinishedStays /\ StickySession
<1>1. StackSpec => [](PausedServerServesNobody /\ IdleDuringUpdate /\ ResponseIsContinuation)
  BY StackImplementsParts, PausedServerServesNobodyCorrect, IdleDuringUpdateCorrect,
     ResponseIsContinuationCorrect, PTL DEF FairPartialSpec
<1>2. StackSpec => [](LoadSpread /\ PermitsConserved /\ CountIsBurden)
  BY StackImplementsParts, LoadSpreadCorrect, PermitsConservedCorrect, CountIsBurdenCorrect, PTL
  DEF FairLimitSpec
<1>3. StackSpec => [](MaskMarksGenerated /\ ToolsLeaveRoom /\ InstancesReleased)
  BY StackImplementsParts, MaskMarksGeneratedCorrect, ToolsLeaveRoomCorrect,
     InstancesReleasedCorrect, PTL
<1>4. StackSpec => [](TrackedIsComplete /\ EachBatchOnce /\ EndsOnLastStep)
  BY StackImplementsParts, TrackedIsCompleteCorrect, EachBatchOnceCorrect, EndsOnLastStepCorrect, PTL
<1>5. StackSpec => [](RanksBalanced /\ AdvantagesKeptUnlessEarly /\ RewardIsOwn)
  BY StackImplementsParts, RanksBalancedCorrect, AdvantagesKeptUnlessEarlyCorrect,
     RewardIsOwnCorrect, PTL
<1>6. StackSpec => FinishedStays /\ StickySession
  BY StackImplementsParts, FinishedStaysCorrect, StickySessionCorrect DEF FairPartialSpec
<1> QED  BY <1>1, <1>2, <1>3, <1>4, <1>5, <1>6
=============================================================================
