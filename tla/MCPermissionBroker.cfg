\* Two prompts and two requests, which may both answer the same prompt.
SPECIFICATION FairSpec
CONSTANTS
  Prompt = {p1, p2}
  Request = {r1, r2}
  Call = {write, nameless}
  Nameless = {nameless}
INVARIANTS TypeOK OneVerdictPerPrompt AgentHearsTheVerdict OneAnswerAccepted RuleBeforeRelease
PROPERTIES ContractKept EveryPromptReturns
CHECK_DEADLOCK FALSE
