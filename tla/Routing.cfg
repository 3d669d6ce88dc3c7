SPECIFICATION RoutingSpec
CONSTANTS
  Attempts = 2
  Reqs = {getJobs, getServerTypes}
  NoReq = NoReq
  Notes = {}
  Prompts = {ask}
INVARIANTS
  RoutingTypeOK
  OwnAnswerUnlessOvertaken
  HandledOnceUnlessOvertaken
  PromptHonouredUnlessOvertaken
  StraysBesideOvertaken
CHECK_DEADLOCK FALSE
