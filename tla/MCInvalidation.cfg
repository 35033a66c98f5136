SPECIFICATION PipelineSpec
CONSTANTS
  Locations = {l1, l2}
  Writers = {w1}
  Targets = {{"path"}, {"path", "tag"}}
  NoPage = NoPage
  NoOne = NoOne
  Empty = Empty
  Off = Off
  Apps <- PagesAndOthers
  MaxRequests = 2
  Home = l1
  MaxChanges = 1
  MaxTroubles = 1
  MaxRetries = 3
INVARIANTS
  ToldReadsFresh
  WaitersHaveARender
PROPERTIES
  AnswersAreFresh
CHECK_DEADLOCK FALSE
