SPECIFICATION PipelineSpec
CONSTANTS
  Locations = {l1}
  Home = l1
  Writers = {w1}
  Targets = {{"path", "tag"}}
  NoPage = NoPage
  NoOne = NoOne
  Empty = Empty
  Off = Off
  Apps <- PagesAndOthers
  MaxRequests = 2
  MaxChanges = 1
  MaxTroubles = 0
  MaxRetries = 0
PROPERTIES
  JoinedAnswersAreFresh
CHECK_DEADLOCK FALSE
