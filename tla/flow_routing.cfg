SPECIFICATION FlowFairSpec
CONSTANTS
  s = s  a = a  b = b  e = e  gone = gone
  Unset = Unset
  NodeIds = {s, a, b, e, gone}
  Intents <- AllIntents
  Sentiments <- AllSentiments
  Flows <- AllFlows
  Sayings = {{"yes"}, {"refusal", "yes"}}
  Provider <- Doubts
  HopLimit = 5
CHECK_DEADLOCK FALSE
INVARIANTS PublishedFlowRuns RouteSuitsReply
PROPERTY SilentCallEnds
