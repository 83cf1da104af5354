\* A server with two requests in progress, and two workers.
CONSTANTS
  Fields = {"secret", "ttl", "shutdown"}
  EnvFields = {"secret", "ttl"}
  Servers = {s1}
  Workers = {w1, w2}
  Slots = {1, 2}
  Deployed <- Deployments
  MaxFaults = 2
  MaxSignals = 2
SPECIFICATION FairSpec
INVARIANTS TypeOK HighestSourceWins UpHasAll ResourcesOutliveRequests
PROPERTIES ExitHasCause NoRequestCut StopsInTheEnd AllUpInTheEnd
