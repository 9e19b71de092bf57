\* Gateways or servers, one of them swept by Slack commands too, and devices.
SPECIFICATION FairSpec
CONSTANTS
    k1 = k1  k2 = k2  timer = timer  slack = slack  g1 = g1  g2 = g2
    Key = {k1, k2}
    MaxLimit = 2
    Process = {timer, slack, g1, g2}
    List <- Lists
    MayRestart = TRUE
INVARIANTS TypeOK NoDuplicates NeverTooRecent 
  
CONSTRAINT UpToClash
