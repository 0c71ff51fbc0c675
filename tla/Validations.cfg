\* Two Jenkinses of one namespace, an edit, a creation or a deletion, and a
\* failing call or a crash, with each kind of global proxy.
CONSTANTS
  a = a
  b = b
  secret = secret
  claim = claim
  Jenkinses = {a, b}
  Space <- Together
  Objects = {secret, claim}
  Specs <- FullOrNot
  GlobalProxies = {"unset", "user:password@host:port", "host:port"}
  Perishable <- ClaimAndDefault
  MaxChanges = 1
  MaxFaults = 1
SPECIFICATION FairSpec
 
PROPERTIES EveryoneJudged 
CHECK_DEADLOCK FALSE
