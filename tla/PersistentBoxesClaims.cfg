SPECIFICATION FairSpec
CONSTANTS
  o1 = o1  o2 = o2  t1 = t1  t2 = t2  n1 = n1  n2 = n2  n3 = n3  l1 = l1  a = a  b = b
  Requests = {r1, r2}
  Owners = {o1, o2}
  Blank = Blank
  Templates = {t1}
  Contents <- ClaimsContents
  Unusable = Unusable
  ClaimNames = {a, b}
  Preexisting <- ClaimsPreexisting
  PodNames = {n1}
  Labels = {l1}
  BoxPodName <- ClaimsBoxes
  OwnerLabelValue <- OneLabel
  MaxPods = 0
INVARIANTS TypeOK VerifiedClaimsMatch
PROPERTIES ClaimsRetained CallsRunOut EveryRequestAnswered
