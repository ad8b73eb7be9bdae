SPECIFICATION Spec
CONSTANTS
  o1 = o1  o2 = o2  t1 = t1  t2 = t2  n1 = n1  n2 = n2  n3 = n3  l1 = l1  a = a  b = b
  Requests = {r1, r2}
  Owners = {o1, o2}
  Blank = Blank
  Templates = {t1, t2}
  Contents <- CapContents
  Unusable = Unusable
  ClaimNames = {a}
  Preexisting <- NoClaims
  PodNames = {n1, n2, n3}
  Labels = {l1}
  BoxPodName <- CapBoxes
  OwnerLabelValue <- OneLabel
  MaxPods = 1
SYMMETRY Symmetry
INVARIANTS CapOvershootBounded ReconnectNeverCapped
PROPERTIES OvershootByOwnLogins QuotaSpec
