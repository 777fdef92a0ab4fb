\* A version of the rights is committed while a clip is created.
SPECIFICATION Spec
CONSTANTS
  Clips = {c1, c2}
  Sessions = {s1, s2}
  None = None
  c1 = c1
  c2 = c2
  theCampaign = theCampaign
  theAccount = theAccount
  theSignature = theSignature
  campaign <- MCCampaign
  account <- MCAccount
  signature <- MCSignature
  clauses <- MCClauses
  Ends = {0, 9}
  MaxVersions = 2
  MaxTime = 1
INVARIANT RightsAreLatestAtCreation
SYMMETRY SessionSymmetry
