CONSTANTS
  i1 = i1
  s1 = s1
  Nobody = Nobody
  Holders = {i1, s1}
  Features <- MCFeatures
  Feature <- MCFeature
  Rank <- MCRank
  Floor <- MCFloor
  Ceiling <- MCCeiling
  Limit = 2
  Renewing = {i1, s1}
  Faults = {}
SPECIFICATION Spec
PROPERTIES
  RenewNeverResurrects
