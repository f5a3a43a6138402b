SPECIFICATION Spec
CONSTANTS
  Unknown = Unknown
  Policies = {"ABC"}
  Seeds = {1, 13}
  PolicyLists <- ListsOfPolicies
  SeedLists <- ListsOfSeeds
  Begins <- Beginnings
  Lines = 2
  MaxFaults = 2
INVARIANTS CampaignTypeOK CompletedIsExported PassMeansExact FailuresKeepTheirLogs
