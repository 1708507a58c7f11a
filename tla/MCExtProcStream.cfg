SPECIFICATION Spec
CONSTANTS
  Policies <- MCPolicies
  NoPolicy = NoPolicy
  DefaultAllow <- MCDefaultAllow
  BodyLens = {0, 1}
  MaxMessages <- MCMaxMessages
INVARIANTS TypeOK DecidedOnce InspectFindingsAudited  ForwardedIsInspected
