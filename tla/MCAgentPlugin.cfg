SPECIFICATION TurnSpec
CONSTANTS
  Harnesses = {"opencode"}
  MaxCalls = 1
  OvTools = {"search", "forget"}
  OtherTools = {"clarify"}
  Overrides <- MCPluginOverrides
  Policies <- MCPolicies
  MaxLog = 3
INVARIANT
  PluginUnderTest
