CONSTANTS
  YamlFlows = {}
  N8nFlows <- MCDataInPrompt
  GraphNames = {"g1", "g2"}
  Live = TRUE
SPECIFICATION Spec
INVARIANT
  ReferencesResolve
CHECK_DEADLOCK FALSE
