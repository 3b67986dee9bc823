CONSTANTS
  YamlFlows <- MCYamlFlows
  N8nFlows <- MCN8nFlows
  GraphNames = {"g1", "g2"}
  Live = TRUE
SPECIFICATION Spec
INVARIANTS
  RefusalsJustified
  ReadsExact
  ReadsScheduled
  GraphsApart
  ReferencesKept
  PlaceholdersBound
  ProfileNeedsSamples
PROPERTY
  ParseEnds
CHECK_DEADLOCK FALSE
