SPECIFICATION Spec
CONSTANTS
  Station = {"a", "b"}
  Scripts <- AllScripts
INVARIANTS TypeOK ChunkingInvisible NoChimera TelemetryTrue GapsExplained
PROPERTIES MissionCompletes
CHECK_DEADLOCK FALSE
