SPECIFICATION Spec
CONSTANTS
    Tcps = {tcp1, tcp2}
    MaxCleanups = 2
INVARIANTS TypeOK RunsUntilStopped FaultsExplained QueueSoundUntilStopped
PROPERTIES StopEnds ConnectionsServed
CHECK_DEADLOCK FALSE
