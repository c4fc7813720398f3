SPECIFICATION PairingSpec
CONSTANT Setups <- MCSetups
INVARIANTS ScheduleSound RematchOnlyIfForced SwissFair
CHECK_DEADLOCK FALSE
