\* Three cycles: the first uninstall-then-install already shows it.
CONSTANT Cycles = 3
SPECIFICATION WatchSpec
INVARIANT NothingManufactured
CHECK_DEADLOCK FALSE
