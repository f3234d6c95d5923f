\* Cooler port, slow faulty link and spurious wakeups: serial_read may run during write_log.
CONSTANTS
  d1 = d1
  d2 = d2
  Devices <- MCOneDevice
  Registered <- MCRegistered
  Family = "cooler"
  Readings = {0, 1}
  Faults = {"lose", "malformed"}
  SlowLink = TRUE
  SpuriousWakeup = TRUE
  Writes = FALSE
  Network = FALSE
  Teardown = FALSE
  TickSeconds = 10
SPECIFICATION Spec
INVARIANT LogNeverMissesChange
CHECK_DEADLOCK FALSE
CONSTRAINT LinkBound
