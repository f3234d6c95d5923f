\* Vacuum port with a device added after start, prompt link that may lose answers or deliver malformed frames; the server session may drop and be decoupled and recoupled.
CONSTANTS
  d1 = d1
  d2 = d2
  Devices <- MCTwoDevices
  Registered <- MCRegistered
  Family = "vacuum"
  Readings = {0, 1}
  Faults = {"lose", "malformed"}
  SlowLink = FALSE
  SpuriousWakeup = FALSE
  Writes = FALSE
  Network = TRUE
  Teardown = FALSE
  TickSeconds = 10
SPECIFICATION Spec
PROPERTY AddedDevicePolled
