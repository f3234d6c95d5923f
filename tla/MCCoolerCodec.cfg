\* Round trip of every Write form through encode_data and decode_data, of every telemetry report through CompactCooler/CompactVacuum and Resolve, of every vacuum reading through the gauge's answer and decode_data, and AMath's inversion, solve and interpolations against their mathematical definitions.
CONSTANTS
  Ids <- MCIds
  FuncIds <- MCFuncIds
  IntArgs <- MCIntArgs
  Tenths <- MCTenths
  VacuumIds <- MCVacuumIds
  Noise <- MCNoise
  ReportGroups <- MCGroups
  ReportIds <- MCReportIds
  ReportTimes <- MCTimes
  ReportTenths <- MCReportTenths
  ReportPressures <- MCPressures
  Entries2 <- MCEntries2
  Entries3 <- MCEntries3
  Knots <- MCKnots
  Points <- MCPoints
SPECIFICATION MCSpec
INVARIANT RoundTrip
INVARIANT ReportRoundTrip
INVARIANT VacuumRoundTrip
INVARIANT InverseSound
INVARIANT InterpolationExact
INVARIANT SplineExact
INVARIANT NaturalSplineSound
PROPERTY RestartStable
INVARIANT ByteOrderSound
INVARIANT GaussFitSound
