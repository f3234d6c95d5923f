\* Write(idd, idf, int) at the edge of int: the formatted value against the room left in Directive::msg[30].
CONSTANTS
  Ids <- MCIds
  FuncIds <- MCFuncIds
  IntArgs <- MCIntArgsEdge
  Tenths <- MCTenths
  VacuumIds <- MCVacuumIds
  Noise <- MCNoise
  ReportGroups <- MCGroups
  ReportIds <- MCReportIds
  ReportTimes <- MCTimes
  ReportTenths <- MCReportTenths
  ReportPressures <- MCPressures
  Entries2 <- MCEntries2
  Entries3 <- MCEntries3
  Knots <- MCKnots
  Points <- MCPoints
SPECIFICATION MCSpec
INVARIANT DirectiveFits
