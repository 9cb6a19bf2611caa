CONSTANTS
  Bodies <- AllBodies
  MaxTime = 4

SPECIFICATION Spec

INVARIANTS
  ResultIsOfTheBody
  NoLineWaits
  ArrivalsIncludeRoundTrip
  FiguresFitTheRequest
  SpanKeepsTheTokens
  TextAndTraceAgree

PROPERTIES
  CompletionEndsProbe
  ImplementsWholeBodyProbe

\* A probe ends.
CHECK_DEADLOCK FALSE
