SPECIFICATION FetchSpec
CONSTANTS
  Urls = {"feed", "moved", "mapped", "http", "garbled"}
  UrlFault <- UrlFaultChosen
  Literal <- LiteralChosen
  NoAddress = noAddress
  Addresses <- AddressesChosen
  Documents <- DocumentsChosen
  Exports <- ExportsChosen
  MaxRedirects = 1
  TimeoutMs = 1
  MaxBody = 17
  MaxEvents = 2
  MaxLine = 15
  MaxText = 7
  MaxNights = 3
  MaxReservations = 3
  MaxSequence = 5
  FoldAt = 5
INVARIANTS
  FetchStaysInBounds
  CalendarsAreWhole
  ExportsComeBack
PROPERTIES
  FetchEnds
