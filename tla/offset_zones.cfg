\* A property whose time zone is sent as an offset, created or edited.
SPECIFICATION Spec
CONSTANTS
  h1 = h1  h2 = h2
  Handlers = {h1, h2}
  Id = "p1"
  NoProperty = NoProperty
  NoBody = NoBody
  Identifiers = {"p1", "p2"}
  Countries = {"PT"}
  Currencies = {"EUR"}
  Ascii = {"PT", "pt", "ZZ", "p1", "EUR", "eur", "XXX"}
  Capitals = {"PT", "ZZ", "EUR", "XXX"}
  UpperCase <- UpperCaseChosen
  LowerCase <- LowerCaseChosen
  ZoneShapes = {"Portugal", "Europe/Lisbon", "Nowhere", "+03"}
  Zones <- ZonesChosen
  Inputs <- InputsChosen
  Creations <- CreationsChosen
  Bodies <- BodiesChosen
SYMMETRY AnyHandler
INVARIANTS
  PersistenceReturnsCanonical
