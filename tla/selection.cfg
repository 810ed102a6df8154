SPECIFICATION SpecSelection
CONSTANTS
  general = general
  narrow = narrow
  sibling = sibling
  stale = stale
  g0 = g0
  n0 = n0
  mine = mine
  prefill = prefill
  decode = decode
  Names = {general, narrow, sibling, stale}
  Own = {general, narrow}
  Parents <- ParentMaps
  Declared = {general, narrow, sibling}
  Classes = {g0, n0, mine}
  Shipped <- ShippedMap
  General = {g0}
  Calls = {prefill, decode}
  Serves <- Regions
INVARIANTS
  OrderFree
  SpecialisedFirst
  NoShippedStandIn
  ReplacedByCaller
