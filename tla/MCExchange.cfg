SPECIFICATION ExchangeSpec
CONSTANTS
  Contents <- MCContents
  Upstreams <- MCUpstreams
  Protos = {"dns", "json-doh", "ietf-doh", "doh"}
CHECK_DEADLOCK FALSE
INVARIANTS
  AnsweredAsAsked
  RoutedOrRefused
