CONSTANTS
  Mask = {api, message, store_buffer}
  Sources = {api, message, store_buffer}
  OwnSources = {store_buffer}
  Limits = {low, middle, high}
  Top = top
SPECIFICATION InterruptSpec
INVARIANTS
  RequestsAreKept
