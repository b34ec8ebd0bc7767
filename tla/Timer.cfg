SPECIFICATION TimerSpec
CONSTANTS
  FREQS = {500, 1000, 3500}
  MAX_SINCE = 5
INVARIANTS EveryExpiryOnce
PROPERTIES NeverEarly TicksForever
