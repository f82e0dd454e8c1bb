SPECIFICATION Spec
CONSTANTS
  BYTE_BITS = 6
  ICACHE_WORDS = 2
  Programs <- MCPrograms
  FlushPcs = {0, 4, 6, 12}
  MAX_PC = 16
INVARIANTS TypeOK OffersProgram DecodersAgree
PROPERTIES Fetches
