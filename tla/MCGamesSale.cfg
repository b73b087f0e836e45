\* A purchase offered before an auction is still open after it.
SPECIFICATION SaleSpec
CONSTANTS
  SeatCount = 3
  Couple = 2
  Stake = 2
  HandRanks = {1, 2}
  Tiers = {1, 2}
  VirtualBudget = 4
  MaxRounds = 2
  CupSize = 2
  Faces = 2
  AllVariants <- OneVariant
  CardRanks = {1, 10}
  RankCount = 2
  Copies = 3
  HandSize = 1
  MaxMultiplier = 4
  UnoCards <- FewUnoCards
  TrainDeck <- ShortDeck
  MaxActions = 12
  Rows = 1
  Columns = 2
  Length = 4
  PieceCount <- FewPieces
  QuietLimit = 3
  FleetCells = {1, 2, 3}
  Strip <- ShortStrip
  FleetSize = 2
  Wallets = {0, 1}
  OpenPoints = 3
  TileColors = {"red", "blue"}
  TileNumbers = {1, 2, 3}
INVARIANT OffersFreeEstate
CHECK_DEADLOCK FALSE
