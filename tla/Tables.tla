------------------------------- MODULE Tables --------------------------------
(* The games of the registry (app/games) that are played with any number of   *)
(* seats and any small set of the game's own pieces: the constants.           *)
EXTENDS Integers, Sequences, FiniteSetsExt

CONSTANTS SeatCount, Couple,  \* seats of a full table, and of a table of two
          Stake,
          HandRanks, Tiers, VirtualBudget, MaxRounds,           \* zhajinhua
          CupSize, Faces,                                       \* the dice of a cup
          AllVariants,                                          \* party dice
          CardRanks,                                            \* blackjack
          RankCount, Copies, HandSize, MaxMultiplier,           \* doudizhu
          UnoCards,                                             \* uno
          TrainDeck, MaxActions,                                \* train cards
          Rows, Columns,                                        \* dots and boxes
          Length, PieceCount, QuietLimit,                       \* banqi
          FleetCells, Strip, FleetSize,                         \* bomb plane
          Wallets, OpenPoints, TileColors, TileNumbers          \* rummikub

VARIABLES game, g
vars == <<game, g>>

\* The pieces of both colours, one square each.
BanqiPieces == [x \in {"r", "b"} \X DOMAIN PieceCount |-> PieceCount[x[2]]]

VariantsAssumption ==
  AllVariants \subseteq
    [literal : BOOLEAN, cupPenalty : BOOLEAN, extreme : BOOLEAN, companion : BOOLEAN,
     dark : BOOLEAN, surrender : BOOLEAN, keepDice : BOOLEAN, rush : BOOLEAN]

DeckAssumption ==
  TrainDeck \in Seq(Nat) /\ Len(TrainDeck) >= SeatCount /\ MaxActions \in Nat

PiecesAssumption ==
  /\ IsFiniteSet(DOMAIN PieceCount) /\ \A k \in DOMAIN PieceCount : PieceCount[k] \in Nat
  /\ Length = MapThenSumSet(LAMBDA x : BanqiPieces[x], DOMAIN BanqiPieces)

GamesAssumption ==
  /\ SeatCount \in Nat \ {0, 1} /\ Couple \in Nat \ {0, 1} /\ Stake \in Nat \ {0}
  /\ HandRanks \subseteq Int /\ Tiers \subseteq Nat
  /\ VirtualBudget \in Nat \ {0} /\ MaxRounds \in Nat \ {0}
  /\ CupSize \in Nat \ {0} /\ Faces \in Nat \ {0}
  /\ VariantsAssumption
  /\ CardRanks \subseteq 1..10
  /\ RankCount \in Nat \ {0} /\ Copies \in Nat \ {0} /\ HandSize \in Nat \ {0}
  /\ MaxMultiplier \in Nat /\ MaxMultiplier >= 3
  /\ DeckAssumption
  /\ Rows \in Nat \ {0} /\ Columns \in Nat \ {0}
  /\ IsFiniteSet(FleetCells) /\ FleetSize \in Nat \ {0}
  /\ Length \in Nat \ {0} /\ PiecesAssumption
  /\ IsFiniteSet(TileColors) /\ IsFiniteSet(TileNumbers) /\ TileNumbers \subseteq Nat
ASSUME GamesAssumption

-----------------------------------------------------------------------------
Golden == INSTANCE Zhajinhua WITH Seats <- SeatCount
Dealer == INSTANCE Blackjack WITH Seats <- Couple, Ranks <- CardRanks
Liars == INSTANCE LiarsDice WITH Seats <- SeatCount, StartDice <- CupSize
Party == INSTANCE PartyDice WITH Seats <- Couple, Options <- AllVariants
Landlord == INSTANCE Doudizhu
Colours == INSTANCE Uno WITH Seats <- SeatCount, Cards <- UnoCards
Train == INSTANCE TrainCards WITH Seats <- SeatCount, Deck <- TrainDeck
Flipped == INSTANCE Banqi WITH Rows <- 1, Columns <- Length, Count <- PieceCount
Dots == INSTANCE DotsBoxes WITH Seats <- SeatCount
Bomb == INSTANCE BombPlane WITH Cells <- FleetCells, Body <- Strip

\* The melds are worked out once.
RummikubSets == INSTANCE Rummikub WITH Melds <- {}, Openers <- {}, HandSize <- 0,
  Copies <- 1, Jokers <- 1, MeldSize <- 2,
  Seats <- SeatCount, Colors <- TileColors, Numbers <- TileNumbers
RummikubMelds == RummikubSets!Runs \cup RummikubSets!Groups
Melding == INSTANCE Rummikub WITH Melds <- RummikubMelds, Openers <- {1}, HandSize <- 2,
  Copies <- 1, Jokers <- 1, MeldSize <- 2,
  Seats <- SeatCount, Colors <- TileColors, Numbers <- TileNumbers
=============================================================================
