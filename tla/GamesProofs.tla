----------------------------- MODULE GamesProofs -----------------------------
(***************************************************************************)
(* What TablesProofs shows of its games holds of the tables of MCGames,    *)
(* which opens one game and plays it to its end.                           *)
(***************************************************************************)
EXTENDS MCGames, TablesProofs

GamesInv ==
  /\ game = "zhajinhua" => GoldenInv(g)
  /\ game = "blackjack" => DealerInv(g)
  /\ game = "liars_dice" => LiarsInv(g)
  /\ game = "doudizhu" => LandlordInv(g)
  /\ game = "uno" => ColoursInv(g)
  /\ game = "banqi" => FlippedInv(g)
  /\ game = "dots_boxes" => DotsInv(g)
  /\ game = "bomb_plane" => BombInv(g)
  /\ game = "rummikub" => MeldingInv(g)
  /\ game = "party_dice" => PartyInv(g)
  /\ game = "train_cards" => TrainInv(g)

\* The table plays one game, and every step is a step of that game.
LEMMA GameStays ==
  ASSUME [Next]_vars
  PROVE  game' = game
BY DEF Next, Done, vars,
         TexasStep, GoldenStep, DealerStep, LiarsStep, PartyStep, LandlordStep, PoleStep,
         ColoursStep, GemStep, DiceStep, PlanesStep, TrainStep, FlippedStep,
         EstateStep, MahStep, DraughtsStep, TrioStep, DuelStep, DotsStep,
         BombStep, MeldingStep

LEMMA GamesInit ==
  ASSUME GamesAssumption, Init
  PROVE  GamesInv
<1>1. game = "zhajinhua" => GoldenInv(g)
  BY GoldenInit DEF Init
<1>2. game = "blackjack" => DealerInv(g)
  BY DealerInit DEF Init
<1>3. game = "liars_dice" => LiarsInv(g)
  BY LiarsInit DEF Init
<1>4. game = "doudizhu" => LandlordInv(g)
  BY LandlordInit DEF Init
<1>5. game = "uno" => ColoursInv(g)
  BY ColoursInit DEF Init
<1>6. game = "banqi" => FlippedInv(g)
  BY FlippedInit DEF Init
<1>7. game = "dots_boxes" => DotsInv(g)
  BY DotsInit DEF Init
<1>8. game = "bomb_plane" => BombInv(g)
  BY BombInit DEF Init
<1>9. game = "rummikub" => MeldingInv(g)
  BY MeldingInit DEF Init
<1>10. game = "party_dice" => PartyInv(g)
  BY PartyInit DEF Init
<1>11. game = "train_cards" => TrainInv(g)
  BY TrainInit DEF Init
<1>. QED
  BY <1>1, <1>2, <1>3, <1>4, <1>5, <1>6, <1>7, <1>8, <1>9, <1>10, <1>11 DEF GamesInv

LEMMA GamesPreserved ==
  ASSUME GamesAssumption, GamesInv, [Next]_vars
  PROVE  GamesInv'
<1>1. game' = game
  BY GameStays
<1>2. ASSUME game = "zhajinhua" PROVE GoldenInv(g')
  <2>1. GoldenInv(g)
    BY <1>2 DEF GamesInv
  <2>2. Golden!Next \/ g' = g
    BY <1>2 DEF Next, Done, vars,
         TexasStep, GoldenStep, DealerStep, LiarsStep, PartyStep, LandlordStep, PoleStep,
         ColoursStep, GemStep, DiceStep, PlanesStep, TrainStep, FlippedStep,
         EstateStep, MahStep, DraughtsStep, TrioStep, DuelStep, DotsStep,
         BombStep, MeldingStep
  <2>3. CASE g' = g
    BY <2>1, <2>3
  <2>. QED
    BY <2>1, <2>2, <2>3, GoldenPreserved
<1>3. ASSUME game = "blackjack" PROVE DealerInv(g')
  <2>1. DealerInv(g)
    BY <1>3 DEF GamesInv
  <2>2. Dealer!Next \/ g' = g
    BY <1>3 DEF Next, Done, vars,
         TexasStep, GoldenStep, DealerStep, LiarsStep, PartyStep, LandlordStep, PoleStep,
         ColoursStep, GemStep, DiceStep, PlanesStep, TrainStep, FlippedStep,
         EstateStep, MahStep, DraughtsStep, TrioStep, DuelStep, DotsStep,
         BombStep, MeldingStep
  <2>3. CASE g' = g
    BY <2>1, <2>3
  <2>. QED
    BY <2>1, <2>2, <2>3, DealerPreserved
<1>4. ASSUME game = "liars_dice" PROVE LiarsInv(g')
  <2>1. LiarsInv(g)
    BY <1>4 DEF GamesInv
  <2>2. Liars!Next \/ g' = g
    BY <1>4 DEF Next, Done, vars,
         TexasStep, GoldenStep, DealerStep, LiarsStep, PartyStep, LandlordStep, PoleStep,
         ColoursStep, GemStep, DiceStep, PlanesStep, TrainStep, FlippedStep,
         EstateStep, MahStep, DraughtsStep, TrioStep, DuelStep, DotsStep,
         BombStep, MeldingStep
  <2>3. CASE g' = g
    BY <2>1, <2>3
  <2>. QED
    BY <2>1, <2>2, <2>3, LiarsPreserved
<1>5. ASSUME game = "doudizhu" PROVE LandlordInv(g')
  <2>1. LandlordInv(g)
    BY <1>5 DEF GamesInv
  <2>2. Landlord!Next \/ g' = g
    BY <1>5 DEF Next, Done, vars,
         TexasStep, GoldenStep, DealerStep, LiarsStep, PartyStep, LandlordStep, PoleStep,
         ColoursStep, GemStep, DiceStep, PlanesStep, TrainStep, FlippedStep,
         EstateStep, MahStep, DraughtsStep, TrioStep, DuelStep, DotsStep,
         BombStep, MeldingStep
  <2>3. CASE g' = g
    BY <2>1, <2>3
  <2>. QED
    BY <2>1, <2>2, <2>3, LandlordPreserved
<1>6. ASSUME game = "uno" PROVE ColoursInv(g')
  <2>1. ColoursInv(g)
    BY <1>6 DEF GamesInv
  <2>2. Colours!Next \/ g' = g
    BY <1>6 DEF Next, Done, vars,
         TexasStep, GoldenStep, DealerStep, LiarsStep, PartyStep, LandlordStep, PoleStep,
         ColoursStep, GemStep, DiceStep, PlanesStep, TrainStep, FlippedStep,
         EstateStep, MahStep, DraughtsStep, TrioStep, DuelStep, DotsStep,
         BombStep, MeldingStep
  <2>3. CASE g' = g
    BY <2>1, <2>3
  <2>. QED
    BY <2>1, <2>2, <2>3, ColoursPreserved
<1>7. ASSUME game = "banqi" PROVE FlippedInv(g')
  <2>1. FlippedInv(g)
    BY <1>7 DEF GamesInv
  <2>2. Flipped!Next \/ g' = g
    BY <1>7 DEF Next, Done, vars,
         TexasStep, GoldenStep, DealerStep, LiarsStep, PartyStep, LandlordStep, PoleStep,
         ColoursStep, GemStep, DiceStep, PlanesStep, TrainStep, FlippedStep,
         EstateStep, MahStep, DraughtsStep, TrioStep, DuelStep, DotsStep,
         BombStep, MeldingStep
  <2>3. CASE g' = g
    BY <2>1, <2>3
  <2>. QED
    BY <2>1, <2>2, <2>3, FlippedPreserved
<1>8. ASSUME game = "dots_boxes" PROVE DotsInv(g')
  <2>1. DotsInv(g)
    BY <1>8 DEF GamesInv
  <2>2. Dots!Next \/ g' = g
    BY <1>8 DEF Next, Done, vars,
         TexasStep, GoldenStep, DealerStep, LiarsStep, PartyStep, LandlordStep, PoleStep,
         ColoursStep, GemStep, DiceStep, PlanesStep, TrainStep, FlippedStep,
         EstateStep, MahStep, DraughtsStep, TrioStep, DuelStep, DotsStep,
         BombStep, MeldingStep
  <2>3. CASE g' = g
    BY <2>1, <2>3
  <2>. QED
    BY <2>1, <2>2, <2>3, DotsPreserved
<1>9. ASSUME game = "bomb_plane" PROVE BombInv(g')
  <2>1. BombInv(g)
    BY <1>9 DEF GamesInv
  <2>2. Bomb!Next \/ g' = g
    BY <1>9 DEF Next, Done, vars,
         TexasStep, GoldenStep, DealerStep, LiarsStep, PartyStep, LandlordStep, PoleStep,
         ColoursStep, GemStep, DiceStep, PlanesStep, TrainStep, FlippedStep,
         EstateStep, MahStep, DraughtsStep, TrioStep, DuelStep, DotsStep,
         BombStep, MeldingStep
  <2>3. CASE g' = g
    BY <2>1, <2>3
  <2>. QED
    BY <2>1, <2>2, <2>3, BombPreserved
<1>10. ASSUME game = "rummikub" PROVE MeldingInv(g')
  <2>1. MeldingInv(g)
    BY <1>10 DEF GamesInv
  <2>2. Melding!Next \/ g' = g
    BY <1>10 DEF Next, Done, vars,
         TexasStep, GoldenStep, DealerStep, LiarsStep, PartyStep, LandlordStep, PoleStep,
         ColoursStep, GemStep, DiceStep, PlanesStep, TrainStep, FlippedStep,
         EstateStep, MahStep, DraughtsStep, TrioStep, DuelStep, DotsStep,
         BombStep, MeldingStep
  <2>3. CASE g' = g
    BY <2>1, <2>3
  <2>. QED
    BY <2>1, <2>2, <2>3, MeldingPreserved
<1>11. ASSUME game = "party_dice" PROVE PartyInv(g')
  <2>1. PartyInv(g)
    BY <1>11 DEF GamesInv
  <2>2. Party!Next \/ g' = g
    BY <1>11 DEF Next, Done, vars,
         TexasStep, GoldenStep, DealerStep, LiarsStep, PartyStep, LandlordStep, PoleStep,
         ColoursStep, GemStep, DiceStep, PlanesStep, TrainStep, FlippedStep,
         EstateStep, MahStep, DraughtsStep, TrioStep, DuelStep, DotsStep,
         BombStep, MeldingStep
  <2>3. CASE g' = g
    BY <2>1, <2>3
  <2>. QED
    BY <2>1, <2>2, <2>3, PartyPreserved
<1>12. ASSUME game = "train_cards" PROVE TrainInv(g')
  <2>1. TrainInv(g)
    BY <1>12 DEF GamesInv
  <2>2. Train!Next \/ g' = g
    BY <1>12 DEF Next, Done, vars,
         TexasStep, GoldenStep, DealerStep, LiarsStep, PartyStep, LandlordStep, PoleStep,
         ColoursStep, GemStep, DiceStep, PlanesStep, TrainStep, FlippedStep,
         EstateStep, MahStep, DraughtsStep, TrioStep, DuelStep, DotsStep,
         BombStep, MeldingStep
  <2>3. CASE g' = g
    BY <2>1, <2>3
  <2>. QED
    BY <2>1, <2>2, <2>3, TrainPreserved
<1>. QED
  BY <1>1, <1>2, <1>3, <1>4, <1>5, <1>6, <1>7, <1>8, <1>9, <1>10, <1>11, <1>12 DEF GamesInv

LEMMA GamesAlways == Spec => []GamesInv
<1>1. Init => GamesInv
  BY GamesAssumption, GamesInit
<1>2. GamesInv /\ [Next]_vars => GamesInv'
  BY GamesAssumption, GamesPreserved
<1>. QED
  BY <1>1, <1>2, PTL DEF Spec

AskedGames ==
  {"zhajinhua", "blackjack", "liars_dice", "doudizhu", "uno", "banqi", "dots_boxes",
   "bomb_plane", "rummikub", "party_dice", "train_cards"}

\* Whoever one of these tables asks is still in the game and has something to
\* answer, however seats folded, passed, were challenged or resigned before (each
\* plugin's apply_action and _advance).  None of these games is one that MCGames
\* exempts (gandengyan, Chinese checkers of three).
THEOREM PlayerAskedMayAct == Spec => [](game \in AskedGames => AskedMayAct)
<1>1. GamesInv => (game \in AskedGames => AskedMayAct)
  <2>. SUFFICES ASSUME GamesInv, game \in AskedGames PROVE AskedMayAct
    OBVIOUS
  <2>1. CASE game = "zhajinhua"
    <3>1. Golden!AskedMayAct
      BY <2>1, GamesAssumption, GoldenHonours DEF GamesInv
    <3>. QED
      BY <2>1, <3>1 DEF AskedMayAct
  <2>2. CASE game = "blackjack"
    <3>1. Dealer!AskedMayAct
      BY <2>2, GamesAssumption, DealerHonours DEF GamesInv
    <3>. QED
      BY <2>2, <3>1 DEF AskedMayAct
  <2>3. CASE game = "liars_dice"
    <3>1. Liars!AskedMayAct
      BY <2>3, GamesAssumption, LiarsHonours DEF GamesInv
    <3>. QED
      BY <2>3, <3>1 DEF AskedMayAct
  <2>4. CASE game = "doudizhu"
    <3>1. Landlord!AskedMayAct
      BY <2>4, GamesAssumption, LandlordHonours DEF GamesInv
    <3>. QED
      BY <2>4, <3>1 DEF AskedMayAct
  <2>5. CASE game = "uno"
    <3>1. Colours!AskedMayAct
      BY <2>5, GamesAssumption, ColoursHonours DEF GamesInv
    <3>. QED
      BY <2>5, <3>1 DEF AskedMayAct
  <2>6. CASE game = "banqi"
    <3>1. Flipped!AskedMayAct
      BY <2>6, GamesAssumption, FlippedHonours DEF GamesInv
    <3>. QED
      BY <2>6, <3>1 DEF AskedMayAct
  <2>7. CASE game = "dots_boxes"
    <3>1. Dots!AskedMayAct
      BY <2>7, GamesAssumption, DotsHonours DEF GamesInv
    <3>. QED
      BY <2>7, <3>1 DEF AskedMayAct
  <2>8. CASE game = "bomb_plane"
    <3>1. Bomb!AskedMayAct
      BY <2>8, GamesAssumption, BombHonours DEF GamesInv
    <3>. QED
      BY <2>8, <3>1 DEF AskedMayAct
  <2>9. CASE game = "rummikub"
    <3>1. Melding!AskedMayAct
      BY <2>9, GamesAssumption, MeldingHonours DEF GamesInv
    <3>. QED
      BY <2>9, <3>1 DEF AskedMayAct
  <2>10. CASE game = "party_dice"
    <3>1. Party!AskedMayAct
      BY <2>10, GamesAssumption, PartyHonours DEF GamesInv
    <3>. QED
      BY <2>10, <3>1 DEF AskedMayAct
  <2>11. CASE game = "train_cards"
    <3>1. Train!AskedMayAct
      BY <2>11, GamesAssumption, TrainHonours DEF GamesInv
    <3>. QED
      BY <2>11, <3>1 DEF AskedMayAct
  <2>. QED
    BY <2>1, <2>2, <2>3, <2>4, <2>5, <2>6, <2>7, <2>8, <2>9, <2>10, <2>11 DEF AskedGames
<1>. QED
  BY <1>1, GamesAlways, PTL

SettledGames ==
  {"zhajinhua", "blackjack", "liars_dice", "doudizhu", "uno", "banqi", "dots_boxes",
   "rummikub", "party_dice", "train_cards"}

\* A finished table names the winners its rules make winners and settles as its
\* settlement_deltas promises (each plugin's _finish and settlement_deltas), for any
\* number of seats and any pieces: chips only move between the players of
\* zhajinhua (at most VirtualBudget stakes lost), both liar's dice, doudizhu (at most
\* 2 * MaxMultiplier stakes won), train cards and dots and boxes; a blackjack seat
\* wins or loses against a house, in the order of the hands, and nothing is said
\* of the sum; rummikub's penalties are points, never negative.  Of banqi and uno
\* only the end and its winner: after a resignation uno's stayed, without a card
\* or alone, and without one whoever empties a hand wins.
THEOREM TableSettled == Spec => [](game \in SettledGames => Settled)
<1>1. GamesInv => (game \in SettledGames => Settled)
  <2>. SUFFICES ASSUME GamesInv, game \in SettledGames PROVE Settled
    OBVIOUS
  <2>1. CASE game = "zhajinhua"
    <3>1. Golden!Settled
      BY <2>1, GamesAssumption, GoldenHonours DEF GamesInv
    <3>. QED
      BY <2>1, <3>1 DEF Settled
  <2>2. CASE game = "blackjack"
    <3>1. Dealer!Settled
      BY <2>2, GamesAssumption, DealerHonours DEF GamesInv
    <3>. QED
      BY <2>2, <3>1 DEF Settled
  <2>3. CASE game = "liars_dice"
    <3>1. Liars!Settled
      BY <2>3, GamesAssumption, LiarsHonours DEF GamesInv
    <3>. QED
      BY <2>3, <3>1 DEF Settled
  <2>4. CASE game = "doudizhu"
    <3>1. Landlord!Settled
      BY <2>4, GamesAssumption, LandlordHonours DEF GamesInv
    <3>. QED
      BY <2>4, <3>1 DEF Settled
  <2>5. CASE game = "uno"
    <3>1. Colours!Settled
      BY <2>5, GamesAssumption, ColoursHonours DEF GamesInv
    <3>. QED
      BY <2>5, <3>1 DEF Settled
  <2>6. CASE game = "banqi"
    <3>1. Flipped!Settled
      BY <2>6, GamesAssumption, FlippedHonours DEF GamesInv
    <3>. QED
      BY <2>6, <3>1 DEF Settled
  <2>7. CASE game = "dots_boxes"
    <3>1. Dots!Settled
      BY <2>7, GamesAssumption, DotsHonours DEF GamesInv
    <3>. QED
      BY <2>7, <3>1 DEF Settled
  <2>8. CASE game = "rummikub"
    <3>1. Melding!Settled
      BY <2>8, GamesAssumption, MeldingHonours DEF GamesInv
    <3>. QED
      BY <2>8, <3>1 DEF Settled
  <2>9. CASE game = "party_dice"
    <3>1. Party!Settled
      BY <2>9, GamesAssumption, PartyHonours DEF GamesInv
    <3>. QED
      BY <2>9, <3>1 DEF Settled
  <2>10. CASE game = "train_cards"
    <3>1. Train!Settled
      BY <2>10, GamesAssumption, TrainHonours DEF GamesInv
    <3>. QED
      BY <2>10, <3>1 DEF Settled
  <2>. QED
    BY <2>1, <2>2, <2>3, <2>4, <2>5, <2>6, <2>7, <2>8, <2>9, <2>10 DEF SettledGames
<1>. QED
  BY <1>1, GamesAlways, PTL

ConservedGames ==
  {"zhajinhua", "liars_dice", "doudizhu", "uno", "banqi", "rummikub", "party_dice",
   "train_cards"}

\* Chips, cards, dice and tiles are moved, never made or lost: pots are backed by
\* contributions, decks and racks partition the pieces, cups hold what is counted.
THEOREM PiecesConserved == Spec => [](game \in ConservedGames => NothingLost)
<1>1. GamesInv => (game \in ConservedGames => NothingLost)
  <2>. SUFFICES ASSUME GamesInv, game \in ConservedGames PROVE NothingLost
    OBVIOUS
  <2>1. CASE game = "zhajinhua"
    <3>1. Golden!PotBacked
      BY <2>1, GamesAssumption, GoldenHonours DEF GamesInv
    <3>. QED
      BY <2>1, <3>1 DEF NothingLost
  <2>2. CASE game = "liars_dice"
    <3>1. Liars!CupsMatchCounts
      BY <2>2, GamesAssumption, LiarsHonours DEF GamesInv
    <3>. QED
      BY <2>2, <3>1 DEF NothingLost
  <2>3. CASE game = "doudizhu"
    <3>1. Landlord!CardsConserved
      BY <2>3, GamesAssumption, LandlordHonours DEF GamesInv
    <3>. QED
      BY <2>3, <3>1 DEF NothingLost
  <2>4. CASE game = "uno"
    <3>1. Colours!CardsConserved
      BY <2>4, GamesAssumption, ColoursHonours DEF GamesInv
    <3>. QED
      BY <2>4, <3>1 DEF NothingLost
  <2>5. CASE game = "banqi"
    <3>1. Flipped!PoolMatchesBoard
      BY <2>5, GamesAssumption, FlippedHonours DEF GamesInv
    <3>. QED
      BY <2>5, <3>1 DEF NothingLost
  <2>6. CASE game = "rummikub"
    <3>1. Melding!TilesConserved
      BY <2>6, GamesAssumption, MeldingHonours DEF GamesInv
    <3>. QED
      BY <2>6, <3>1 DEF NothingLost
  <2>7. CASE game = "party_dice"
    <3>1. Party!LedgerBounded
      BY <2>7, GamesAssumption, PartyHonours DEF GamesInv
    <3>. QED
      BY <2>7, <3>1 DEF NothingLost
  <2>8. CASE game = "train_cards"
    <3>1. Train!CardsConserved
      BY <2>8, GamesAssumption, TrainHonours DEF GamesInv
    <3>. QED
      BY <2>8, <3>1 DEF NothingLost
  <2>. QED
    BY <2>1, <2>2, <2>3, <2>4, <2>5, <2>6, <2>7, <2>8 DEF ConservedGames
<1>. QED
  BY <1>1, GamesAlways, PTL

HonestGames ==
  {"dots_boxes", "bomb_plane", "train_cards"}

\* The scores count the boxes, every shot is answered by what the layout holds
\* and the two fleets have fired in turn, and the train never holds two cards of
\* one rank.
THEOREM ScoresAndAnswersTrue == Spec => [](game \in HonestGames => TableHonest)
<1>1. GamesInv => (game \in HonestGames => TableHonest)
  <2>. SUFFICES ASSUME GamesInv, game \in HonestGames PROVE TableHonest
    OBVIOUS
  <2>1. CASE game = "dots_boxes"
    <3>1. Dots!ScoresHonest
      BY <2>1, GamesAssumption, DotsHonours DEF GamesInv
    <3>. QED
      BY <2>1, <3>1 DEF TableHonest
  <2>2. CASE game = "bomb_plane"
    <3>1. Bomb!FleetsHonest
      BY <2>2, GamesAssumption, BombHonours DEF GamesInv
    <3>. QED
      BY <2>2, <3>1 DEF TableHonest
  <2>3. CASE game = "train_cards"
    <3>1. Train!NoPairOnTrain
      BY <2>3, GamesAssumption, TrainHonours DEF GamesInv
    <3>. QED
      BY <2>3, <3>1 DEF TableHonest
  <2>. QED
    BY <2>1, <2>2, <2>3 DEF HonestGames
<1>. QED
  BY <1>1, GamesAlways, PTL
=============================================================================
