------------------------------ MODULE MCGames -------------------------------
(* The tables of the plugin registry (app/games): one game is opened and      *)
(* played to its end, with every play, chance and resignation its plugin      *)
(* admits, on a small set of the game's own pieces.                           *)
EXTENDS Tables

-----------------------------------------------------------------------------
(* The pieces of the instances. *)

OneVariant == {[literal |-> FALSE, cupPenalty |-> TRUE, extreme |-> TRUE, companion |-> TRUE,
                 dark |-> TRUE, surrender |-> TRUE, keepDice |-> TRUE, rush |-> TRUE]}

Face(color, kind) == [color |-> color, kind |-> kind]
FewUnoCards == {Face("red", "one"), Face("red", "draw_two"), Face("blue", "reverse"),
             Face("none", "wild"), Face("none", "wild_draw_four")}

Tokens(red, pearl, gold) == [red |-> red, pearl |-> pearl, gold |-> gold]
Jewel(points, crowns, ability, cost) ==
  [color |-> "red", joker |-> FALSE, bonus |-> 1, points |-> points, crowns |-> crowns,
   ability |-> ability, cost |-> cost]
Jewels == {Jewel(1, 1, "take_gem", Tokens(1, 0, 0)), Jewel(0, 1, "steal", Tokens(0, 1, 0)),
           [color |-> "none", joker |-> TRUE, bonus |-> 1, points |-> 0, crowns |-> 2,
            ability |-> "extra_turn", cost |-> Tokens(1, 1, 0)]}
JewelSupply == Tokens(2, 1, 1)
JewelBoard == <<<<2, 2>>, <<2, 1>>, <<1, 1>>, <<1, 2>>>>
JewelRoyals == {[name |-> 1, points |-> 1, ability |-> "steal"],
                [name |-> 2, points |-> 1, ability |-> "privilege"]}

Tile(kind) == [kind |-> kind, price |-> 0]
Street(group) == [kind |-> "property", price |-> 2, group |-> group, rents |-> <<1, 2, 3>>,
                  cost |-> 1]
Streets == <<Tile("start"), Tile("jail"), Tile("chance"), Street(3), Street(3),
             Tile("go_to_jail")>>
Chances == [chance |-> <<[kind |-> "jail_card", value |-> 0],
                         [kind |-> "collect_each", value |-> 2]>>]
Deals == {[giveCash |-> 1, takeCash |-> 0, give |-> {}, take |-> {4}]}

\* Two estates and a card that opens the jail, for three players with little
\* money: one is in jail, one goes bankrupt and one bids.
SaleLot(group) == [Street(group) EXCEPT !.cost = 9]
SaleStreet == <<Tile("start"), Tile("jail"), SaleLot(3), Tile("parking"), SaleLot(5)>>
SaleCards == [chance |-> <<[kind |-> "jail_card", value |-> 0]>>]

\* Tiles of three ranks, and hands of a pair with a triplet or a run.
TileCodes == {"W1", "W2", "W3"}
TileCopies == [c \in TileCodes |-> 4]
TileHands == [TileCodes -> 0..4]
WinningHands ==
  [source \in {"self_draw", "discard", "rob_kong"} |->
    {b \in TileHands : \/ b["W2"] = 2 /\ b["W1"] + b["W3"] \in {0, 3} /\ b["W1"] # 1
                       \/ source = "rob_kong" /\ b["W1"] = 1}]

\* A star of one hole a side, for three seats, and of camps of two holes, for two.
TrioCorner == {<<1, -2>>}
DuelCorner == {<<1, -2>>, <<0, -2>>}

\* Planes of two cells, a head and a tail, on a strip of three.
Plane(head, direction) == [head |-> head, direction |-> direction]
ShortStrip == [q \in {Plane(1, "E"), Plane(2, "E"), Plane(2, "W"), Plane(3, "W")} |->
            IF q.direction = "E" THEN {q.head, q.head + 1} ELSE {q.head, q.head - 1}]

ShortDeck == <<1, 1, 2, 2, 3>>
FewPieces == [k \in {"k", "c"} |-> 1]

-----------------------------------------------------------------------------
Texas == INSTANCE TexasHoldem WITH Seats <- 3, InitialStack <- 5, SmallBlind <- 1,
  Stake <- 3, Openers <- {0}
Pole == INSTANCE Gandengyan WITH Seats <- 3, RankCount <- 4, Copies <- 1, Jokers <- 2,
  HandSize <- 1, MaxMultiplier <- 4, Stake <- 2
Gem == INSTANCE GemMerchant WITH Spiral <- JewelBoard, Rows <- 2, Columns <- 2,
  Gems <- {"red"}, Supply <- JewelSupply, Cards <- Jewels, ShownCount <- 2,
  Royals <- JewelRoyals, Thresholds <- {1, 3}, TokenLimit <- 2, MaxReserved <- 1,
  PrivilegeCount <- 2, WinPoints <- 4, WinCrowns <- 9, WinColorPoints <- 9
Dice == INSTANCE Yahtzee WITH Seats <- 2, Faces <- {1, 2},
  Categories <- {"ones", "full_house", "yahtzee"}, MaxRolls <- 2, UpperThreshold <- 3
Planes == INSTANCE Aeroplane WITH Start <- <<0, 3, 6>>, RingLength <- 9, LaneLength <- 1,
  Planes <- {1}, Sides <- 3, JumpSteps <- {1, 3}, JumpLength <- 2, ShortcutFrom <- 5,
  ShortcutCross <- 6, ShortcutTo <- 7
Estate == INSTANCE Monopoly WITH Seats <- 2, StartCash <- 3, Salary <- 1, Bail <- 1,
  Tiles <- Streets, Events <- Chances, Sides <- 2, DoublesToJail <- 2, JailTries <- 1,
  Hotel <- 2, Houses <- 2, Hotels <- 1, Terms <- Deals, OffersPerTurn <- 1, MaxTurns <- 3
Sale == INSTANCE Monopoly WITH Seats <- 3, StartCash <- 2, Salary <- 0, Bail <- 1,
  Tiles <- SaleStreet, Events <- SaleCards, Sides <- 2, DoublesToJail <- 2, JailTries <- 1,
  Hotel <- 2, Houses <- 2, Hotels <- 1, Terms <- {}, OffersPerTurn <- 0, MaxTurns <- 4
Mah == INSTANCE Mahjong WITH Seats <- 2, HandSize <- 4, Stake <- 1, Copies <- TileCopies,
  Runs <- {TileCodes}, Winning <- WinningHands
Draughts == INSTANCE Checkers WITH Rows <- 4, MenRows <- 1, Repetitions <- 2, IdleTurns <- 2
Trio == INSTANCE ChineseCheckers WITH Radius <- 1, Corner <- TrioCorner,
  Starts <- <<0, 2, 4>>, Wallets <- {0, 1}, Stake <- 2
Duel == INSTANCE ChineseCheckers WITH Radius <- 1, Corner <- DuelCorner,
  Starts <- <<0, 3>>, Wallets <- {0, 1}, Stake <- 2
-----------------------------------------------------------------------------
Init ==
  \/ game = "texas_holdem" /\ Texas!Init
  \/ game = "zhajinhua" /\ Golden!Init
  \/ game = "blackjack" /\ Dealer!Init
  \/ game = "liars_dice" /\ Liars!Init
  \/ game = "party_dice" /\ Party!Init
  \/ game = "doudizhu" /\ Landlord!Init
  \/ game = "gandengyan" /\ Pole!Init
  \/ game = "uno" /\ Colours!Init
  \/ game = "gem_merchant" /\ Gem!Init
  \/ game = "yahtzee" /\ Dice!Init
  \/ game = "aeroplane_chess" /\ Planes!Init
  \/ game = "train_cards" /\ Train!Init
  \/ game = "banqi" /\ Flipped!Init
  \/ game = "monopoly" /\ Estate!Init
  \/ game = "mahjong" /\ Mah!Init
  \/ game = "checkers" /\ Draughts!Init
  \/ game = "chinese_checkers" /\ Trio!Init
  \/ game = "chinese_checkers_2" /\ Duel!Init
  \/ game = "dots_boxes" /\ Dots!Init
  \/ game = "bomb_plane" /\ Bomb!Init
  \/ game = "rummikub" /\ Melding!Init

TexasStep == game = "texas_holdem" /\ Texas!Next /\ UNCHANGED game
GoldenStep == game = "zhajinhua" /\ Golden!Next /\ UNCHANGED game
DealerStep == game = "blackjack" /\ Dealer!Next /\ UNCHANGED game
LiarsStep == game = "liars_dice" /\ Liars!Next /\ UNCHANGED game
PartyStep == game = "party_dice" /\ Party!Next /\ UNCHANGED game
LandlordStep == game = "doudizhu" /\ Landlord!Next /\ UNCHANGED game
PoleStep == game = "gandengyan" /\ Pole!Next /\ UNCHANGED game
ColoursStep == game = "uno" /\ Colours!Next /\ UNCHANGED game
GemStep == game = "gem_merchant" /\ Gem!Next /\ UNCHANGED game
DiceStep == game = "yahtzee" /\ Dice!Next /\ UNCHANGED game
PlanesStep == game = "aeroplane_chess" /\ Planes!Next /\ UNCHANGED game
TrainStep == game = "train_cards" /\ Train!Next /\ UNCHANGED game
FlippedStep == game = "banqi" /\ Flipped!Next /\ UNCHANGED game
EstateStep == game = "monopoly" /\ Estate!Next /\ UNCHANGED game
MahStep == game = "mahjong" /\ Mah!Next /\ UNCHANGED game
DraughtsStep == game = "checkers" /\ Draughts!Next /\ UNCHANGED game
TrioStep == game = "chinese_checkers" /\ Trio!Next /\ UNCHANGED game
DuelStep == game = "chinese_checkers_2" /\ Duel!Next /\ UNCHANGED game
DotsStep == game = "dots_boxes" /\ Dots!Next /\ UNCHANGED game
BombStep == game = "bomb_plane" /\ Bomb!Next /\ UNCHANGED game
MeldingStep == game = "rummikub" /\ Melding!Next /\ UNCHANGED game

Over == IF game = "monopoly" THEN Estate!Over ELSE g.result.over

Done == Over /\ UNCHANGED vars

Next ==
  \/ TexasStep \/ GoldenStep \/ DealerStep \/ LiarsStep \/ PartyStep
  \/ LandlordStep \/ PoleStep \/ ColoursStep \/ GemStep \/ DiceStep
  \/ PlanesStep \/ TrainStep \/ FlippedStep \/ EstateStep \/ MahStep
  \/ DraughtsStep \/ TrioStep \/ DuelStep \/ DotsStep \/ BombStep \/ MeldingStep
  \/ Done

\* A game goes on: whoever is asked answers, or an NPC, the takeover worker or a
\* resignation does (rooms nobody touches are archived, which is Rooms' matter).
CappedStep == GoldenStep \/ TrainStep \/ FlippedStep \/ DraughtsStep \/ DotsStep
Spec == Init /\ [][Next]_vars /\ WF_vars(CappedStep)

\* The short street alone, for the run that shows an offer outlive its sale.
SaleStep == Sale!Next /\ UNCHANGED game
SaleSpec == game = "monopoly_sale" /\ Sale!Init /\ [][SaleStep]_vars

-----------------------------------------------------------------------------
\* Whoever a table asks is still playing and has something to answer, whatever was
\* folded, passed, challenged, skipped or lost before, and in every game but the two
\* named here whoever has resigned.  Exempt from having a move, not from being still
\* in the game: the leader of a gandengyan from which somebody has resigned
\* (gandengyan.py:857 looks for no lead), and a seat of a Chinese checkers table of
\* three or more, which the others may lock in.
AskedMayAct ==
  /\ game = "texas_holdem" => Texas!AskedMayAct
  /\ game = "zhajinhua" => Golden!AskedMayAct
  /\ game = "blackjack" => Dealer!AskedMayAct
  /\ game = "liars_dice" => Liars!AskedMayAct
  /\ game = "party_dice" => Party!AskedMayAct
  /\ game = "doudizhu" => Landlord!AskedMayAct
  /\ game = "gandengyan" => Pole!AskedMayAct
  /\ game = "uno" => Colours!AskedMayAct
  /\ game = "gem_merchant" => Gem!AskedMayAct
  /\ game = "yahtzee" => Dice!AskedMayAct
  /\ game = "aeroplane_chess" => Planes!AskedMayAct
  /\ game = "train_cards" => Train!AskedMayAct
  /\ game = "banqi" => Flipped!AskedMayAct
  /\ game = "monopoly" => Estate!AskedMayAct
  /\ game = "mahjong" => Mah!AskedMayAct
  /\ game = "checkers" => Draughts!AskedMayAct
  /\ game = "chinese_checkers" => Trio!AskedMayAct
  /\ game = "chinese_checkers_2" => Duel!AskedMayAct
  /\ game = "dots_boxes" => Dots!AskedMayAct
  /\ game = "bomb_plane" => Bomb!AskedMayAct
  /\ game = "rummikub" => Melding!AskedMayAct

\* A finished game names the winners its rules make winners, and settles as its
\* settlement_deltas promises.  Chips only move between the players of hold'em
\* (each loses one stake at most), zhajinhua (VirtualBudget stakes at most), both
\* liar's dice, doudizhu (2 * MaxMultiplier stakes won at most), gandengyan (stake,
\* multiplier and cards left, exactly), mahjong, train cards and dots and boxes.
\* Chinese checkers loses a stake of each wallet when no wallet wins; a blackjack
\* seat wins or loses against a house, in the order of the hands; rummikub has no
\* stake, and its penalties are never negative, and none after a leave.  Of uno,
\* aeroplane, the gem merchant, banqi and checkers, whose one winner takes the stakes
\* of the others (Rooms!WinnerTakes), and of Yahtzee, which has none, only the end
\* and its winner are asked; and of a uno with a resignation only that the winner
\* stayed, without a card or alone.
Settled ==
  /\ game = "texas_holdem" => Texas!Settled
  /\ game = "zhajinhua" => Golden!Settled
  /\ game = "blackjack" => Dealer!Settled
  /\ game = "liars_dice" => Liars!Settled
  /\ game = "party_dice" => Party!Settled
  /\ game = "doudizhu" => Landlord!Settled
  /\ game = "gandengyan" => Pole!Settled
  /\ game = "uno" => Colours!Settled
  /\ game = "gem_merchant" => Gem!Settled
  /\ game = "yahtzee" => Dice!Settled
  /\ game = "aeroplane_chess" => Planes!Settled
  /\ game = "train_cards" => Train!Settled
  /\ game = "banqi" => Flipped!Settled
  /\ game = "mahjong" => Mah!Settled
  /\ game = "checkers" => Draughts!Settled
  /\ game = "chinese_checkers" => Trio!Settled
  /\ game = "chinese_checkers_2" => Duel!Settled
  /\ game = "dots_boxes" => Dots!Settled
  /\ game = "rummikub" => Melding!Settled

\* Chips, cards, tiles, dice, tokens and estates are moved, never made or lost,
\* whatever is dealt, robbed, bid, reshuffled or given up.
NothingLost ==
  /\ game = "texas_holdem" => Texas!ChipsConserved
  /\ game = "zhajinhua" => Golden!PotBacked
  /\ game = "liars_dice" => Liars!CupsMatchCounts
  /\ game = "party_dice" => Party!LedgerBounded
  /\ game = "doudizhu" => Landlord!CardsConserved
  /\ game = "gandengyan" => Pole!CardsConserved
  /\ game = "uno" => Colours!CardsConserved
  /\ game = "gem_merchant" => Gem!TokensConserved
  /\ game = "train_cards" => Train!CardsConserved
  /\ game = "banqi" => Flipped!PoolMatchesBoard
  /\ game = "monopoly" => Estate!LedgerBounded
  /\ game = "mahjong" => Mah!TilesConserved
  /\ game = "rummikub" => Melding!TilesConserved

\* The rules between the pieces hold in every position: exclusive cells, even
\* building, hands of the right size, bids that can be paid, cards offered when
\* they can be played, scores that count the boxes, answers that tell the truth,
\* and no offer of the poker plugin that the poker engine
\* behind it would turn into a fold.
TableHonest ==
  /\ game = "texas_holdem" => Texas!NeverFoldedByEngine
  /\ game = "gandengyan" => Pole!PlaysOffered
  /\ game = "aeroplane_chess" => Planes!CellsExclusive
  /\ game = "train_cards" => Train!NoPairOnTrain
  /\ game = "monopoly" => Estate!BuiltEvenly /\ Estate!AuctionCovered
  /\ game = "mahjong" => Mah!HandsCount
  /\ game = "checkers" => Draughts!BoardHonest
  /\ game = "chinese_checkers" => Trio!BoardHonest
  /\ game = "chinese_checkers_2" => Duel!BoardHonest
  /\ game = "dots_boxes" => Dots!ScoresHonest
  /\ game = "bomb_plane" => Bomb!FleetsHonest

\* A game with a cap on rounds, moves or idle turns, or with pieces that only run
\* out, is over after enough moves, whatever is played.
Capped == {"zhajinhua", "train_cards", "banqi", "checkers", "dots_boxes"}
TablesEnd == game \in Capped ~> Over

\* A purchase that is offered is of an estate nobody owns.
OffersFreeEstate == Sale!OffersFreeEstate
=============================================================================
