# CedarDuet in TLA+

CedarDuet is a game hall: humans and their machines open rooms of thirty games,
stake chips, lend and exchange them, and system NPCs fill empty seats. It is
one FastAPI process over one SQLite file. This directory holds TLA+ modules
translated from `src/app`, the TLC configurations that check them on small
instances, and proofs checked by TLAPS for every instance.

Contents: 1 inventory, 2 modules, 3 runs, bounds and fairness, 4 proofs,
5 disagreements found, 6 observations without a run, 7 what is not modelled.

## 1. Inventory

How the parts interact: a route (`main.py`, `chips_routes.py`) validates a
request and calls ONE function of a domain module; the function opens
`write_transaction` (`database.py:992`, `BEGIN IMMEDIATE`), does everything,
and commits or rolls back. Background tasks of the same process (NPC
scheduler, takeover loop, dice-rush loop, wait loop) call the same functions.
There is no other shared state than the database, except the in-memory tables
of the schedulers and of `wait_control.py`. So **one transaction is one action
of a module**, and the hard behaviours are what happens between transactions:
the interleaving of clients, lazy maintenance done by whichever call comes
next, retries with idempotency keys, answers computed from a snapshot that is
stale when it is used, and restarts that lose the in-memory tables. The one
exception is `Waits`, whose tables live in one event loop: there a step is what
lies between two awaits.

| Part (src/app) | State it keeps | Operations | What is hard | What makes it correct |
|---|---|---|---|---|
| Loans (`loans.py`) | loans, revisions, operations, notices | create, counter, accept, close, repay, read, list | lazy expiry and accrual at arbitrary moments, rounding carried over, "now" older than the lock, retries | terms both agreed to; interest exact; chips conserved; notices match the turn |
| Exchanges (`exchanges.py`) | requests, operations, daily spend | create, confirm, reject, withdraw, read, list | deadlines, midnight, dissolved pairs, refusals that still commit | paid once, within the day's allowance |
| Rooms and invitations (`framework.py`, `invites.py`) | rooms, participants, confirmations, invites | create, answer, join, start, leave, move, review, resign, archive, retain, delete | members come and go in any order, two routes with different maintenance, a plugin decides who is next | always playable or reviewable; consent to stakes; books balance; revisions cover every change |
| Wallet, ledger, check-ins (`chips.py`) | wallets, ledger, settlement batches | open, change, settle, check in, bankruptcy | idempotency, half-present batches, rewards inside changes, a day read before the lock | the ledger explains the balance; a batch is whole |
| Achievements (`achievements.py`) | facts, unlocks, progress | record room, loan, check-in, bankruptcy; evaluate; backfill | a reward changes the wallet that is being evaluated | rewarded once, and exactly what the facts prove |
| NPC runtime, controller, scheduler (`npc_*.py`) | decision tickets, speech states, task table | reserve, complete, fail, play, count a turn, speak | two workers, crash between steps, leases, cancelled tasks, lost wakeups | one decision and one move per revision; every NPC turn is taken |
| Timeout takeover (`takeover.py`) | turn clock of an invite room | sweep, decide, play, reclaim | the player returns while the choice is made | never plays a turn that is not overdue; at most once for an empty room |
| Long wait (`wait_control.py`, `main.py`, `local_mcp.py`) | leases and tombstones, slots, wake events, event cursors | wait, supersede, cancel, finish, heartbeat | delayed duplicates, a full table, lost answers, restarts | a cancelled wait stays cancelled; nobody sleeps through news |
| Notifications (`notifications.py`, `web/`) | notices, unread revision, machine watermark | create, read, ack, list, consume | answers of two tabs out of order, an ack that races a new notice | the badge is a state that existed; what was never shown stays unread |
| Games (`app/games/*`) | board state JSON | validate, apply, resign, progress, result | claim windows, auctions, eliminations, side actions | whoever is asked can act; pieces are conserved; payouts balance; a capped game ends |
| Liars dice rush (`liars_dice_rush.py`) | challenge window | open, challenge, expire | the window of one room closes while two players answer | in `PartyDice` |
| Plugin contract, payload shaping, routes, gateway, UI, schema, personas, providers | none of their own, or external | format, proxy, migrate | - | left to the unit tests; what the other parts rely on is in their modules |

`PROJECT.json` lists all twenty-nine components with their status and, under
`hazards`, the lines where this code can go wrong in a way a test would hardly
reach, with the property that would catch it or the reason why none does.

## 2. Modules

Modules that are proved about (`Loans`, `Exchanges`, `Rooms`, `Npc`,
`NpcPromise`, the services `Wallet`, `Achievements`, `Purse`, `Waits`,
`Takeover`, `Notices` in `MCServices`, and the games of `Tables` in `MCGames`) use no
recursive operator. Beside a definition that models code stands, where a property needs one, its mutant: the same definition
with a plausible bug.

### Loans (`Loans`, `MCLoans`, `LoansProofs`)

One loan row per `LoanIds`: `status`, `party`, `offers` (the sequence of
`loan_revisions`), `awaiting`, `expires` and the accounting columns `debt`.
`ops` is `loan_operations`, `sent`/`unread` the notices. Actions: `Create`,
`Counter`, `Accept`, `Close`, `Repay`, `Retry` (a key already recorded),
`GetLoan`, `ListLoans`, `AckNotices`, `ExternalChange` (games and check-ins on
the same wallets), `Tick`. `RefreshRows` is `_refresh_one`: expiry, accrual and
overdue happen only inside a transaction. Each action picks a `now` at most
`Lag` behind the clock, because the code reads the time before it owns the
writer lock. `exact` is a history variable: principal x rate x seconds, never
rounded.

### Exchanges (`Exchanges`, `ServicesProofs`)

Requests between a human and bound machines. `CommitExpiry` is the expiry that
commits even when the call is refused; `Dissolve` is a request whose pair is no
longer bound; `Answer` a repeated call that only expires others.

### Rooms (`Rooms`, `MCRooms`, `RoomsProofs`, with `SumLemmas`)

One record `Row` per room id with the columns of `rooms`,
`room_participants`, `room_confirmations` and `room_invites` that any guard
reads. `Maintained` is `_maintain_rooms`; a call that would refuse after its
maintenance rolls it back and is a disabled action, and `Refresh` is every
call that commits only the maintenance. `PlayMove` is the framework half of a
move: the plugin (external, `Outcomes`) eliminates somebody, names any seated
successor, pauses for a review or ends the game; the framework ends an
NPC-only remainder, counts the unattended budget and books the settlement.
`Forfeit` is resign and leave of a playing room. A plugin that ends its game
settles it as it likes (`Settlements`: any amount of `GameDeltas` for each
participant, winners or none, with the sum zero unless its game has a bank,
`NonZeroSum`), also to the gain of who resigned: party liar's dice pays by points
(`games/liars_dice.py:786-788`). A game of two without a settlement of its own
(`CustomPayout`) pays the winner the stake or nothing (`Payouts`). Only when the
framework itself ends a game after a resignation do those out pay those seated
(`ForfeitDeltas`), which `FrameworkVerdict` is about. `paid` is the settlement
batch, NPC shares included; `agreed` and `external` are history.

### Npc (`Npc`, `NpcPromise`, `MCNpc`, `NpcProofs`)

The turns of one system NPC in one room, and the server processes that take
them. A worker is a process; `pc[w]` says what its task for the room does next,
one place per transaction or await of `_drain_room` and `run_current_npc_turn`
(`Check`, `Load`, `Begin`, `Reserve`, `Ask`, `Settle`, `Reread`, `Play`,
`Latest`, `Finish`, `Recheck`), so that a client, a timeout or another process
may act between any two. `seen`, `snap` and `answer` are the locals a pass
carries across those awaits; `again`, `retry` and `due` the scheduler's tables.
`Fumble` is a plugin or local strategy that raises, before a provider is asked, in
a forced move or while a lapsed ticket is recovered; it fails the ticket.
The registry lock is released before every await, so each of its sections is
part of one step. `ticket` is `npc_decisions`, `speech` the `npc_speech_states`
row, `claims` the speech tasks in flight. `Kill` loses a process; `Shutdown`
cancels its tasks, which fail what they hold. `OthersAct` is every other way
the room moves on. A lease or timer may end at any moment, which allows more
than the clock does. `asked`, `failed`, `counted` and `spoken` are history.

`NpcPromise` is what the tickets promise to a game, without processes: a
revision is decided once, the decision never changes, and the NPC plays that
decision at that revision or not at all. `Npc` implements it under the mapping
`decided <- Decided`, the actions of the completed tickets.

### Purse (`Wallet`, `Achievements`, `Purse`, `ServicesProofs`)

`Wallet` (chips.py) and `Achievements` (achievements.py) are operators on the
database record `d` of a write transaction: opened wallets, ledger lines with
their idempotency keys, settlement batches with capped and zero-sum deltas;
permanent facts, metrics computed from them, unlocks and the rewards they book.
`Purse` is the machine: one transaction at a time of the wallet, of a room or of
the loan service, each recording its facts and paying what they unlock, and the
backfill that every start runs. The day of a check-in is read before the
transaction (`asking`), so a call may be granted after midnight. Rooms, loans
and the shop are reduced to what they do to a purse; their own modules model
them. Where the code loops over wallets, subjects, pairs or rooms, the model
folds over the set (`UnlockedAll`, `EvaluatedAll`), or writes the independent
lines at once (`Each`: the opened wallets and the lines of one settlement touch
nobody else's). Capped payouts hand out the remainder in the order of the seats
(`Seat`). What a finished game asks of its seats is any member of `Settlements`:
explicit deltas, with winners or without, to the sum of zero unless the game is one
of `Banks`; the winner's stake of a table of two that says nothing; or no settlement.
`SettleAgain` is a second settlement of a finished room (`settle_duel_room` is called
by whoever finds one): a batch makes it do nothing, the lines that an older version
wrote without a batch (`Legacy`) only get one, and some of the lines without the
others (`Torn`, chips.py:437) are an error that books nothing. Openings are
recorded for the participants at the creation, as achievements.py:496 reads them.

### Takeover (`Takeover`, `ServicesProofs`)

The sweep of every second (`sync_turn`, `is_due`), the worker that decides on a
due turn while time passes, and its commit, which races the moves, out-of-turn
bets, resignations and reclaims of the players. `turnRevision`, `turnStarted`,
`reclaimed` are the columns of `room_invites`, `seen` the presence of each
player. A move may leave the turn with the same player, give it to an NPC or end
the game (`Over`). `assists`, `began` and `kept` are history.

### Waits (`Waits`, `WaitsProofs`)

The gateway's chain of requests (`call`, `gateway`, `flight`), the lease table
with its generations and tombstones (`entries`, `dead`, `live`), the server's
coroutines with their slots and wake events (`handler`, `rung`, `waiting`) and
the events an answer consumes (`log`, `cursor`). Requests arrive late, answers
are lost, the server restarts and forgets its table. Others move, resign or end the
game (`Finished`), each of which wakes the waiters; an archiving wakes nobody. No
property asks that events whose answer was lost be told again.

### Notices (`Notices`, `ServicesProofs`)

The notices of one subject. A human's browser applies the counts of responses
that arrive in any order, by revision, and reads by key, category or reference;
a machine is told of new notices once, by a watermark, and reads categories.

### Games (`Table`, twenty games, `Tables`, `MCGames`, `TablesProofs`, `GamesProofs`)

A game is a state record `g` with `Init` (the deal) and one action for each
move of its plugin, resignation included; `Table` holds the seats and the turn
order the plugins share. Data is reduced to what the rules tell apart:

| Modules | What stands for the data |
|---|---|
| `TexasHoldem`, `Zhajinhua` | a hand is how strong it is; the poker engine's own record of raises is kept beside the plugin's |
| `Blackjack` | a hand is its hard total, an ace, its number of cards |
| `LiarsDice`, `PartyDice` | a cup counts its faces; points in half units; the challenge window |
| `Doudizhu`, `Gandengyan`, `Uno` | hands count cards of a kind; patterns of one rank (doudizhu), of runs too (gandengyan) |
| `GemMerchant` | one row of cards, a small board of gems |
| `Yahtzee`, `BombPlane`, `DotsBoxes` | counts of faces; cells of a plane; edges of boxes |
| `Aeroplane`, `TrainCards` | steps of a route relative to the player; ranks of cards |
| `Monopoly` | queue of charges, debts, auctions, trades, houses |
| `Mahjong`, `Rummikub` | tiles counted by code, winning hands as a set; melds of the whole table |
| `Checkers`, `Banqi`, `ChineseCheckers` | small boards, a star of any radius; the shuffle of banqi drawn piece by piece |

`Tables` opens the games whose pieces are parameters: seats, stakes, decks,
boards and layouts are its CONSTANTS, with `GamesAssumption` on them. `MCGames`
adds the other games and the values of a small table, opens one game and plays
it to its end in every way. A property of
the run (`AskedMayAct`, `Settled`, `NothingLost`, `TableHonest`) is the
conjunction of what each game calls so in its own module: who is asked can
answer; the game names the winners of its rules and settles as its
`settlement_deltas` promises; no piece is made or lost; and the rules between the
pieces hold. What that is differs from game to game. `AskedMayAct` exempts from
having a move (never from being still in the game) the leader of a gandengyan from
which somebody resigned, and Chinese checkers of three. `Settled` asks that chips
only move between players of hold'em, zhajinhua, liar's dice, doudizhu, gandengyan,
mahjong, train cards and dots and boxes, each within its own multiple of the stake;
that Chinese checkers loses one stake of each wallet when none wins; that blackjack,
which plays against a house, orders the seats by their hands, and of its sum
nothing. Uno, aeroplane, the gem merchant, banqi and checkers have one winner, who
takes the others' stakes; of them, and of Yahtzee, which has no stake, the property
is about the end and the winner alone.
`SaleSpec` is one more table of Monopoly, on a short street.

### MCServices

Composes the services: `Exchanges`, `Purse` (`Till`) with games and with loans
and check-ins, `Waits` with one machine (`Alone`) and several (`Crowd`),
`Takeover` (`Clocked`), `Notices` (`Bell`). The initial state chooses the part;
the variables of the others rest. Every bound and every table of the parts is a
CONSTANT with its assumptions (`ServicesAssumption`, `PurseAssumption`,
`CatalogueAssumption`: an achievement takes at least one of what it counts, and
there is an NPC to defeat), given small values in `MCServices.cfg` and no value in the proofs.

## 3. Runs, bounds and fairness

| Run | Question | Instance and why it is enough |
|---|---|---|
| `loans_debt` | Is the interest exact, the debt balanced and each repayment recorded once, however calls are timed? | one debt over three days, denominator 4 so that every remainder occurs, cap on and off, three keys for partial repayments and retries |
| `loans_talk` | Do negotiation, expiry, notices and purses agree? | two proposals, two revisions, two keys, one open IOU allowed, a losing game |
| `loans_overdue` | Does being overdue block new borrowing? | expected violation, see 5 |
| `rooms_table` | The whole life of a room: playable, consented, balanced, covered by revisions, final when closed? | three seats, two NPCs, stake 0 or 1, an invite room, five revisions (a join, answers, a move, a departure, a review, an end), one chip that others spend |
| `rooms_review` | Can somebody always end a review? | expected violation, see 5 |
| `rooms_gap` | Is the pair limit kept by every transition? | expected violation, see 5 |
| `npc_workers` | Do two processes keep the promise of one decision, one move, one question? | two processes around one turn, stopped twice, one failing plugin: a lease lapses, a second process recovers, the first wakes up |
| `npc_live` | Does every NPC turn end, is each counted once, is stale speech dropped? | one process stopped once over three revisions, every silent turn owing a word |
| `services` | Are the services beside the rooms correct? | seven small parts, below |
| `games` | Does every game ask somebody who can act, name and pay whom its rules say, lose no piece, obey its rules and end? | twenty games with a few pieces each, played to the end in every way |
| `monopoly_sale` | Does a purchase offer only what nobody owns? | expected violation, see 5 |
| `takeover_reclaim` | Does a reclaim protect its revision? | expected violation, see 5 |

The parts of `services`: one human with two machines, two requests of two chips
around one midnight, purses of four (`DailyAllowance`, `PaidExactlyOnce`,
`NoticesMatch`); a purse with two games, or with a loan and the shop, a day's
end and a restart (`LedgerExplains`, `SettlementWhole`, `UnlockedIsProven`,
`RecoveryAwarded`); the waits of one machine through a restart, and of two with
one place in the table (`OneLiveWait`, `SleeperArmed`, `CancelIsFinal`); a clock
of four with a timeout of two and three revisions (`OneAssistUnwatched`,
`OnlyOverdueTaken`); and one browser or machine with few notices
(`UnreadHonest`).

Bounds only of the model: `MaxTime`, `Lag`, `MaxRevision`, `MaxExternal`,
`MaxCalls`, `MaxEvents`, `MaxRestarts`, `MaxChanges`, `MaxAnswers`, `MaxRounds`,
`MaxTurns`, the key and id sets and `AgeCap` (ages beyond the largest deadline
are equal). `MaxStops` and `MaxFumbles` bound failures. `NpcRounds`,
`MaxNpcActions`, `GlobalLimit`, `PairLimit`, `StaleAge`, `Retention` and
`InviteLife` are constants of the code given small values. Keys, ids and
interchangeable subjects are symmetric in the runs without liveness.
At the last revision the model of the NPC never gives it the turn (`Advance`),
so that `NpcMovesOn` is not about the edge of the model.

Deadlock is checked in `games`: a table that cannot go on before its end is a
deadlock. The other runs set `CHECK_DEADLOCK FALSE`: their
clocks and revisions end, and nobody has to call anything.

Fairness is assumed in two places. `LiveSpec` of `Npc` has weak fairness of what
the event loop of a process does by itself (`Work`), of its restart (`Start`,
whose supervisor is outside the code), of its retry timer (`RetryFires`) and of
the leases (`LeaseEnds`). asyncio runs every ready task, provider calls have a
time limit, and the two timers follow the clock. Nothing is assumed of clients.
After an exception of a plugin the task ends without a retry, and only a poll
or a restart brings it back: that is why `npc_live` has no fumble. `MCGames` has
weak fairness of the steps of a capped game (`CappedStep`: zhajinhua, train
cards, banqi, checkers, dots and boxes): a game goes on because whoever is
asked answers, or an NPC, the takeover worker or a resignation does; the
property `TablesEnd` is then that the rules' own caps end it. The games without
a cap promise no end and are not asked for one.

`NotOvercounted` is checked and proved for one process: with two, a move that one process
made and the other found made may reach `complete_npc_full_turn` at two
revisions of one ownership.

## 4. Proofs

TLAPS proves the theorems below for every value of the constants that satisfies
the assumptions of the module, each of which a run evaluates. Every inductive
invariant was first checked by TLC on the instance of its run; the two conjuncts
of the purse that range over all events and all numbers (`Counted`, `Fresh`)
were checked up to the largest number the instance reaches.

**Loans.** `TypeCorrect`, `DebtsBalanced` (`[]DebtAccounted`) and
`InterestIsExact` rest on `IInv`: types, `PartiesKnown` and `RowOK` of each row:
the columns balance, and the charged interest times the denominator plus the
carried remainder is the exact interest (or the cap was reached and the exact
interest is at least the cap). Exactness alone is not inductive: the carry must
be related to the unrounded sum, which is what `AccrueGood` shows of one
accrual, with the quotient and remainder lemmas `DivMod`, `SetCharged` and
`SetCapped`. `ConsentRecorded` (`[]ConsentedTerms`), `NoticesFollowTurn` and
`PayerAlwaysCovers` rest on `Talk`, that is `IInv` with whose turn it is
(`Turn`), who proposed what (`Invited`, `Proposed`) and that nothing of a loan
still negotiating is agreed (`NoEarlyConsent`). `StepTalks` goes through the
actions, each of which keeps `Talk` and covers what it pays.
`RepaymentsAddUp` (`[]RepaymentsRecorded`) rests on `Recorded`: the recorded
operations are finite, and the repayments recorded for a loan sum to the interest
and principal its row says were paid. A repayment adds an operation whose key is
new, so the sum grows by exactly what the row grows by (`AmountsGrow`), and every
other step records nothing of that loan. `ChipsAreConserved`
(`[]ChipsConserved`) rests on `Conserved`, which needs finitely many subjects
(`LoanAssumption`): a transfer is two updates of the sum over the purses that
cancel out, and a reward moves to a purse what counted as still to be granted.

**Exchanges.** `TypeCorrect`, `PaidOnce` and `NoticesTrue` rest on one
invariant: types, the two properties, and `Asking` (every unread
question is the one its request asked, so that answering removes it).
`AllowanceKept` (`[]DailyAllowance`) rests on `Allowed`: the ledger is finite and
its amounts are numbers; a confirmation is the only step that adds to it, one row
it did not hold, after comparing that day's sum with the allowance.

**Rooms.** `TypeCorrect`, `TablesPlayable`, `ConsentToStakes`, `BooksBalanced`,
`FrameworkJudges`, `RevisionsCover`, `TerminalsFinal`: every property of
`rooms_table`. `Inv` holds of each room a `RoomInv`: `Good` (the columns, distinct
seats, `Playable`), `Consents`, `Booked`. The properties are not inductive
alone. `Lobby` says what a room that has not started must satisfy so that
starting makes it playable; `LeftOut` that who has left is not active; consent must
hold from the answer on, before any stake is booked. That a settlement without a bank
sums to zero is a guard of the code for what a plugin asks, and a sum over the roster
for the two payouts the framework computes; that who has left pays when the framework
judges needs `LeftOut`. One lemma per action
proves the row; `OneRoom`, `NoMoney`, `LiveStep` and `BookedStep` lift a change
of one row to the hall. `Step` proves the invariant together with the two action
properties.

**SumLemmas.** A sum over a finite set is a recursive function; nothing about it
comes for free. `TotalType`, `TotalEmpty`, `TotalRemove`, `TotalUpdate`,
`TotalLevels` and `TotalZero` are proved by showing that the function exists,
and by an induction on the number of elements written with sets of naturals.
`AmountsGrow` and `NoAmounts` carry this to the sum of the amounts of a set of
records, which is how the ledger and the operations of a loan are counted.

**Npc.** `TypeCorrect`, `AskedOnceAlways` and `Refinement`
(`Spec => KeepsPromise`, the detailed machine implements `NpcPromise`), for any
number of processes, revisions and failures. `Inv` joins to the types `HoldsTurn`
(the revision a worker works on was the NPC's), `InHand` (a worker about to play
holds exactly the decision stored for its revision), `Stored` (a completed
ticket has a legal action) and `Accounted` (questions asked, failures and the
status of a ticket add up). `AskedOnce` does not say that a ticket free for
asking has already paid for its last question; and the refinement needs
`InHand`, because `Play` writes the worker's local answer while the promise
speaks of the stored one. `TicketSteps` lists the only ways a ticket changes,
`ProgressStep` the only ways a turn does, and `PromiseStep` maps each to
`Decide`, `NpcMoves`, `OthersAct` or a stutter. `NoStaleSpeechEver` rests on
`Timely`: turns are counted in order, and an attempt that is still reserved is
newer than every counted turn in which the NPC spoke; so whoever posts late has
lost its attempt. `NotOvercountedAlways` assumes one process (`OneProcess`).
Comparing the count with the ended turns is not inductive, because a pass counts
a revision it read earlier: `Ordered` says that the pass began after the last
count, while the NPC had the turn, and `CountedInTime` that the turns counted are
no more than those that ended by the last count. Between the two an ended turn
of the NPC is found (`EndingBetween`), which pays for the next count.

**Waits.** `OneWait` (`[]OneLiveWait`), `CancelledStays` (`CancelIsFinal`) and
`NoneSleepsThrough` (`[]SleeperArmed`), under `ConstantsOK` (finitely many machines
and calls, the limits are numbers, a call is not `0`). What makes a cancellation
final is not written in one place of the code: the entry of the call may be
replaced, expire or be lost in a restart. `Retired` says what remains true: a
cancelled call has no lease and is `Late`, because it is older than the server,
than the lease time or than the last entry of its machine. `Leased` says that the
leases which are not cancelled are exactly those the entries name, and `Served`
and `MovedOnce` that a handler or a move needed a lease once; so `Admission`, the
lemma on what the table accepts, lets no call begin twice. `ReplaceKeeps` and
`FinishKeeps` are the two ways an entry changes. For the sleepers `Wakes` describes
every step: who sleeps after it was rung, has no news, or slept before it while
nothing happened in the room but that somebody read.

**Services.** About `MCServices` for all its constants. `AssistsOnce` and
`OverdueOnly`: an empty table is played at most once, and never a turn that is
not overdue; `ClockPast` and `Unwatched` relate the presence of the players to
the time of the last assist. `OneLiveWaitEver`, `SleeperArmedEver` and
`CancelledForGood` carry the theorems of `WaitsProofs` to both instances, by
showing that the assumptions and the steps of each are those of `Waits`.
`UnreadHonestEver` rests on `BellInv`: neither the badge nor a response in flight
has a revision newer than the box's, so that the next change outdates them all
at once, and the watermark is a row of the box, so that what is created after a
machine was told lies above it.

**Purse.** `LedgerExplainsEver`, `SettlementWholeEver`, `RecoveryAwardedEver` and
`UnlockedIsProvenEver`. The inductive invariant `PurseKept` is about the database
between two transactions. `Account` of each wallet: each line carries the
balance on, the balance is the last one, no key but a bankruptcy's is booked
twice, bankruptcies are counted, and the badge is worn while no line after the
last of them is whole. `Rewarded`: what is unlocked is what was paid. `Counted`:
each bankruptcy has its event. `Fresh`: the keys of calls and loans to come are
free. `RoomsKept` and `SettledTables`: a finished room balances, and the lines
of its key are its deltas exactly when it is settled (for any deltas a game may ask,
`SettlementPayable`); a second settlement finds the batch or all of the lines, so
`SettleAgainKeeps` adds no line. `Judged`: whoever has
recovered has the award, unless the last line is one that evaluates nobody.
None of the properties is inductive alone: that a settlement is written whole
needs that its key was free, and that a key is free needs every other writer's
keys; that a recovery is awarded in the transaction needs `Rewarded`, because
the reward itself is a line and may be what makes a wallet whole. An evaluation
is a fold in an order nobody fixes, over rewards, subjects, pairs and rooms:
`RewardsExist`, and its like for the other folds, show that it is one step after
another, and `Calm` is what each step keeps, from one reward up to the backfill
of a restart (`BackSteps`). `Owed` says of the evidence (recorded games, events,
facts of loans) and of the awards that nothing is unlocked which is not proven,
and that nothing proven is locked except for the subjects and pairs still to be
evaluated; `Paid` is that nobody is left between two transactions. Evidence is
only ever added (`Grown`), and what it proves then only grows (`ProvenGrows`),
so an award never loses its proof; `NewsOf`, `MatchOwed`, `LoansOwed` and their
like show that a new fact can prove something only about the subjects and pairs
that its transaction evaluates: a game proves nothing about who was not seated,
a loan nothing about third parties. Three awards are not part of it (`Lapsed`):
the recovery has its own theorem; a common check-in day and a balanced score over
twenty games may both be upset by what happens later, while the award stays.
`CappedBalanced` proves that capped payouts sum to
zero: the remainder of the shares is less than the number of winners.

**Games.** `PlayerAskedMayAct`, `TableSettled`, `PiecesConserved` and
`ScoresAndAnswersTrue` state `AskedMayAct`, `Settled`, `NothingLost` and
`TableHonest` for the games named in `AskedGames`, `SettledGames`,
`ConservedGames` and `HonestGames`: zhajinhua, blackjack, liar's dice in both
forms, doudizhu, uno, banqi, dots and boxes, bomb plane, rummikub and train cards, for
any seats, stakes, ranks, deck, board and layout that `GamesAssumption` admits.
(Doudizhu has its three seats, banqi a board of one row of any length, rummikub the
instance of `Tables`: one copy, one joker, two tiles a hand and melds of two, of any
colours and numbers.) `TablesProofs` has for each game an invariant, that the deal
establishes it, that each action keeps it, and that it implies the properties;
`GamesProofs` carries them to `MCGames`. The properties are not inductive alone; what
each invariant adds is what the code relies on from one call to the next:

* zhajinhua (`GoldenInv`): the pot is the sum of contributions that are each within the
  budget, and two hands are live while the table is open. The winners then share what
  the others put in, and nobody loses more than a budget of stakes.
* blackjack (`DealerInv`): a status says what the hand is worth, and the turn is a
  playing hand's, or that of a natural when nobody plays on; so the outcomes follow from
  the hands, and the dealer draws only when all are done.
* liar's dice (`LiarsInv`, `PartyInv`): the bid that stands is not that of the player
  asked, and cups hold as many dice as are counted. In the party form each round has one
  winner and one loser and moves each within its bounds, so what was moved in all stays
  within the rounds played.
* doudizhu (`LandlordInv`): hands, bottom and played cards complete each rank; the seats
  bid in order; who passed on a trick sits between the cards to beat and the turn, so
  the lead returns to who played them; the multiplier is the base doubled by each bomb
  up to its cap (`DoublingExists`).
* uno (`ColoursInv`): every card is in one hand or pile; whoever can be caught, or is
  challenged, sits at the table and is not the player asked; a drawn card waits only
  while nothing is challenged; and a last card that waits for an answer was played
  legally by a player who still sits there, so whoever has an empty hand cannot be made
  to draw and wins, and who wins has stayed, without a card or alone. `ColoursMet`
  shows, for both directions of play, that the turn reaches a seat at the table and
  comes back to the same player only when no other is left.
* banqi (`FlippedInv`): the pool has as many of each piece as the board has face down,
  and an open table has a move for the player to move.
* dots and boxes (`DotsInv`): a box has an owner just when its edges are drawn, and an
  open board is not full.
* bomb plane (`BombInv`): every answer is what the other layout holds at the cell, whoever
  fired first is one shot ahead when the other has the turn, and a fleet still in play
  has a head nobody hit.
* rummikub (`MeldingInv`): every tile is in one rack, in the pool or in one meld, and who
  said to have no move sits behind everybody else in the order of turns, so that the
  table is blocked just when the turn would come to them.
* train cards (`TrainInv`): every card is at one place, of one pile or of the train
  (`TrainCounted`), no rank is twice on the train, and who is in the game has a card.
  `TrainTaken` gives the bijection from the places before a collection to those after
  it; `TrainInit` shows that dealing out a shuffled deck in turns leaves every card at
  one place.

The proofs found one property too strong: `Settled` of `PartyDice`, checked with two
seats, ordered the payouts as the points, which three seats refute. It now says what the
code pays: whoever is behind anybody loses the stake, the others lose nothing. What
`TableSettled` says of the sum and of the size of a payout is what `Settled` says of
each game (section 2): of blackjack, banqi, rummikub and uno nothing.

Model-checked only: what needs fairness (`NpcMovesOn`, `TablesEnd`), which the
prover cannot express; and the four properties of the other nine games. Of these,
texas hold'em (side pots), gandengyan, mahjong (winning hands), yahtzee and gem
merchant compute what they pay or offer by folds over patterns, whose result for
every input is an induction over data; monopoly, aeroplane chess, checkers and Chinese
checkers are checked on one small board, deck or route each, and their modules are not
parameters of `Tables`.

## 5. Disagreements found

* `loans_overdue`: a borrower with an overdue IOU can still have an earlier
  proposal accepted (README.md:751, `loans.py:702`).
* `rooms_review`: a classic liar's-dice table of machines stops at its first
  review, which only a human of the roster may confirm (README.md:254,
  docs/MCP_GUIDE.md:20, `framework.py:2849`).
* `rooms_gap`: `leave_room` does not check the pair limit when a waiting table
  shrinks to the pair (README.md:439, `framework.py:3603`).
* `monopoly_sale`: an interrupted purchase offers an estate that an auction has
  just sold to somebody else (`games/monopoly.py:73`, `:526`).
* `takeover_reclaim`: a sweep clears a reclaim although the revision has not
  moved since (`invites.py:273`, `takeover.py:148`).

## 6. Observed while modelling, without a run

* Texas hold'em: a fold may carry the engine to a showdown in which a side pot
  has no eligible player, and `max` of nothing refuses the fold
  (`game_evaluator.py:63` of the vendored engine, called at
  `games/texas_holdem.py:452`). The plugin avoids it for the resignation of a
  heads-up table (`:712`). `TexasHoldem!FoldNeverRefused` states what is missing.
* Gandengyan: a resignation hands the lead to a player without looking whether
  the hand admits one (`games/gandengyan.py:857`), while the rules promise to
  skip whoever cannot lead (`:360`). Uno: a resignation clears a pending wild
  draw four (`games/uno.py:729`), and the player who emptied a hand with it plays
  on with none (rules at `:105`). Liar's dice: "persisted dice of survivors"
  (`games/liars_dice.py:808`) holds of the counts, not of the cups.
  `MayAct`, `EmptyHandWins` and `OnlySurvivorsCounted` state these; of a table from
  which somebody has resigned the run asks only what holds there: the player asked
  has stayed, and so has uno's winner, without a card or alone.
* Chinese checkers has no pass: a blocked player can only resign.
* An invite room that finished live records no achievement fact, but the
  backfill of the next start does (`achievements.py:1556`, against `:434`,
  `:1511` and README.md:773).
* A side action moves the revision without carrying `reclaim_revision`
  (`framework.py:3271`; `games/liars_dice_rush.py:28` does carry it); a bet
  between a resignation and the next sweep hands the new actor the old clock;
  each edit of a bomb-plane set-up goes through the branch that restarts the
  clock of the turn (`framework.py:3267`).
* A decision cancelled by a shutdown fails its ticket, and the next process asks
  about the same revision again, although README.md:414 says never twice;
  `AskedOnce` therefore counts the failures.
* `consume_notifications` shows the oldest rows but calls the newer ones it left
  out "earlier" (`notifications.py:418`); reading a category marks a notice that
  arrived after the page was loaded (`notifications.py:230`).
* A move committed while its wait is cancelled is answered `wait_cancelled`;
  an archive by maintenance wakes nobody (the waiter learns at its heartbeat).
* Uncapped interest may outgrow SQLite's integers (`loans.py:432`); a refusal
  leaves the notices of the other invitees unread (`framework.py:2331`); a
  lobby may wait at a count the game admits (`framework.py:3643`).

## 7. Not modelled, and why

* **Parts of modelled components.** Rooms: side actions (bomb plane in
  `BombPlane`), dice-rush windows of a room, team selection, chat, demo tables.
  The limit of the hall is a guard (`BelowGlobal`) that no run asks about. Npc:
  SQLite errors, the building of a request, games that switch speech off, and
  the claim windows of dice rush, where a turn is not one participant's. Wallet:
  `change_balance`, which nothing calls. The achievement catalogue is modelled by
  its kinds of condition; the outcome `none` of a room without a winner
  (achievements.py:523) and the facts of transfers, trades and repayments
  (`authoritative_chip_change`, `:697`), which count only towards the line for a
  negative balance, are left out.
* **Games.** Chess, go, xiangqi, junqi, othello, jungle and gomoku: legal moves
  on full boards are data the checker cannot enumerate, and the turn and
  settlement around them are those of `Rooms`. Tic-tac-toe and connect four add
  nothing to the small boards modelled. Ka wu xing, guandan, four colour cards
  and monopoly plus are larger relatives of modelled games, whose turn machines
  (claims, climbing, charges) they share. The scoring of carcassonne is a
  computation on a graph of tiles without interleaving.
* **No protocol state.** NPC providers and personas, the plugin contract (what a
  plugin may answer is in `Rooms`), HTTP routes and identity, payload shaping,
  schema and migrations (one transaction is why one call is one action), the
  local gateway (its retrying call is in `Waits`), the web interface (how it
  applies unread states is in `Notices`), the vendored engines.
