------------------------------- MODULE Wallet -------------------------------
(* Wallets, the ledger and settlements (app/chips.py), as operators on the *)
(* database d of a write transaction.  A NULL column is the empty sequence.*)
EXTENDS Integers, Sequences, FiniteSets, FiniteSetsExt, SequencesExt, Functions

CONSTANTS
  Humans, Ais, Npcs,    \* participant_kind human, bound_machine, system_npc
  InitialBalance,       \* INITIAL_BALANCE
  CheckInAmount,        \* DAILY_CHECK_IN_AMOUNT
  BankruptcyThreshold,  \* BANKRUPTCY_THRESHOLD
  ResetBalance,         \* BANKRUPTCY_RESET_BALANCE
  CappedGames,          \* games whose losers pay what they own (ka_wu_xing)
  Banks,                \* games with allows_non_zero_sum_settlement
  GameDeltas            \* what a plugin may ask one seat to win or to pay

Subjects == Humans \cup Ais
Total(f, S) == MapThenSumSet(LAMBDA p : f[p], S)

----------------------------------------------------------------------------
(* One wallet and its ledger.                                              *)

NoWallet == [open |-> FALSE, balance |-> 0, bankruptcies |-> 0, badge |-> FALSE]
Line(key, amount, after) == [key |-> key, amount |-> amount, after |-> after]
Holds(d, s, key) == \E i \in DOMAIN d.ledger[s] : d.ledger[s][i].key = key
Noted(d, s, key, amount, after) ==
  [d EXCEPT !.ledger[s] = Append(@, Line(key, amount, after))]

Opened(d, s) ==
  IF d.wallet[s].open THEN d
  ELSE Noted([d EXCEPT !.wallet[s] = [open |-> TRUE, balance |-> InitialBalance,
                                      bankruptcies |-> 0, badge |-> FALSE]],
             s, <<"wallet_opened">>, InitialBalance, InitialBalance)

\* What a wallet holds; nobody's wallet is opened for a look.
Balance(d, s) == IF d.wallet[s].open THEN d.wallet[s].balance ELSE InitialBalance

Booked(d, s, amount, key) ==
  LET after == d.wallet[s].balance + amount
  IN Noted([d EXCEPT !.wallet[s].balance = after,
                     !.wallet[s].badge = @ /\ after < InitialBalance],
           s, key, amount, after)

\* What Done does to one wallet is done to each of S: no two of them meet.
Each(d, S, Done(_, _)) ==
  [d EXCEPT !.wallet = [s \in Subjects |-> IF s \in S THEN Done(d, s).wallet[s] ELSE @[s]],
            !.ledger = [s \in Subjects |-> IF s \in S THEN Done(d, s).ledger[s] ELSE @[s]]]

Recovered(d, s) ==
  LET w == d.wallet[s] IN w.open /\ w.bankruptcies > 0 /\ w.balance >= InitialBalance /\ ~w.badge

----------------------------------------------------------------------------
(* Stakes.  The purse of whoever opens a room is checked, never debited.   *)

MayStake(d, s, stake) ==
  LET others == {r \in DOMAIN d.rooms :
                   /\ d.rooms[r].status = "playing" /\ s \in ToSet(d.rooms[r].roster)}
      committed == MapThenSumSet(LAMBDA r : d.rooms[r].stake, others)
  IN stake = 0 \/ (Balance(d, s) > 0 /\ stake <= Balance(d, s) - committed)

\* What the seats are to win and to pay, if the result says so at all.
Settlement(asked) == [settles |-> TRUE, asked |-> asked]
Unsettled(t) == [settles |-> FALSE, asked |-> [p \in ToSet(t.roster) |-> 0]]

\* The settlement_deltas of a plugin cover every seat, whoever won; only a
\* bank's need not sum to zero.
Explicit(t) ==
  {asked \in [ToSet(t.roster) -> GameDeltas] : t.game \in Banks \/ Total(asked, ToSet(t.roster)) = 0}

\* Without them the winner of two seats takes the stake of the loser; a bank's
\* table never does without.
WinnerTakes(t) ==
  [p \in ToSet(t.roster) |-> IF p \in t.winners THEN t.stake ELSE -t.stake]

\* What a game that ends may say: a draw of two seats need not settle, a
\* table of more always does, and one that went stale never.
Settlements(t) ==
  LET duel == Len(t.roster) = 2 /\ t.game \notin Banks
  IN IF t.stake = 0 \/ t.reason = "stale_archive" THEN {Unsettled(t)}
     ELSE {Settlement(asked) : asked \in Explicit(t)}
          \cup (IF duel /\ Cardinality(t.winners) = 1 THEN {Settlement(WinnerTakes(t))} ELSE {})
          \cup (IF duel /\ t.winners = {} THEN {Unsettled(t)} ELSE {})

Seat(t, p) == CHOOSE i \in DOMAIN t.roster : t.roster[i] = p

\* cap_available_zero_sum_deltas: a loser pays at most what it owns, the
\* winners share the pool in proportion, the remainder by seat.
Capped(d, t, asked) ==
  LET seats == ToSet(t.roster)
      pay == [p \in seats |->
                IF asked[p] >= 0 THEN asked[p]
                ELSE IF p \in Npcs THEN asked[p]
                ELSE -Min({-asked[p], Max({0, Balance(d, p)})})]
      pool == -Total(pay, {p \in seats : pay[p] < 0})
      winners == {p \in seats : asked[p] > 0}
      share == [p \in seats |->
                  IF p \in winners THEN (pool * asked[p]) \div Total(asked, winners) ELSE pay[p]]
      rest == pool - Total(share, winners)
      Ahead(p) == {q \in winners : Seat(t, q) < Seat(t, p)}
  IN [p \in seats |->
        share[p] + (IF p \in winners /\ Cardinality(Ahead(p)) < rest THEN 1 ELSE 0)]

\* What is booked of it.
Deltas(d, t, asked) == IF t.game \in CappedGames THEN Capped(d, t, asked) ELSE asked

SettlementKey(r) == <<"duel_settlement", r>>

\* An NPC has no wallet; who is neither to win nor to pay gets no line.
Payers(t) == {p \in ToSet(t.roster) \cap Subjects : t.delta[p] # 0}
Written(d, r) == {p \in Payers(d.rooms[r]) : Holds(d, p, SettlementKey(r))}

\* Some lines of a settlement without the others: an error, nothing is booked.
Torn(d, r) ==
  /\ d.rooms[r].stake # 0 /\ d.rooms[r].settles /\ r \notin d.batches
  /\ Written(d, r) \notin {{}, Payers(d.rooms[r])}

\* Mutant: somebody who never had a wallet is left out.
SettledOpenOnly(d, r) ==
  LET t == d.rooms[r]
      Pay(e, p) == Booked(e, p, t.delta[p], SettlementKey(r))
  IN IF t.stake = 0 \/ ~t.settles \/ r \in d.batches THEN d
     ELSE Each([d EXCEPT !.batches = @ \cup {r}], {p \in Payers(t) : d.wallet[p].open}, Pay)

\* settle_duel_room and apply_participant_deltas, of a room that may have been
\* settled before: by its batch, or by lines from before there were batches.
Settled(d, r) ==
  LET t == d.rooms[r]
      open == Each(d, ToSet(t.roster) \cap Subjects, Opened)
      batch == [open EXCEPT !.batches = @ \cup {r}]
      Pay(e, p) == Booked(e, p, t.delta[p], SettlementKey(r))
  IN IF t.stake = 0 \/ ~t.settles \/ r \in d.batches THEN d
     ELSE IF Payers(t) # {} /\ Written(d, r) = Payers(t) THEN batch
     ELSE Each(batch, Payers(t), Pay)

----------------------------------------------------------------------------
(* The daily grant and bankruptcy.                                         *)

CheckInKey(day) == <<"daily_check_in", day>>

\* Mutant: the grant is given whenever it is asked for.
GrantedTwice(d, s, day) == Booked(Opened(d, s), s, CheckInAmount, CheckInKey(day))

Granted(d, s, day) ==
  LET e == Opened(d, s)
  IN IF Holds(e, s, CheckInKey(day)) THEN e
     ELSE Booked(e, s, CheckInAmount, CheckInKey(day))

ResetLine == <<"bankruptcy_reset">>
MayGoBankrupt(d, s) == Balance(d, s) <= BankruptcyThreshold

Reset(d, s) ==
  Noted([d EXCEPT !.wallet[s].balance = ResetBalance, !.wallet[s].bankruptcies = @ + 1,
                  !.wallet[s].badge = TRUE],
        s, ResetLine, ResetBalance - d.wallet[s].balance, ResetBalance)
=============================================================================
