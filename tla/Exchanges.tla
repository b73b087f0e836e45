----------------------------- MODULE Exchanges -----------------------------
(***************************************************************************)
(* Interaction exchanges between bound humans and machines                 *)
(* (app/exchanges.py): the initiator promises something off the platform   *)
(* and asks the other side, the payer, for chips; the payer confirms and   *)
(* the chips move, or rejects; the initiator may withdraw.                 *)
(*                                                                         *)
(* Every call is one write transaction that first expires EVERY request    *)
(* past its deadline.  A refusal raises inside the transaction and undoes  *)
(* that expiry too, except the refusal of a request whose pair is no       *)
(* longer bound: that one is committed as expired and refused afterwards.  *)
(* Whether the pair is bound is what the gateway's trusted headers said    *)
(* when the call arrived, so it is an input of the call.                   *)
(***************************************************************************)
EXTENDS Integers, FiniteSetsExt

CONSTANTS
  Humans, Ais,        \* wallet owners
  RequestIds,         \* request ids the run may allocate
  Keys,               \* idempotency keys
  Amounts,            \* chip amounts a request may ask for
  MaxPendingPerPair,  \* MAX_PENDING_PER_PAIR
  MaxDailySpend,      \* MAX_DAILY_PAYER_SPEND
  RequestLifetime,    \* instants a request stays open
  DayLength,          \* instants in a Shanghai calendar day
  InitialBalances,    \* balances a wallet may start with
  MaxTime,            \* bound: the clock
  Lag,                \* bound: how old a transaction's "now" may be
  Nobody              \* no party yet

Subjects == Humans \cup Ais
Times == 0..MaxTime
Pairs == (Humans \X Ais) \cup (Ais \X Humans)

ASSUME ExchangeAssumption ==
  /\ Humans \cap Ais = {} /\ Nobody \notin Subjects
  /\ Amounts \subseteq Nat \ {0} /\ InitialBalances \subseteq Int
  /\ MaxPendingPerPair \in Nat /\ MaxDailySpend \in Nat
  /\ RequestLifetime \in Nat \ {0} /\ DayLength \in Nat \ {0}
  /\ MaxTime \in Nat /\ Lag \in Nat

VARIABLES
  clock,        \* the wall clock
  balance,      \* chip_wallets.balance
  spending,     \* chip_ledger rows of kind exchange_out / exchange_in
  status,       \* exchange_requests.status, "none" while the id is free
  initiator, payer, amount, expires,  \* the immutable columns of a request
  completed,    \* completed_at, -1 while NULL
  ops,          \* exchange_operations
  sent, unread  \* notifications by (subject, event, request); the unread ones

request == <<initiator, payer, amount, expires>>
vars == <<clock, balance, spending, status, initiator, payer, amount, expires,
          completed, ops, sent, unread>>

Statuses == {"none", "pending", "completed", "rejected", "withdrawn", "expired"}
Kinds == {"create", "confirm", "reject", "withdraw"}

Day(t) == t \div DayLength
Now == {t \in Times : clock - Lag <= t /\ t <= clock}

Notice(to, r, event) == [to |-> to, request |-> r, event |-> event]
Asked(r) == Notice(payer[r], r, "created")
Outcome(r, event) == Notice(initiator[r], r, event)

----------------------------------------------------------------------------
(* Expiry.                                                                 *)

\* _expire_due looks at the requests of every pair, not only the caller's.
Overdue(now) == {r \in RequestIds : status[r] = "pending" /\ expires[r] <= now}

\* _expire_request: only a request that is still pending.
Expirable(r) == status[r] = "pending"

\* Mutant: a status the schema does not know.
ExpiredTypo(S) == [r \in RequestIds |-> IF r \in S THEN "timeout" ELSE status[r]]

\* The status column after the requests of S expired.
Expired(S) == [r \in RequestIds |-> IF r \in S THEN "expired" ELSE status[r]]

\* Mutant: the payer keeps being asked about a request that expired.
ExpiryClosesNothing(S) == {}

\* The invitations _expire_request marks read.
ExpiryCloses(S) == {Asked(r) : r \in S}

\* create_notification inserts an event key once; a read notice stays read.
Notify(opened, closed) ==
  /\ sent' = sent \cup opened
  /\ unread' = (unread \ closed) \cup (opened \ sent)

\* A transaction that expires the requests of S and changes nothing else.
CommitExpiry(S) ==
  /\ status' = Expired(S)
  /\ Notify({Outcome(r, "expired") : r \in S}, ExpiryCloses(S))
  /\ UNCHANGED <<clock, balance, spending, request, completed, ops>>

----------------------------------------------------------------------------
(* The operations.                                                         *)

Operation(s, key, kind, r) == [actor |-> s, key |-> key, kind |-> kind, request |-> r]

\* _existing_operation: another use of the key by this actor is refused, the
\* same use is answered without effect.
FreshKey(s, key) == ~\E o \in ops : o.actor = s /\ o.key = key
Replay(s, key, kind, r) == Operation(s, key, kind, r) \in ops

\* The pair may have at most MaxPendingPerPair open requests, both directions
\* together, counted after the expiry of this transaction.
RoomForRequest(s, other, now) ==
  Cardinality({r \in RequestIds : Expired(Overdue(now))[r] = "pending"
                 /\ {initiator[r], payer[r]} = {s, other}}) < MaxPendingPerPair

\* create_exchange_request.
Create(s, other, r, key, n, now) ==
  LET gone == Overdue(now)
  IN /\ FreshKey(s, key)
     /\ status[r] = "none"
     /\ RoomForRequest(s, other, now)
     /\ status' = [Expired(gone) EXCEPT ![r] = "pending"]
     /\ initiator' = [initiator EXCEPT ![r] = s]
     /\ payer' = [payer EXCEPT ![r] = other]
     /\ amount' = [amount EXCEPT ![r] = n]
     /\ expires' = [expires EXCEPT ![r] = now + RequestLifetime]
     /\ ops' = ops \cup {Operation(s, key, "create", r)}
     /\ Notify({Outcome(x, "expired") : x \in gone} \cup {Notice(other, r, "created")},
               ExpiryCloses(gone))
     /\ UNCHANGED <<clock, balance, spending, completed>>

\* The payer's balance under the writer lock.
Covers(s, n) == balance[s] > 0 /\ balance[s] >= n

\* _daily_exchange_spend: everything this wallet paid on that calendar day.
SpentOn(s, day) ==
  MapThenSumSet(LAMBDA e : e.amount,
                {e \in spending : e.wallet = s /\ e.kind = "out" /\ e.day = day})

\* Mutant: the allowance is judged before this payment is counted.
SpentAlready(s, n, day) == SpentOn(s, day) <= MaxDailySpend

WithinAllowance(s, n, day) == SpentOn(s, day) + n <= MaxDailySpend

Entry(s, r, kind, n, day) ==
  [wallet |-> s, request |-> r, kind |-> kind, amount |-> n, day |-> day]

\* The two balance changes of a confirmation.
Pay(r) == [balance EXCEPT ![payer[r]] = @ - amount[r], ![initiator[r]] = @ + amount[r]]

\* Mutant: the deadline is not looked at again when the payer answers.
AnswerableLate(r, now) == status[r] = "pending"

\* The request is still pending once the requests past `now` have expired.
Answerable(r, now) == status[r] = "pending" /\ r \notin Overdue(now)

\* confirm_exchange_request of a pair that is still bound.
Confirm(r, s, key, now) ==
  LET gone == Overdue(now) \ {r}
      day  == Day(now)
  IN /\ s = payer[r] /\ FreshKey(s, key)
     /\ Answerable(r, now)
     /\ Covers(s, amount[r])
     /\ WithinAllowance(s, amount[r], day)
     /\ balance' = Pay(r)
     /\ spending' = spending \cup {Entry(s, r, "out", amount[r], day),
                                   Entry(initiator[r], r, "in", amount[r], day)}
     /\ status' = [Expired(gone) EXCEPT ![r] = "completed"]
     /\ completed' = [completed EXCEPT ![r] = now]
     /\ ops' = ops \cup {Operation(s, key, "confirm", r)}
     /\ Notify({Outcome(x, "expired") : x \in gone} \cup {Outcome(r, "confirmed")},
               ExpiryCloses(gone) \cup {Asked(r)})
     /\ UNCHANGED <<clock, request>>

\* close_exchange_request of a pair that is still bound.
Close(r, s, kind, key, now) ==
  LET gone == Overdue(now) \ {r}
  IN /\ FreshKey(s, key)
     /\ \/ kind = "reject" /\ s = payer[r]
        \/ kind = "withdraw" /\ s = initiator[r]
     /\ Answerable(r, now)
     /\ status' = [Expired(gone) EXCEPT
                     ![r] = IF kind = "reject" THEN "rejected" ELSE "withdrawn"]
     /\ ops' = ops \cup {Operation(s, key, kind, r)}
     /\ Notify({Outcome(x, "expired") : x \in gone}
                 \cup (IF kind = "reject" THEN {Outcome(r, "rejected")} ELSE {}),
               ExpiryCloses(gone) \cup {Asked(r)})
     /\ UNCHANGED <<clock, balance, spending, request, completed>>

\* Confirming, closing or reading a request of a pair that is no longer bound
\* expires it; the call is refused, but only after the commit.
Dissolve(r, s, now) ==
  /\ s \in {payer[r], initiator[r]}
  /\ status[r] = "pending"
  /\ CommitExpiry(Overdue(now) \cup {r})

\* A repeated call, a call on a request already in the state it asks for, a
\* read of a bound pair's request: only the overdue requests expire.
Answer(r, s, kind, key, now) ==
  /\ \/ Replay(s, key, kind, r)
     \/ kind = "confirm" /\ s = payer[r] /\ status[r] = "completed"
     \/ kind = "reject" /\ s = payer[r] /\ status[r] = "rejected"
     \/ kind = "withdraw" /\ s = initiator[r] /\ status[r] = "withdrawn"
  /\ CommitExpiry(Overdue(now))

Get(r, s, now) == s \in {payer[r], initiator[r]} /\ CommitExpiry(Overdue(now))

\* list_exchange_requests also expires what the caller has pending with
\* somebody it is not bound to any more.
List(s, bound, now) ==
  CommitExpiry(Overdue(now) \cup
    {r \in RequestIds : /\ Expirable(r) /\ s \in {initiator[r], payer[r]}
                        /\ {initiator[r], payer[r]} \ {s} \subseteq Subjects \ bound})

\* ack_notifications of the exchange category.
AckNotices(s) ==
  /\ unread' = {n \in unread : n.to # s}
  /\ UNCHANGED <<clock, balance, spending, status, request, completed, ops, sent>>

Tick ==
  /\ clock < MaxTime
  /\ clock' = clock + 1
  /\ UNCHANGED <<balance, spending, status, request, completed, ops, sent, unread>>

----------------------------------------------------------------------------
(* The specification.                                                      *)

Init ==
  /\ clock = 0
  /\ balance \in [Subjects -> InitialBalances]
  /\ spending = {}
  /\ status = [r \in RequestIds |-> "none"]
  /\ initiator = [r \in RequestIds |-> Nobody]
  /\ payer = [r \in RequestIds |-> Nobody]
  /\ amount = [r \in RequestIds |-> 0]
  /\ expires = [r \in RequestIds |-> 0]
  /\ completed = [r \in RequestIds |-> -1]
  /\ ops = {} /\ sent = {} /\ unread = {}

Submit(now) ==
  \E pair \in Pairs, r \in RequestIds, key \in Keys, n \in Amounts :
    Create(pair[1], pair[2], r, key, n, now)

Respond(now) ==
  \E r \in RequestIds, s \in Subjects :
    \/ \E key \in Keys :
         \/ Confirm(r, s, key, now)
         \/ \E kind \in {"reject", "withdraw"} : Close(r, s, kind, key, now)
         \/ \E kind \in Kinds : Answer(r, s, kind, key, now)
    \/ Dissolve(r, s, now)
    \/ Get(r, s, now)

Next ==
  \/ \E now \in Now : Submit(now) \/ Respond(now)
  \/ \E now \in Now, s \in Subjects, bound \in SUBSET Subjects : List(s, bound, now)
  \/ \E s \in Subjects : AckNotices(s)
  \/ Tick

Spec == Init /\ [][Next]_vars

----------------------------------------------------------------------------
(* Correctness.                                                            *)

\* Every column of the schema keeps its type.
TypeOK ==
  /\ clock \in Times
  /\ balance \in [Subjects -> Int]
  /\ status \in [RequestIds -> Statuses]
  /\ initiator \in [RequestIds -> Subjects \cup {Nobody}]
  /\ payer \in [RequestIds -> Subjects \cup {Nobody}]
  /\ amount \in [RequestIds -> Amounts \cup {0}]
  /\ expires \in [RequestIds -> Nat]
  /\ completed \in [RequestIds -> Times \cup {-1}]

\* No payer spends more than the daily allowance on one calendar day, over all
\* counterparts together and however confirmations interleave with midnight.
DailyAllowance ==
  \A s \in Subjects, day \in {Day(t) : t \in Times} : SpentOn(s, day) <= MaxDailySpend

\* A request is completed exactly when its amount was booked once from the
\* payer and once to the initiator, on the same day, and never after its
\* deadline, even when the confirmation waits for the writer lock or another
\* call has yet to expire the request.
PaidExactlyOnce ==
  \A r \in RequestIds :
    LET rows == {e \in spending : e.request = r}
        day  == Day(completed[r])
    IN /\ rows = IF status[r] = "completed"
                   THEN {Entry(payer[r], r, "out", amount[r], day),
                         Entry(initiator[r], r, "in", amount[r], day)}
                   ELSE {}
       /\ status[r] = "completed" => completed[r] < expires[r]

\* The payer is only asked about a request that is open, and the initiator is
\* told exactly the outcome the request has.
NoticesMatch ==
  /\ \A n \in unread : n.event = "created" => status[n.request] = "pending"
  /\ \A r \in RequestIds :
       {n.event : n \in {x \in sent : x.request = r /\ x.event # "created"}} =
         CASE status[r] = "completed" -> {"confirmed"}
           [] status[r] \in {"rejected", "expired"} -> {status[r]}
           [] OTHER -> {}

============================================================================
