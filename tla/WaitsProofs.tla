---------------------------- MODULE WaitsProofs -----------------------------
(***************************************************************************)
(* For any number of machines, calls and slots, any lease and any number   *)
(* of lost, late, repeated or resumed requests and restarts: a call that   *)
(* was cancelled stays so, and of all calls of a machine one waits.        *)
(***************************************************************************)
EXTENDS Waits, FiniteSetTheorems, TLAPS

\* What the proofs ask of the constants.
ConstantsOK ==
  /\ IsFiniteSet(Players) /\ Other \notin Players
  /\ IsFiniteSet(Chains) /\ Chains \subseteq Nat \ {0}
  /\ Slots \in Nat /\ TableSize \in Nat /\ Lease \in Nat

Entries == [gen : Nat, lease : Chains \cup {0}]
Calls == [player : Players \cup {Other}, action : {"state", "move"}, gen : Nat]
Stages == {"none", "begun", "sleeping", "woken", "timed out"}
Events == [by : Chains \cup {NoWaiter}, to : SUBSET Players]

TableTypes ==
  /\ entries \in [Players -> Entries]
  /\ live \subseteq Chains /\ dead \subseteq Chains /\ running \subseteq Chains

Types ==
  /\ now \in Nat /\ started \in Nat /\ waiting \in Nat
  /\ TableTypes
  /\ call \in [Chains -> Calls]
  /\ gateway \in [Chains -> {"idle", "asking", "pausing", "closing", "done"}]
  /\ flight \in [Chains -> {"none", "first", "resume"}]
  /\ handler \in [Chains -> Stages]
  /\ log \in Seq(Events)

\* A call that has not begun has no request and no handler; one that has is
\* of a machine and not younger than the clock.
Begun ==
  \A c \in Chains :
    /\ call[c].gen <= now
    /\ gateway[c] = "idle" => /\ call[c].player = Other /\ call[c].gen = 0
                              /\ flight[c] = "none" /\ handler[c] = "none"
    /\ gateway[c] # "idle" => call[c].player \in Players /\ call[c].gen > 0

\* The leases that are not cancelled are those the entries name.
Leased ==
  /\ \A c \in live : /\ call[c].player \in Players
                     /\ entries[call[c].player] = [gen |-> call[c].gen, lease |-> c]
  /\ \A p \in Players : entries[p].lease # 0 => /\ entries[p].lease \in live
                                                /\ call[entries[p].lease].player = p

\* The generation is older than the server, than what the table keeps, or than
\* the last call of its machine.
Late(c) ==
  \/ call[c].gen < started
  \/ call[c].gen < Cutoff
  \/ call[c].gen <= entries[call[c].player].gen

\* What was cancelled has no lease and is too late to get one.
Retired ==
  \A c \in dead : c \notin live /\ call[c].player \in Players /\ Late(c)

Counted ==
  /\ \A p \in Players : entries[p].gen <= now
  /\ Cardinality(Present) <= TableSize

Leases == Leased /\ Retired /\ Counted

\* Every handler works under a lease it once had.
Served == \A c \in Chains : handler[c] # "none" => c \in running /\ c \in live \cup dead

Slotted == waiting = Cardinality(Holding) /\ waiting <= Slots

\* A call moves once, under its lease.
MovedOnce ==
  /\ \A i, j \in 1..Len(log) : log[i].by = log[j].by /\ log[i].by \in Chains => i = j
  /\ \A i \in 1..Len(log) : log[i].by \in Chains => log[i].by \in live \cup dead

Inv == Types /\ Begun /\ Leases /\ Served /\ Slotted /\ MovedOnce

-----------------------------------------------------------------------------
\* What every step of the table keeps.

SameCalls == call' = call /\ started' = started /\ now' \in {now, now + 1}

\* Nothing cancelled comes back, and whoever had a lease had one.
Kept ==
  /\ dead \subseteq dead' /\ live \cup dead \subseteq live' \cup dead'
  /\ live' \cap dead = {}

\* The entries a sweep leaves, and the leases it ends.
SweepGood ==
  /\ Swept \in [Players -> Entries]
  /\ \A p \in Players : \/ Swept[p] = entries[p] /\ p \notin Expired
                        \/ Swept[p] = NoEntry /\ p \in Expired /\ entries[p].gen < Cutoff
  /\ Ended \subseteq live
  /\ \A c \in Ended : call[c].gen < Cutoff
  /\ \A c \in live \ Ended : Swept[call[c].player] = entries[call[c].player]

LEMMA SweptFacts == ASSUME ConstantsOK, Types, Leased PROVE SweepGood
<1> USE DEF Types, TableTypes
<1>1. Swept \in [Players -> Entries]
  BY DEF Swept, NoEntry, Entries
<1>2. \A p \in Players : \/ Swept[p] = entries[p] /\ p \notin Expired
                         \/ Swept[p] = NoEntry /\ p \in Expired /\ entries[p].gen < Cutoff
  BY DEF Swept, Expired
<1>3. ASSUME NEW c \in Ended PROVE c \in live /\ call[c].gen < Cutoff
  <2>1. PICK p \in Expired : c = entries[p].lease /\ c # 0
    BY <1>3 DEF Ended
  <2>2. p \in Players /\ entries[p].gen < Cutoff
    BY <2>1 DEF Expired, Present
  <2>3. c \in live /\ call[c].player = p
    BY <2>1, <2>2 DEF Leased
  <2>4. entries[p] = [gen |-> call[c].gen, lease |-> c]
    BY <2>3 DEF Leased
  <2>. QED
    BY <2>2, <2>3, <2>4
<1>4. ASSUME NEW c \in live \ Ended PROVE Swept[call[c].player] = entries[call[c].player]
  <2>1. call[c].player \in Players /\ entries[call[c].player].lease = c /\ c # 0
    <3>1. /\ call[c].player \in Players
          /\ entries[call[c].player] = [gen |-> call[c].gen, lease |-> c]
      BY <1>4 DEF Leased
    <3>. QED
      BY <1>4, <3>1 DEF ConstantsOK
  <2>2. call[c].player \notin Expired
    BY <1>4, <2>1 DEF Ended
  <2>. QED
    BY <1>2, <2>1, <2>2
<1>. QED
  BY <1>1, <1>2, <1>3, <1>4 DEF SweepGood
SweptPresent == {q \in Players : Swept[q] # NoEntry}

LEMMA SweptCount ==
  ASSUME ConstantsOK, Types, Leases
  PROVE  /\ IsFiniteSet(SweptPresent) /\ Cardinality(SweptPresent) <= TableSize
         /\ IsFiniteSet(Present) /\ Cardinality(SweptPresent) \in Nat
<1>1. Present \subseteq Players /\ SweptPresent \subseteq Present
  BY DEF Present, SweptPresent, Swept
<1>2. IsFiniteSet(Present) /\ IsFiniteSet(SweptPresent)
  BY <1>1, FS_Subset DEF ConstantsOK
<1>3. Cardinality(SweptPresent) <= Cardinality(Present)
  BY <1>1, <1>2, FS_Subset
<1>4. Cardinality(SweptPresent) \in Nat /\ Cardinality(Present) \in Nat
  BY <1>2, FS_CardinalityType
<1>. QED
  BY <1>2, <1>3, <1>4 DEF Leases, Counted, ConstantsOK

\* Who was too late stays so when the clock goes on and the table is swept.
LEMMA StaysLate ==
  ASSUME ConstantsOK, Types, Leases, SameCalls, NEW c \in Chains, call[c].player \in Players,
         \/ Late(c)
         \/ c \in Ended,
         \/ Swept[call[c].player].gen <= entries'[call[c].player].gen
         \/ entries[call[c].player].gen <= entries'[call[c].player].gen,
         entries' \in [Players -> Entries]
  PROVE  Late(c)'
<1> DEFINE p == call[c].player
<1>1. SweepGood
  BY SweptFacts DEF Leases
<1>2. Cutoff <= Cutoff' /\ Cutoff \in Int /\ Cutoff' \in Int
  <2>1. now \in Nat /\ Lease \in Nat /\ (now' = now \/ now' = now + 1)
    BY DEF SameCalls, Types, ConstantsOK
  <2>. QED
    BY <2>1 DEF Cutoff
<1>3. /\ call' = call /\ started' = started /\ call[c].gen \in Nat
      /\ entries[p].gen \in Nat /\ entries'[p].gen \in Nat /\ Swept[p].gen \in Nat
  BY <1>1 DEF SameCalls, Types, TableTypes, SweepGood, Entries, Calls
<1>4. CASE c \in Ended
  BY <1>1, <1>2, <1>3, <1>4 DEF SweepGood, Late
<1>5. CASE Late(c)
  <2>1. CASE call[c].gen < started \/ call[c].gen < Cutoff
    BY <1>2, <1>3, <2>1 DEF Late
  <2>2. CASE call[c].gen <= entries[p].gen
    <3>1. Swept[p] = entries[p] \/ entries[p].gen < Cutoff
      BY <1>1 DEF SweepGood
    <3>. QED
      BY <1>2, <1>3, <2>2, <3>1 DEF Late
  <2>. QED
    BY <1>5, <2>1, <2>2 DEF Late
<1>. QED
  BY <1>4, <1>5

LEMMA TableSweeps ==
  ASSUME ConstantsOK, Types, Leases, SameCalls, running' \subseteq Chains,
         entries' = Swept, live' = live \ Ended, dead' = dead \cup Ended
  PROVE  TableTypes' /\ Leases' /\ Kept
<1>1. SweepGood
  BY SweptFacts DEF Leases
<1>2. /\ entries' = Swept /\ live' = live \ Ended /\ dead' = dead \cup Ended
      /\ running' \subseteq Chains /\ call' = call
  BY DEF SameCalls
<1>3. TableTypes'
  BY <1>1, <1>2 DEF SweepGood, Types, TableTypes
<1>4. Kept
  BY <1>1, <1>2 DEF Kept, SweepGood, Leases, Retired
<1>5. Leased'
  <2>1. ASSUME NEW c \in live'
        PROVE  /\ call[c].player \in Players
               /\ Swept[call[c].player] = [gen |-> call[c].gen, lease |-> c]
    <3>1. c \in live \ Ended
      BY <1>2, <2>1
    <3>. QED
      BY <1>1, <3>1 DEF SweepGood, Leases, Leased
  <2>2. ASSUME NEW p \in Players, Swept[p].lease # 0
        PROVE  Swept[p].lease \in live' /\ call[Swept[p].lease].player = p
    <3>1. Swept[p] = entries[p] /\ p \notin Expired
      BY <1>1, <2>2 DEF SweepGood, NoEntry
    <3>2. entries[p].lease \in live /\ call[entries[p].lease].player = p
      BY <2>2, <3>1 DEF Leases, Leased
    <3>3. entries[p].lease \notin Ended
      <4> SUFFICES ASSUME NEW q \in Expired, entries[p].lease = entries[q].lease PROVE FALSE
        BY DEF Ended
      <4>1. q \in Players /\ entries[q].lease # 0
        BY <2>2, <3>1 DEF Expired, Present
      <4>2. q = p
        BY <3>2, <4>1 DEF Leases, Leased
      <4>. QED
        BY <3>1, <4>2
    <3>. QED
      BY <1>2, <3>1, <3>2, <3>3
  <2>. QED
    BY <1>2, <2>1, <2>2 DEF Leased
<1>6. Retired'
  <2> SUFFICES ASSUME NEW c \in dead'
               PROVE  c \notin live' /\ call[c].player \in Players /\ Late(c)'
    BY <1>2 DEF Retired
  <2>1. c \in Chains /\ (c \in dead \/ c \in Ended)
    BY <1>2, <1>3 DEF TableTypes
  <2>2. c \notin live' /\ call[c].player \in Players
    BY <1>1, <1>2, <2>1 DEF SweepGood, Leases, Retired, Leased
  <2>3. Late(c) \/ c \in Ended
    BY <2>1 DEF Leases, Retired
  <2>4. Swept[call[c].player].gen <= entries'[call[c].player].gen /\ entries' \in [Players -> Entries]
    BY <1>1, <1>2, <2>2 DEF SweepGood, Entries
  <2>. QED
    BY <2>1, <2>2, <2>3, <2>4, StaysLate
<1>7. Counted'
  <2>1. \A p \in Players : Swept[p].gen <= now'
    <3>1. now \in Nat /\ (now' = now \/ now' = now + 1)
      BY DEF SameCalls, Types
    <3>2. \A p \in Players : Swept[p].gen <= now /\ Swept[p].gen \in Nat
      BY <1>1, <3>1 DEF SweepGood, NoEntry, Leases, Counted, Entries
    <3>. QED
      BY <3>1, <3>2
  <2>2. Present' = SweptPresent
    BY <1>2 DEF Present, SweptPresent
  <2>. QED
    BY <1>2, <2>1, <2>2, SweptCount DEF Counted
<1>. QED
  BY <1>3, <1>4, <1>5, <1>6, <1>7 DEF Leases
LEMMA SweepKeeps ==
  ASSUME ConstantsOK, Types, Leases, SameCalls, Sweep
  PROVE  TableTypes' /\ Leases' /\ Kept
BY TableSweeps DEF Sweep, Types, TableTypes

\* What a new wait (of c) and any other call (c is then 0) do to the entry of p.
Replaced(p, gen, c, older) ==
  /\ entries' = [Swept EXCEPT ![p] = [gen |-> gen, lease |-> c]]
  /\ live' = (live \ Superseded(p)) \cup ({c} \ {0})
  /\ dead' = dead \cup Superseded(p) \cup older
  /\ running' \in {running, running \cup ({c} \ {0})}

\* The call is as young as the entry, there is room, and it ends older ones.
Fits(p, gen, c, older) ==
  /\ gen \in Nat /\ gen <= now' /\ Swept[p].gen <= gen
  /\ Swept[p] = NoEntry => Cardinality(SweptPresent) < TableSize
  /\ \A d \in older : call[d].player = p /\ call[d].gen <= gen /\ d # c
  /\ c # 0 => c \notin live \cup dead /\ call[c].player = p /\ call[c].gen = gen

LEMMA ReplaceKeeps ==
  ASSUME ConstantsOK, Types, Leases, SameCalls, NEW p \in Players, NEW gen,
         NEW c \in Chains \cup {0}, NEW older \in SUBSET Chains,
         Fits(p, gen, c, older), Replaced(p, gen, c, older)
  PROVE  TableTypes' /\ Leases' /\ Kept /\ live' \subseteq live \cup {c}
<1>1. SweepGood
  BY SweptFacts DEF Leases
<1>2. /\ entries' = [Swept EXCEPT ![p] = [gen |-> gen, lease |-> c]]
      /\ live' = (live \ Superseded(p)) \cup ({c} \ {0})
      /\ dead' = dead \cup Superseded(p) \cup older
      /\ running' \in {running, running \cup ({c} \ {0})}
      /\ call' = call
  BY DEF Replaced, SameCalls
<1>3. /\ gen \in Nat /\ gen <= now' /\ Swept[p].gen <= gen
      /\ Swept[p] = NoEntry => Cardinality(SweptPresent) < TableSize
      /\ \A d \in older : call[d].player = p /\ call[d].gen <= gen /\ d # c
      /\ c # 0 => c \notin live \cup dead /\ call[c].player = p /\ call[c].gen = gen
  BY DEF Fits
<1>4. /\ entries' \in [Players -> Entries] /\ 0 \notin Chains
      /\ \A q \in Players : entries'[q] = IF q = p THEN [gen |-> gen, lease |-> c] ELSE Swept[q]
  BY <1>1, <1>2, <1>3 DEF SweepGood, Entries, ConstantsOK
<1>5. \A d \in Superseded(p) : \/ d \in Ended
                               \/ d = entries[p].lease /\ d # 0 /\ Swept[p] = entries[p]
  BY <1>1 DEF Superseded, SweepGood, NoEntry
<1>6. Superseded(p) \subseteq live
  BY <1>1, <1>5 DEF SweepGood, Leases, Leased
<1>7. TableTypes'
  BY <1>2, <1>4, <1>6 DEF Types, TableTypes
<1>8. Kept
  BY <1>2, <1>3, <1>6 DEF Kept, Leases, Retired
\* What stays live belongs to another machine.
<1>9. ASSUME NEW d \in live \ Superseded(p)
      PROVE  /\ d \in Chains /\ d # c /\ d \in live \ Ended
             /\ call[d].player \in Players \ {p} /\ call[d].player # p
             /\ Swept[call[d].player] = [gen |-> call[d].gen, lease |-> d]
  <2>1. d \in live \ Ended /\ d \in Chains /\ d # c /\ d # 0
    BY <1>3, <1>4, <1>9 DEF Superseded, Types, TableTypes
  <2>2. /\ call[d].player \in Players
        /\ entries[call[d].player] = [gen |-> call[d].gen, lease |-> d]
    BY <2>1 DEF Leases, Leased
  <2>3. Swept[call[d].player] = entries[call[d].player]
    BY <1>1, <2>1 DEF SweepGood
  <2>4. call[d].player # p
    <3> SUFFICES ASSUME call[d].player = p PROVE FALSE
      OBVIOUS
    <3>1. Swept[p].lease = d
      BY <2>2, <2>3
    <3>. QED
      BY <1>9, <2>1, <3>1 DEF Superseded
  <2>. QED
    BY <2>1, <2>2, <2>3, <2>4
<1>10. Leased'
  <2>1. ASSUME NEW d \in live'
        PROVE  /\ call[d].player \in Players
               /\ entries'[call[d].player] = [gen |-> call[d].gen, lease |-> d]
    <3>1. CASE d = c /\ c # 0
      BY <1>3, <1>4, <3>1
    <3>2. CASE d \in live \ Superseded(p)
      BY <1>4, <1>9, <3>2
    <3>. QED
      BY <1>2, <2>1, <3>1, <3>2
  <2>2. ASSUME NEW q \in Players, entries'[q].lease # 0
        PROVE  entries'[q].lease \in live' /\ call[entries'[q].lease].player = q
    <3>1. CASE q = p
      BY <1>2, <1>3, <1>4, <2>2, <3>1
    <3>2. CASE q # p
      <4>1. entries'[q] = Swept[q] /\ Swept[q] = entries[q] /\ q \notin Expired
        BY <1>1, <1>4, <2>2, <3>2 DEF SweepGood, NoEntry
      <4>2. entries[q].lease \in live /\ call[entries[q].lease].player = q
        BY <2>2, <4>1 DEF Leases, Leased
      <4>3. entries[q].lease \notin Superseded(p)
        <5> SUFFICES ASSUME entries[q].lease \in Superseded(p) PROVE FALSE
          OBVIOUS
        <5>1. CASE entries[q].lease \in Ended
          <6>1. PICK r \in Expired : entries[q].lease = entries[r].lease
            BY <5>1 DEF Ended
          <6>2. r \in Players
            BY <6>1 DEF Expired, Present
          <6>3. r = q
            BY <2>2, <4>1, <4>2, <6>1, <6>2 DEF Leases, Leased
          <6>. QED
            BY <4>1, <6>1, <6>3
        <5>2. CASE entries[q].lease = entries[p].lease
          <6>1. p = q
            BY <2>2, <4>1, <4>2, <5>2 DEF Leases, Leased
          <6>. QED
            BY <3>2, <6>1
        <5>. QED
          BY <1>5, <5>1, <5>2
      <4>. QED
        BY <1>2, <4>1, <4>2, <4>3
    <3>. QED
      BY <3>1, <3>2
  <2>. QED
    BY <1>2, <2>1, <2>2 DEF Leased
<1>11. Retired'
  <2> SUFFICES ASSUME NEW d \in dead'
               PROVE  d \notin live' /\ call[d].player \in Players /\ Late(d)'
    BY <1>2 DEF Retired
  <2>1. d \in Chains
    BY <1>7 DEF TableTypes
  <2>2. d \notin live'
    <3>1. d # c
      BY <1>2, <1>3, <1>4, <1>6, <2>1
    <3>2. CASE d \in older
      BY <1>2, <1>3, <1>9, <3>1, <3>2
    <3>. QED
      BY <1>2, <1>8, <3>1, <3>2 DEF Kept, Leases, Retired
  <2>3. call[d].player \in Players
    BY <1>2, <1>3, <1>6 DEF Leases, Retired, Leased
  <2>4. CASE d \in dead \/ d \in Ended
    <3>1. Swept[call[d].player].gen <= entries'[call[d].player].gen
      BY <1>1, <1>3, <1>4, <2>3 DEF SweepGood, Entries
    <3>. QED
      BY <1>4, <2>1, <2>2, <2>3, <2>4, <3>1, StaysLate DEF Leases, Retired
  <2>5. CASE d \in older \/ (d = entries[p].lease /\ d # 0 /\ Swept[p] = entries[p])
    <3>1. call[d].player = p /\ call[d].gen <= gen
      <4>1. CASE d \in older
        BY <1>3, <4>1
      <4>2. CASE d = entries[p].lease /\ d # 0 /\ Swept[p] = entries[p]
        <5>1. d \in live /\ call[d].player = p
          BY <4>2 DEF Leases, Leased
        <5>2. entries[p] = [gen |-> call[d].gen, lease |-> d]
          BY <5>1 DEF Leases, Leased
        <5>. QED
          BY <1>3, <4>2, <5>1, <5>2
      <4>. QED
        BY <2>5, <4>1, <4>2
    <3>. QED
      BY <1>2, <1>3, <1>4, <2>2, <2>3, <3>1 DEF Late
  <2>. QED
    BY <1>2, <1>5, <2>2, <2>3, <2>4, <2>5
<1>12. Counted'
  <2>1. \A q \in Players : entries'[q].gen <= now'
    <3>1. now \in Nat /\ (now' = now \/ now' = now + 1)
      BY DEF SameCalls, Types
    <3>2. \A q \in Players : Swept[q].gen <= now /\ Swept[q].gen \in Nat
      BY <1>1, <3>1 DEF SweepGood, NoEntry, Leases, Counted, Entries
    <3>. QED
      BY <1>3, <1>4, <3>1, <3>2
  <2>2. Present' \subseteq SweptPresent \cup {p} /\ (Swept[p] # NoEntry => p \in SweptPresent)
    BY <1>4 DEF Present, SweptPresent
  <2>3. /\ IsFiniteSet(SweptPresent) /\ Cardinality(SweptPresent) <= TableSize
        /\ Cardinality(SweptPresent) \in Nat
    BY SweptCount
  <2>4. /\ IsFiniteSet(SweptPresent \cup {p})
        /\ Cardinality(SweptPresent \cup {p}) =
             IF p \in SweptPresent THEN Cardinality(SweptPresent) ELSE Cardinality(SweptPresent) + 1
    BY <2>3, FS_AddElement
  <2>5. Cardinality(SweptPresent \cup {p}) <= TableSize
    BY <1>3, <2>2, <2>3, <2>4 DEF ConstantsOK
  <2>6. IsFiniteSet(Present') /\ Cardinality(Present') <= Cardinality(SweptPresent \cup {p})
    BY <2>2, <2>4, FS_Subset
  <2>7. Cardinality(Present') \in Nat /\ Cardinality(SweptPresent \cup {p}) \in Nat
    BY <2>4, <2>6, FS_CardinalityType
  <2>. QED
    BY <2>1, <2>5, <2>6, <2>7 DEF Counted, ConstantsOK
<1>13. live' \subseteq live \cup {c}
  BY <1>2
<1>. QED
  BY <1>7, <1>8, <1>10, <1>11, <1>12, <1>13 DEF Leases
LEMMA FinishKeeps ==
  ASSUME ConstantsOK, Types, Leases, SameCalls,
         NEW c \in Chains, call[c].player \in Players, Finish(c)
  PROVE  TableTypes' /\ Leases' /\ Kept /\ running' = running \ {c}
<1> DEFINE p == call[c].player
<1>1. running' = running \ {c} /\ call' = call /\ 0 \notin Chains
  BY DEF Finish, SameCalls, ConstantsOK
<1>2. \A q \in Players : entries[q].gen <= now'
  <2>1. now \in Nat /\ (now' = now \/ now' = now + 1)
    BY DEF SameCalls, Types
  <2>. QED
    BY <2>1 DEF Leases, Counted, Types, TableTypes, Entries
<1>3. CASE entries[p].lease # c
  <2>1. UNCHANGED <<entries, live, dead>>
    BY <1>3 DEF Finish
  <2>2. Retired'
    <3> SUFFICES ASSUME NEW d \in dead
                 PROVE  d \notin live /\ call[d].player \in Players /\ Late(d)'
      BY <1>1, <2>1 DEF Retired
    <3>1. d \in Chains /\ d \notin live /\ call[d].player \in Players /\ Late(d)
      BY DEF Leases, Retired, Types, TableTypes
    <3>2. entries[call[d].player].gen <= entries'[call[d].player].gen /\ entries' \in [Players -> Entries]
      BY <2>1, <3>1 DEF Types, TableTypes, Entries
    <3>. QED
      BY <3>1, <3>2, StaysLate
  <2>3. TableTypes' /\ Leased' /\ Kept
    BY <1>1, <2>1 DEF Types, TableTypes, Leases, Leased, Kept, Retired
  <2>4. Counted'
    BY <1>2, <2>1 DEF Leases, Counted, Present
  <2>. QED
    BY <1>1, <2>2, <2>3, <2>4 DEF Leases
<1>4. CASE entries[p].lease = c
  <2>1. /\ entries' = [entries EXCEPT ![p].lease = 0]
        /\ live' = live \ {c} /\ dead' = dead \cup {c}
    BY <1>4 DEF Finish
  <2>2. entries[p] = [gen |-> call[c].gen, lease |-> c] /\ c \in live
    BY <1>1, <1>4 DEF Leases, Leased
  <2>3. /\ entries' \in [Players -> Entries]
        /\ \A q \in Players : /\ entries'[q].gen = entries[q].gen
                              /\ q # p => entries'[q] = entries[q]
                              /\ q = p => entries'[q].lease = 0
    BY <2>1 DEF Types, TableTypes, Entries
  <2>4. TableTypes' /\ Kept
    BY <1>1, <2>1, <2>2, <2>3 DEF Types, TableTypes, Kept, Leases, Retired
  <2>5. Leased'
    <3>1. ASSUME NEW d \in live'
          PROVE  /\ call[d].player \in Players
                 /\ entries'[call[d].player] = [gen |-> call[d].gen, lease |-> d]
      <4>1. d \in live /\ d # c
        BY <2>1, <3>1
      <4>2. /\ call[d].player \in Players
            /\ entries[call[d].player] = [gen |-> call[d].gen, lease |-> d]
        BY <4>1 DEF Leases, Leased
      <4>3. call[d].player # p
        BY <1>4, <4>1, <4>2
      <4>. QED
        BY <2>3, <4>2, <4>3
    <3>2. ASSUME NEW q \in Players, entries'[q].lease # 0
          PROVE  entries'[q].lease \in live' /\ call[entries'[q].lease].player = q
      <4>1. q # p /\ entries'[q] = entries[q]
        BY <2>3, <3>2
      <4>2. entries[q].lease \in live /\ call[entries[q].lease].player = q
        BY <3>2, <4>1 DEF Leases, Leased
      <4>. QED
        BY <2>1, <4>1, <4>2
    <3>. QED
      BY <1>1, <3>1, <3>2 DEF Leased
  <2>6. Retired'
    <3> SUFFICES ASSUME NEW d \in dead'
                 PROVE  d \notin live' /\ call[d].player \in Players /\ Late(d)'
      BY <1>1 DEF Retired
    <3>1. CASE d = c
      <4>1. call[c].gen <= entries'[p].gen
        BY <2>2, <2>3 DEF Types, Calls
      <4>. QED
        BY <1>1, <2>1, <3>1, <4>1 DEF Late
    <3>2. CASE d # c
      <4>1. d \in Chains /\ d \notin live /\ call[d].player \in Players /\ Late(d)
        BY <2>1, <3>2 DEF Leases, Retired, Types, TableTypes
      <4>2. entries[call[d].player].gen <= entries'[call[d].player].gen
        BY <2>3, <4>1 DEF Types, TableTypes, Entries
      <4>. QED
        BY <2>1, <2>3, <4>1, <4>2, StaysLate
    <3>. QED
      BY <3>1, <3>2
  <2>7. Counted'
    <3>1. Present' \subseteq Present
      BY <1>1, <2>2, <2>3 DEF Present, NoEntry, Leases, Leased
    <3>2. IsFiniteSet(Present) /\ Cardinality(Present) <= TableSize
      BY SweptCount DEF Leases, Counted
    <3>3. IsFiniteSet(Present') /\ Cardinality(Present') <= Cardinality(Present)
      BY <3>1, <3>2, FS_Subset
    <3>4. Cardinality(Present') \in Nat /\ Cardinality(Present) \in Nat
      BY <3>2, <3>3, FS_CardinalityType
    <3>. QED
      BY <1>2, <2>3, <3>2, <3>3, <3>4 DEF Counted, ConstantsOK
  <2>. QED
    BY <1>1, <2>4, <2>5, <2>6, <2>7 DEF Leases
<1>. QED
  BY <1>3, <1>4

\* The table rests, and the clock may go on.
LEMMA RestKeeps ==
  ASSUME ConstantsOK, Types, Leases, SameCalls, UNCHANGED <<entries, live, dead>>
  PROVE  Leases' /\ Kept
<1>1. Retired'
  <2> SUFFICES ASSUME NEW d \in dead
               PROVE  d \notin live /\ call[d].player \in Players /\ Late(d)'
    BY DEF Retired, SameCalls
  <2>1. d \in Chains /\ d \notin live /\ call[d].player \in Players /\ Late(d)
    BY DEF Leases, Retired, Types, TableTypes
  <2>2. entries[call[d].player].gen <= entries'[call[d].player].gen /\ entries' \in [Players -> Entries]
    BY <2>1 DEF Types, TableTypes, Entries
  <2>. QED
    BY <2>1, <2>2, StaysLate
<1>2. Leased' /\ Kept
  BY DEF Leases, Leased, Kept, Retired, SameCalls
<1>3. Counted'
  <2>1. now \in Nat /\ (now' = now \/ now' = now + 1)
    BY DEF SameCalls, Types
  <2>2. \A q \in Players : entries[q].gen <= now'
    BY <2>1 DEF Leases, Counted, Types, TableTypes, Entries
  <2>. QED
    BY <2>2 DEF Leases, Counted, Present
<1>. QED
  BY <1>1, <1>2, <1>3 DEF Leases

\* Whoever the table admits as a new wait has never had a lease.
LEMMA Admission ==
  ASSUME ConstantsOK, Types, Leases, NEW c \in Chains, call[c].player \in Players,
         ~Refused(call[c].player, call[c].gen)
  PROVE  /\ Swept[call[c].player].gen <= call[c].gen
         /\ Replaces(call[c].player, call[c].gen) => c \notin live \cup dead
         /\ Resumes(call[c].player, call[c].gen, c) => c \in live /\ c \notin running
<1> DEFINE p == call[c].player
<1>1. SweepGood
  BY SweptFacts DEF Leases
<1>2. /\ call[c].gen \in Nat /\ started \in Nat /\ Cutoff \in Int
      /\ Swept[p].gen \in Nat /\ entries[p].gen \in Nat
  BY <1>1 DEF SweepGood, Entries, Types, TableTypes, Calls, Cutoff, ConstantsOK
<1>3. started <= call[c].gen /\ Cutoff <= call[c].gen /\ Swept[p].gen <= call[c].gen
  BY <1>2 DEF Refused
<1>4. Swept[p] = entries[p] \/ entries[p].gen < Cutoff
  BY <1>1 DEF SweepGood
<1>5. ASSUME call[c].gen # Swept[p].gen PROVE c \notin live /\ c \notin dead
  <2>1. entries[p].gen < call[c].gen
    BY <1>2, <1>3, <1>4, <1>5
  <2>2. c \notin live
    <3> SUFFICES ASSUME c \in live PROVE FALSE
      OBVIOUS
    <3>1. entries[p] = [gen |-> call[c].gen, lease |-> c]
      BY DEF Leases, Leased
    <3>. QED
      BY <1>2, <2>1, <3>1
  <2>3. ~Late(c)
    BY <1>2, <1>3, <2>1 DEF Late
  <2>. QED
    BY <2>2, <2>3 DEF Leases, Retired
<1>6. ASSUME Swept[p].lease = c PROVE c \in live
  <2>1. Swept[p] = entries[p]
    BY <1>1, <1>6 DEF SweepGood, NoEntry, ConstantsOK
  <2>. QED
    BY <1>6, <2>1 DEF Leases, Leased, ConstantsOK
<1>. QED
  BY <1>3, <1>5, <1>6 DEF Replaces, Resumes
-----------------------------------------------------------------------------
\* Steps: what each keeps, with the table's part given.

ProtocolTypes ==
  /\ gateway \in [Chains -> {"idle", "asking", "pausing", "closing", "done"}]
  /\ flight \in [Chains -> {"none", "first", "resume"}]
  /\ handler \in [Chains -> Stages]

\* A chain that has begun goes on; the others wait.
Proceeds(c) ==
  /\ gateway[c] # "idle" /\ gateway'[c] # "idle"
  /\ \A d \in Chains \ {c} : /\ gateway'[d] = gateway[d] /\ flight'[d] = flight[d]
                             /\ handler'[d] = handler[d]

TableKept == TableTypes' /\ Leases' /\ Kept

LEMMA BegunKeeps ==
  ASSUME Types, Begun, SameCalls, NEW c \in Chains, Proceeds(c)
  PROVE  Begun'
<1>1. now \in Nat /\ (now' = now \/ now' = now + 1) /\ call' = call
  BY DEF SameCalls, Types
<1>2. \A d \in Chains : call[d].gen \in Nat
  BY DEF Types, Calls
<1>. QED
  BY <1>1, <1>2 DEF Begun, Proceeds

\* An event is added that no call wrote, or a call that had no lease.
LEMMA AppendKeeps ==
  ASSUME ConstantsOK, Types, MovedOnce, Kept, NEW c \in Chains \cup {NoWaiter},
         NEW to \in SUBSET Players, Write(c, to),
         c \notin live \cup dead, c \in Chains => c \in live'
  PROVE  log' \in Seq(Events) /\ MovedOnce'
<1>1. log' = Append(log, [by |-> c, to |-> to]) /\ [by |-> c, to |-> to] \in Events
  BY DEF Write, Events
<1>2. log \in Seq(Events) /\ Len(log) \in Nat
  BY DEF Types
<1>3. /\ log' \in Seq(Events) /\ Len(log') = Len(log) + 1
      /\ \A i \in 1..Len(log) : log'[i] = log[i]
      /\ log'[Len(log) + 1].by = c
  BY <1>1, <1>2
<1>4. \A i \in 1..Len(log) : log[i].by # c \/ c \notin Chains
  BY DEF MovedOnce
<1>5. \A i \in 1..Len(log') : i \in 1..Len(log) \/ i = Len(log) + 1
  BY <1>2, <1>3
<1>6. ASSUME NEW i \in 1..Len(log'), NEW j \in 1..Len(log'),
             log'[i].by = log'[j].by, log'[i].by \in Chains
      PROVE  i = j
  BY <1>3, <1>4, <1>5, <1>6 DEF MovedOnce
<1>7. ASSUME NEW i \in 1..Len(log'), log'[i].by \in Chains
      PROVE  log'[i].by \in live' \cup dead'
  BY <1>3, <1>5, <1>7 DEF MovedOnce, Kept
<1>. QED
  BY <1>3, <1>6, <1>7 DEF MovedOnce

LEMMA SlotFacts ==
  ASSUME ConstantsOK, Types, Slotted
  PROVE  /\ Holding \subseteq Chains /\ IsFiniteSet(Holding)
         /\ waiting = Cardinality(Holding) /\ waiting <= Slots
<1>1. Holding \subseteq Chains
  BY DEF Holding
<1>. QED
  BY <1>1, FS_Subset DEF ConstantsOK, Slotted

\* No handler moves.
LEMMA QuietKeeps ==
  ASSUME ConstantsOK, Inv, TableKept, SameCalls, ProtocolTypes', Begun',
         UNCHANGED <<running, handler, waiting, log>>
  PROVE  Inv' /\ CancelKept
<1> USE DEF Inv, TableKept
<1>1. Types'
  BY DEF Types, ProtocolTypes, SameCalls
<1>2. Served'
  BY DEF Served, Kept
<1>3. Slotted'
  <2>1. Holding' = Holding
    BY DEF Holding
  <2>. QED
    BY <2>1 DEF Slotted
<1>4. MovedOnce'
  BY DEF MovedOnce, Kept
<1>5. CancelKept
  BY DEF CancelKept, Kept, Types, TableTypes
<1>. QED
  BY <1>1, <1>2, <1>3, <1>4, <1>5

\* A handler answers and leaves; who consumes events has a lease.
LEMMA AnswerKeeps ==
  ASSUME ConstantsOK, Inv, TableKept, SameCalls, ProtocolTypes',
         NEW c \in Chains, Proceeds(c), handler[c] # "none",
         running' = running \ {c}, handler' = [handler EXCEPT ![c] = "none"],
         waiting' = IF handler[c] = "begun" THEN waiting ELSE waiting - 1,
         log' = log, cursor' = cursor \/ c \in live
  PROVE  Inv' /\ CancelKept
<1> USE DEF Inv, TableKept
<1>1. \A d \in Chains : handler'[d] = IF d = c THEN "none" ELSE handler[d]
  BY DEF Types
<1>2. Slotted' /\ waiting' \in Nat
  <2>1. /\ Holding \subseteq Chains /\ IsFiniteSet(Holding)
        /\ waiting = Cardinality(Holding) /\ waiting <= Slots
    BY SlotFacts
  <2>2. Holding' = Holding \ {c} /\ (c \in Holding <=> handler[c] # "begun")
    BY <1>1 DEF Holding, Types, Stages
  <2>3. Cardinality(Holding') = IF c \in Holding THEN Cardinality(Holding) - 1 ELSE Cardinality(Holding)
    BY <2>1, <2>2, FS_RemoveElement
  <2>4. waiting' = Cardinality(Holding') /\ waiting \in Nat /\ Slots \in Nat
    BY <2>1, <2>2, <2>3 DEF Types, ConstantsOK
  <2>5. Cardinality(Holding') \in Nat
    <3>1. IsFiniteSet(Holding')
      BY <2>1, <2>2, FS_Subset
    <3>. QED
      BY <3>1, FS_CardinalityType
  <2>6. waiting' <= Slots
    BY <2>1, <2>4
  <2>. QED
    BY <2>4, <2>5, <2>6 DEF Slotted
<1>3. Types'
  BY <1>2 DEF Types, ProtocolTypes, SameCalls
<1>4. Begun'
  BY BegunKeeps
<1>5. Served'
  BY <1>1 DEF Served, Kept
<1>6. MovedOnce'
  BY DEF MovedOnce, Kept
<1>7. CancelKept
  <2>1. c \in live => c \notin dead
    BY DEF Leases, Retired
  <2>. QED
    BY <1>1, <2>1 DEF CancelKept, Kept, Types, TableTypes
<1>. QED
  BY <1>2, <1>3, <1>4, <1>5, <1>6, <1>7

StageMoves(c, stage) ==
  /\ handler[c] # "none" /\ handler' = [handler EXCEPT ![c] = stage]
  /\ stage \in {"sleeping", "woken", "timed out"}
  /\ UNCHANGED <<running, log>>
  /\ \/ handler[c] = "begun" /\ waiting < Slots /\ waiting' = waiting + 1
     \/ handler[c] # "begun" /\ waiting' = waiting

\* A handler goes from one stage to another, and may take a slot.
LEMMA StageKeeps ==
  ASSUME ConstantsOK, Inv, TableKept, SameCalls, ProtocolTypes',
         NEW c \in Chains, Proceeds(c),
         NEW stage, StageMoves(c, stage)
  PROVE  Inv' /\ CancelKept
<1>1. /\ handler[c] # "none" /\ log' = log /\ running' = running
      /\ \A d \in Chains : handler'[d] = IF d = c THEN stage ELSE handler[d]
      /\ stage \in {"sleeping", "woken", "timed out"}
      /\ waiting' = IF handler[c] = "begun" THEN waiting + 1 ELSE waiting
      /\ handler[c] = "begun" => waiting < Slots
  BY DEF Inv, Types, StageMoves
<1>2. Slotted' /\ waiting' \in Nat
  <2>1. /\ Holding \subseteq Chains /\ IsFiniteSet(Holding)
        /\ waiting = Cardinality(Holding) /\ waiting <= Slots
    BY SlotFacts DEF Inv
  <2>2. Holding' = Holding \cup {c} /\ (c \in Holding <=> handler[c] # "begun")
    BY <1>1 DEF Holding, Inv, Types, Stages
  <2>3. Cardinality(Holding') = IF c \in Holding THEN Cardinality(Holding) ELSE Cardinality(Holding) + 1
    BY <2>1, <2>2, FS_AddElement
  <2>4. waiting \in Nat /\ Slots \in Nat
    BY DEF Inv, Types, ConstantsOK
  <2>5. waiting' = Cardinality(Holding') /\ waiting' <= Slots /\ waiting' \in Nat
    <3>1. waiting' = (IF handler[c] = "begun" THEN waiting + 1 ELSE waiting)
          /\ (handler[c] = "begun" => waiting < Slots)
      BY <1>1
    <3>2. Cardinality(Holding') = IF handler[c] = "begun" THEN waiting + 1 ELSE waiting
      BY <2>1, <2>2, <2>3
    <3>. HIDE DEF Holding
    <3>. QED
      BY <2>1, <2>4, <3>1, <3>2
  <2>. QED
    BY <2>5 DEF Slotted
<1>3. Types'
  <2>1. now' \in Nat /\ started' \in Nat
    BY DEF SameCalls, Inv, Types
  <2>2. call' \in [Chains -> Calls]
    BY DEF SameCalls, Inv, Types
  <2>3. log' \in Seq(Events)
    BY <1>1 DEF Inv, Types
  <2>. QED
    BY <1>2, <2>1, <2>2, <2>3 DEF TableKept, Types, ProtocolTypes
<1>4. Begun'
  BY BegunKeeps DEF Inv
<1>5. Served'
  BY <1>1 DEF Inv, Served, TableKept, Kept
<1>6. MovedOnce'
  BY <1>1 DEF Inv, MovedOnce, TableKept, Kept
<1>7. CancelKept
  BY <1>1 DEF CancelKept, TableKept, Kept, Inv, Types, TableTypes
<1>. QED
  BY <1>2, <1>3, <1>4, <1>5, <1>6, <1>7 DEF Inv, TableKept

\* A request is accepted under a lease, and may move if it is a new wait.
Begins(c) ==
  /\ handler[c] = "none" /\ handler' = [handler EXCEPT ![c] = "begun"]
  /\ c \in live' /\ running' = running \cup {c} /\ waiting' = waiting
  /\ log' = log \/ (Write(c, {}) /\ c \notin live \cup dead)

LEMMA BeginKeeps ==
  ASSUME ConstantsOK, Inv, TableKept, SameCalls, ProtocolTypes',
         NEW c \in Chains, Proceeds(c), Begins(c)
  PROVE  Inv' /\ CancelKept
<1>1. /\ handler[c] = "none" /\ c \in live' /\ running' = running \cup {c} /\ waiting' = waiting
      /\ \A d \in Chains : handler'[d] = IF d = c THEN "begun" ELSE handler[d]
  BY DEF Inv, Types, Begins
<1>2. Slotted'
  <2>1. Holding' = Holding
    BY <1>1 DEF Holding
  <2>. QED
    BY <1>1, <2>1 DEF Inv, Slotted
<1>3. log' \in Seq(Events) /\ MovedOnce'
  <2>1. CASE log' = log
    BY <2>1 DEF Inv, TableKept, MovedOnce, Kept, Types
  <2>2. CASE Write(c, {}) /\ c \notin live \cup dead
    BY <1>1, <2>2, AppendKeeps DEF Inv, TableKept
  <2>. QED
    BY <2>1, <2>2 DEF Begins
<1>4. Types'
  BY <1>1, <1>3 DEF Inv, TableKept, Types, ProtocolTypes, SameCalls
<1>5. Begun'
  BY BegunKeeps DEF Inv
<1>6. Served'
  BY <1>1 DEF Inv, Served, TableKept, Kept
<1>7. CancelKept
  BY <1>1 DEF CancelKept, TableKept, Kept, Inv, Types, TableTypes
<1>. QED
  BY <1>2, <1>3, <1>4, <1>5, <1>6, <1>7 DEF Inv, TableKept
-----------------------------------------------------------------------------
\* The actions.

LEMMA InitHolds == ASSUME ConstantsOK, Init PROVE Inv
<1>1. /\ now = 1 /\ started = 1 /\ live = {} /\ dead = {} /\ running = {} /\ waiting = 0
      /\ log = <<>>
      /\ \A p \in Players : entries[p] = NoEntry
      /\ \A c \in Chains : /\ call[c] = [player |-> Other, action |-> "state", gen |-> 0]
                           /\ gateway[c] = "idle" /\ flight[c] = "none" /\ handler[c] = "none"
  BY DEF Init
<1>2. Types
  <2>1. entries \in [Players -> Entries]
    BY DEF Init, NoEntry, Entries
  <2>2. call \in [Chains -> Calls]
    BY DEF Init, Calls
  <2>3. log \in Seq(Events)
    BY <1>1
  <2>4. /\ gateway \in [Chains -> {"idle", "asking", "pausing", "closing", "done"}]
        /\ flight \in [Chains -> {"none", "first", "resume"}]
        /\ handler \in [Chains -> Stages]
    BY DEF Init, Stages
  <2>. QED
    BY <1>1, <2>1, <2>2, <2>3, <2>4 DEF Types, TableTypes
<1>3. Begun
  BY <1>1 DEF Begun
<1>4. Leases
  <2>1. Leased /\ Retired /\ (\A p \in Players : entries[p].gen <= now)
    BY <1>1 DEF Leased, Retired, NoEntry
  <2>2. Present = {}
    BY <1>1 DEF Present
  <2>. QED
    BY <2>1, <2>2, FS_EmptySet DEF Leases, Counted, ConstantsOK
<1>5. Slotted
  <2>1. Holding = {}
    BY <1>1 DEF Holding
  <2>. QED
    BY <1>1, <2>1, FS_EmptySet DEF Slotted, ConstantsOK
<1>6. Served /\ MovedOnce
  BY <1>1 DEF Served, MovedOnce
<1>. QED
  BY <1>2, <1>3, <1>4, <1>5, <1>6 DEF Inv

\* Who has a request or a handler has begun.
LEMMA Caller ==
  ASSUME Inv, NEW c \in Chains, flight[c] # "none" \/ handler[c] # "none" \/ gateway[c] # "idle"
  PROVE  gateway[c] # "idle" /\ call[c].player \in Players
BY DEF Inv, Begun

\* The gateway alone moves.
LEMMA GatewayKeeps ==
  ASSUME ConstantsOK, Inv, NEW c \in Chains,
         GiveUp(c) \/ Resend(c) \/ Deadline(c) \/ Repeat(c) \/ Lose(c)
  PROVE  Inv' /\ CancelKept
<1> USE DEF Inv
<1>1. /\ UNCHANGED <<now, started, call, entries, dead, live, running, handler, waiting, log>>
      /\ gateway[c] # "idle"
      /\ \E to \in {"asking", "pausing", "closing"} :
           gateway' = [gateway EXCEPT ![c] = to] \/ gateway' = gateway
      /\ \E to \in {"none", "first", "resume"} :
           flight' = [flight EXCEPT ![c] = to] \/ flight' = flight
  BY Caller DEF GiveUp, Resend, Deadline, Repeat, Lose, leases, server, room
<1>2. SameCalls /\ TableTypes'
  BY <1>1 DEF SameCalls, Types, TableTypes
<1>3. Leases' /\ Kept
  BY <1>1, <1>2, RestKeeps
<1>4. ProtocolTypes' /\ Proceeds(c)
  BY <1>1 DEF ProtocolTypes, Proceeds, Types
<1>5. Begun'
  BY <1>2, <1>4, BegunKeeps
<1>. QED
  BY <1>1, <1>2, <1>3, <1>4, <1>5, QuietKeeps DEF TableKept

\* Others write into the room, or the clock goes on.
LEMMA RoomKeeps ==
  ASSUME ConstantsOK, Inv,
         \/ \E next \in Players \cup {Finished} : OtherMoves(next)
         \/ \E to \in SUBSET Players : OtherSpeaks(to)
         \/ OtherResigns \/ Archive \/ Tick \/ UNCHANGED vars
  PROVE  Inv' /\ CancelKept
<1> USE DEF Inv
<1>1. /\ UNCHANGED <<started, call, entries, dead, live, running, gateway, flight, handler,
                     waiting, cursor>>
      /\ now' \in {now, now + 1}
  BY DEF OtherMoves, OtherResigns, OtherSpeaks, Archive, Tick, Later, vars, leases, server, room
<1>2. log' = log \/ \E to \in SUBSET Players : Write(NoWaiter, to)
  BY DEF OtherMoves, OtherResigns, OtherSpeaks, Archive, Tick, Later, vars, leases, server, room
<1>3. SameCalls /\ TableTypes'
  BY <1>1 DEF SameCalls, Types, TableTypes
<1>4. Leases' /\ Kept
  BY <1>1, <1>3, RestKeeps
<1>5. log' \in Seq(Events) /\ MovedOnce'
  <2>1. CASE log' = log
    BY <1>1, <2>1 DEF MovedOnce, Types
  <2>2. CASE \E to \in SUBSET Players : Write(NoWaiter, to)
    <3>1. NoWaiter \notin live \cup dead /\ NoWaiter \notin Chains
      BY DEF NoWaiter, ConstantsOK, Types, TableTypes
    <3>. QED
      BY <1>4, <2>2, <3>1, AppendKeeps
  <2>. QED
    BY <1>2, <2>1, <2>2
<1>6. now \in Nat /\ now' \in Nat /\ now <= now'
  BY <1>1 DEF Types
<1>7. Types'
  BY <1>1, <1>3, <1>5, <1>6 DEF Types
<1>8. Begun'
  <2>1. \A d \in Chains : call[d].gen \in Nat
    BY DEF Types, Calls
  <2>. QED
    BY <1>1, <1>6, <2>1 DEF Begun
<1>9. Served' /\ Slotted'
  <2>1. Holding' = Holding
    BY <1>1 DEF Holding
  <2>. QED
    BY <1>1, <2>1 DEF Served, Slotted
<1>10. CancelKept
  BY <1>1, <1>4 DEF CancelKept, Kept
<1>. QED
  BY <1>4, <1>5, <1>7, <1>8, <1>9, <1>10

LEMMA CallKeeps ==
  ASSUME ConstantsOK, Inv, NEW c \in Chains, NEW p \in Players,
         NEW action \in {"state", "move"}, Call(c, p, action)
  PROVE  Inv' /\ CancelKept
<1> USE DEF Inv
<1>1. /\ UNCHANGED <<started, entries, dead, live, running, handler, waiting, log, cursor>>
      /\ now' = now + 1 /\ now \in Nat /\ gateway[c] = "idle"
      /\ call' = [call EXCEPT ![c] = [player |-> p, action |-> action, gen |-> now + 1]]
      /\ gateway' = [gateway EXCEPT ![c] = "asking"]
      /\ flight' = [flight EXCEPT ![c] = "first"]
  BY DEF Call, Later, leases, server, room, Types
<1>2. call[c].player = Other /\ handler[c] = "none" /\ c \notin live /\ c \notin dead
  <2>1. call[c].player = Other /\ handler[c] = "none"
    BY <1>1 DEF Begun
  <2>2. Other \notin Players
    BY DEF ConstantsOK
  <2>3. c \notin live
    BY <2>1, <2>2 DEF Leases, Leased
  <2>4. c \notin dead
    BY <2>1, <2>2 DEF Leases, Retired
  <2>. QED
    BY <2>1, <2>3, <2>4
<1>3. call' \in [Chains -> Calls] /\ \A d \in Chains \ {c} : call'[d] = call[d]
  BY <1>1 DEF Types, Calls
<1>4. Types'
  BY <1>1, <1>3 DEF Types, TableTypes
<1>5. Begun'
  <2> SUFFICES ASSUME NEW d \in Chains
               PROVE  /\ call'[d].gen <= now'
                      /\ gateway'[d] = "idle" => /\ call'[d].player = Other /\ call'[d].gen = 0
                                                 /\ flight'[d] = "none" /\ handler'[d] = "none"
                      /\ gateway'[d] # "idle" => call'[d].player \in Players /\ call'[d].gen > 0
    BY DEF Begun
  <2>1. CASE d = c
    BY <1>1, <2>1 DEF Types
  <2>2. CASE d # c
    <3>1. /\ call'[d] = call[d] /\ gateway'[d] = gateway[d] /\ flight'[d] = flight[d]
          /\ handler'[d] = handler[d] /\ call[d].gen \in Nat
      BY <1>1, <1>3, <2>2 DEF Types, Calls
    <3>. QED
      BY <1>1, <3>1 DEF Begun
  <2>. QED
    BY <2>1, <2>2
<1>6. Leases'
  <2>1. Leased'
    BY <1>1, <1>2, <1>3 DEF Leases, Leased, Types, TableTypes
  <2>2. Retired'
    <3> SUFFICES ASSUME NEW d \in dead
                 PROVE  d \notin live /\ call'[d].player \in Players /\ Late(d)'
      BY <1>1 DEF Retired
    <3>1. d \in Chains \ {c} /\ d \notin live /\ call[d].player \in Players /\ Late(d)
      BY <1>2 DEF Leases, Retired, Types, TableTypes
    <3>2. /\ call'[d] = call[d] /\ call[d].gen \in Nat /\ Cutoff \in Int
          /\ Cutoff' = Cutoff + 1
      <4>1. call'[d] = call[d]
        BY <1>3, <3>1
      <4>2. call[d].gen \in Nat
        BY <3>1 DEF Types, Calls
      <4>3. Lease \in Int
        BY DEF ConstantsOK
      <4>4. now' = now + 1 /\ now \in Nat
        BY <1>1
      <4>5. Cutoff \in Int /\ Cutoff' = Cutoff + 1
        BY ONLY <4>3, <4>4 DEF Cutoff
      <4>. QED
        BY ONLY <4>1, <4>2, <4>5
    <3>3. started' = started /\ entries' = entries /\ live' = live
      BY <1>1
    <3>4. call[d].gen < Cutoff => call'[d].gen < Cutoff'
      BY ONLY <3>2
    <3>5. Late(d)'
      BY ONLY <3>1, <3>2, <3>3, <3>4 DEF Late
    <3>. QED
      BY ONLY <3>1, <3>2, <3>3, <3>5
  <2>3. Counted'
    <3>1. \A q \in Players : entries[q].gen <= now'
      BY <1>1 DEF Leases, Counted, Types, TableTypes, Entries
    <3>. QED
      BY <1>1, <3>1 DEF Leases, Counted, Present
  <2>. QED
    BY <2>1, <2>2, <2>3 DEF Leases
<1>7. Served' /\ Slotted' /\ MovedOnce'
  <2>1. Holding' = Holding
    BY <1>1 DEF Holding
  <2>. QED
    BY <1>1, <2>1 DEF Served, Slotted, MovedOnce
<1>8. CancelKept
  BY <1>1 DEF CancelKept, Leases, Retired
<1>. QED
  BY <1>4, <1>5, <1>6, <1>7, <1>8
\* A burial by a call that is not refused and finds room.
LEMMA BuryKeeps ==
  ASSUME ConstantsOK, Inv, SameCalls, NEW p \in Players, NEW gen \in Nat, gen <= now',
         Swept[p].gen <= gen, Bury(p, gen),
         Swept[p] = NoEntry => Cardinality({q \in Players : Swept[q] # NoEntry}) < TableSize
  PROVE  TableKept /\ running' = running
<1> DEFINE older == {d \in Chains : call[d].player = p /\ call[d].gen <= gen}
<1>1. Fits(p, gen, 0, older)
  BY DEF Fits, SweptPresent, ConstantsOK
<1>2. Replaced(p, gen, 0, older) /\ running' = running
  BY DEF Replaced, Bury
<1>3. older \in SUBSET Chains /\ 0 \in Chains \cup {0}
  OBVIOUS
<1> HIDE DEF older
<1>4. TableTypes' /\ Leases' /\ Kept
  BY <1>1, <1>2, <1>3, ReplaceKeeps DEF Inv
<1>. QED
  BY <1>2, <1>4 DEF TableKept

\* A new wait that is admitted.
LEMMA AcquireKeeps ==
  ASSUME ConstantsOK, Inv, SameCalls, NEW c \in Chains, call[c].player \in Players,
         ~Refused(call[c].player, call[c].gen), Replaces(call[c].player, call[c].gen),
         Acquire(call[c].player, call[c].gen, c)
  PROVE  TableKept /\ c \in live' /\ c \notin live \cup dead
<1> DEFINE p == call[c].player
           gen == call[c].gen
           older == {d \in Chains : call[d].player = p /\ call[d].gen < gen}
<1>1. Swept[p].gen <= gen /\ c \notin live \cup dead
  BY Admission DEF Inv
<1>2. gen \in Nat /\ gen <= now'
  <2>1. now \in Nat /\ (now' = now \/ now' = now + 1) /\ gen \in Nat
    BY DEF SameCalls, Inv, Types, Calls
  <2>2. gen <= now
    BY DEF Inv, Begun
  <2>. QED
    BY <2>1, <2>2
<1>3. \A d \in older : call[d].player = p /\ call[d].gen <= gen /\ d # c
  BY DEF Inv, Types, Calls
<1>4. Fits(p, gen, c, older)
  BY <1>1, <1>2, <1>3 DEF Fits, SweptPresent, Replaces
<1>5. c # 0 /\ older \in SUBSET Chains
  BY DEF ConstantsOK
<1>6. Replaced(p, gen, c, older) /\ c \in live'
  BY <1>5 DEF Replaced, Acquire
<1> HIDE DEF older
<1>7. TableTypes' /\ Leases' /\ Kept
  BY <1>4, <1>5, <1>6, ReplaceKeeps DEF Inv
<1>. QED
  BY <1>1, <1>6, <1>7 DEF TableKept

\* The gateway cancels its generation.
LEMMA CloseKeeps ==
  ASSUME ConstantsOK, Inv, NEW c \in Chains, Close(c) PROVE Inv' /\ CancelKept
<1> DEFINE p == call[c].player
           gen == call[c].gen
<1>1. /\ UNCHANGED <<now, started, call, flight, handler, waiting, log>>
      /\ gateway[c] = "closing" /\ gateway' = [gateway EXCEPT ![c] = "done"]
  BY DEF Close, server, room
<1>2. SameCalls /\ ProtocolTypes' /\ Proceeds(c) /\ p \in Players
  BY <1>1, Caller DEF SameCalls, ProtocolTypes, Proceeds, Inv, Types
<1>3. TableKept /\ running' = running
  <2>1. CASE UNCHANGED leases
    <3>1. TableTypes' /\ running' = running /\ UNCHANGED <<entries, live, dead>>
      BY <2>1 DEF leases, Inv, Types, TableTypes
    <3>. QED
      BY <1>2, <3>1, RestKeeps DEF Inv, TableKept
  <2>2. CASE Sweep
    BY <1>2, <2>2, SweepKeeps DEF Inv, TableKept, Sweep
  <2>3. CASE /\ ~Refused(p, gen) /\ Bury(p, gen)
             /\ ~(Swept[p] = NoEntry /\ Cardinality({q \in Players : Swept[q] # NoEntry}) >= TableSize)
    <3>1. Swept[p].gen <= gen
      BY <1>2, <2>3, Admission DEF Inv
    <3>2. gen \in Nat /\ gen <= now'
      BY <1>1 DEF Inv, Begun, Types, Calls
    <3>3. Swept[p] = NoEntry => Cardinality({q \in Players : Swept[q] # NoEntry}) < TableSize
      <4>1. Cardinality(SweptPresent) \in Nat /\ TableSize \in Nat
        BY SweptCount DEF Inv, ConstantsOK
      <4>. QED
        BY <2>3, <4>1 DEF SweptPresent
    <3>. QED
      BY <1>2, <2>3, <3>1, <3>2, <3>3, BuryKeeps
  <2>. QED
    BY <2>1, <2>2, <2>3 DEF Close
<1>4. Begun'
  BY <1>2, BegunKeeps DEF Inv
<1>. QED
  BY <1>1, <1>2, <1>3, <1>4, QuietKeeps

\* A call that does not wait.
LEMMA OrdinaryKeeps ==
  ASSUME ConstantsOK, Inv, NEW p \in Players, Ordinary(p) PROVE Inv' /\ CancelKept
<1>1. /\ UNCHANGED <<started, call, gateway, flight, handler, waiting, log>>
      /\ now' = now + 1 /\ now \in Nat
  BY DEF Ordinary, Later, server, Inv, Types
<1>2. SameCalls /\ ProtocolTypes'
  BY <1>1 DEF SameCalls, ProtocolTypes, Inv, Types
<1>3. TableKept /\ running' = running
  <2>1. CASE Sweep
    BY <1>2, <2>1, SweepKeeps DEF Inv, TableKept, Sweep
  <2>2. CASE /\ Bury(p, now + 1)
             /\ ~(Swept[p] = NoEntry /\ Cardinality({q \in Players : Swept[q] # NoEntry}) >= TableSize)
    <3>1. Swept[p].gen <= now + 1
      <4>1. SweepGood
        BY SweptFacts DEF Inv, Leases
      <4>2. Swept[p].gen \in Nat /\ (Swept[p] = entries[p] \/ Swept[p].gen = 0)
        BY <4>1 DEF SweepGood, NoEntry, Entries
      <4>3. entries[p].gen <= now
        BY DEF Inv, Leases, Counted
      <4>. QED
        BY <1>1, <4>2, <4>3
    <3>2. Swept[p] = NoEntry => Cardinality({q \in Players : Swept[q] # NoEntry}) < TableSize
      <4>1. Cardinality(SweptPresent) \in Nat /\ TableSize \in Nat
        BY SweptCount DEF Inv, ConstantsOK
      <4>. QED
        BY <2>2, <4>1 DEF SweptPresent
    <3>3. now + 1 \in Nat /\ now + 1 <= now'
      BY <1>1
    <3>. QED
      BY <1>2, <2>2, <3>1, <3>2, <3>3, BuryKeeps
  <2>. QED
    BY <2>1, <2>2 DEF Ordinary
<1>4. Begun'
  <2>1. \A d \in Chains : call[d].gen \in Nat
    BY DEF Inv, Types, Calls
  <2>. QED
    BY <1>1, <2>1 DEF Inv, Begun
<1>. QED
  BY <1>1, <1>2, <1>3, <1>4, QuietKeeps
LEMMA ArriveKeeps ==
  ASSUME ConstantsOK, Inv, NEW c \in Chains, Arrive(c) PROVE Inv' /\ CancelKept
<1> DEFINE p == call[c].player
           gen == call[c].gen
<1>1. /\ UNCHANGED <<now, started, call, waiting>>
      /\ flight[c] # "none" /\ flight' = [flight EXCEPT ![c] = "none"]
  BY DEF Arrive
<1>2. SameCalls /\ p \in Players /\ gateway[c] # "idle"
  BY <1>1, Caller DEF SameCalls
\* It is refused: the sweep is all that happens.
<1>3. CASE Refuse(c)
  <2>1. /\ Sweep /\ UNCHANGED <<handler, log>>
        /\ gateway' \in {gateway, [gateway EXCEPT ![c] = "pausing"], [gateway EXCEPT ![c] = "closing"]}
    BY <1>3 DEF Refuse, Reply, room
  <2>2. TableKept /\ running' = running
    BY <1>2, <2>1, SweepKeeps DEF Inv, TableKept, Sweep
  <2>3. ProtocolTypes' /\ Proceeds(c)
    BY <1>1, <1>2, <2>1 DEF ProtocolTypes, Proceeds, Inv, Types
  <2>4. Begun'
    BY <1>2, <2>3, BegunKeeps DEF Inv
  <2>. QED
    BY <1>1, <1>2, <2>1, <2>2, <2>3, <2>4, QuietKeeps
\* Its move is not this machine's to make: the wait ends at once.
<1>4. CASE ~Refused(p, gen) /\ Replaces(p, gen) /\ Err(c)
  <2>1. /\ Bury(p, gen) /\ UNCHANGED <<handler, log>>
        /\ gateway' \in {gateway, [gateway EXCEPT ![c] = "pausing"], [gateway EXCEPT ![c] = "closing"]}
    BY <1>4 DEF Err, Reply, room
  <2>2. TableKept /\ running' = running
    <3>1. Swept[p].gen <= gen
      BY <1>2, <1>4, Admission DEF Inv
    <3>2. gen \in Nat /\ gen <= now'
      BY <1>1 DEF Inv, Begun, Types, Calls
    <3>. QED
      BY <1>2, <1>4, <2>1, <3>1, <3>2, BuryKeeps DEF Replaces
  <2>3. ProtocolTypes' /\ Proceeds(c)
    BY <1>1, <1>2, <2>1 DEF ProtocolTypes, Proceeds, Inv, Types
  <2>4. Begun'
    BY <1>2, <2>3, BegunKeeps DEF Inv
  <2>. QED
    BY <1>1, <1>2, <2>1, <2>2, <2>3, <2>4, QuietKeeps
\* It is accepted.
<1>5. CASE /\ ~Refused(p, gen) /\ Begin(c)
           /\ \/ /\ flight[c] = "resume" /\ Resumes(p, gen, c) /\ running' = running \cup {c}
                 /\ entries' = Swept /\ live' = live \ Ended /\ dead' = dead \cup Ended
              \/ flight[c] # "resume" /\ Replaces(p, gen) /\ Acquire(p, gen, c)
  <2>1. /\ handler' = [handler EXCEPT ![c] = "begun"] /\ gateway' = gateway
        /\ log' = log \/ (flight[c] = "first" /\ Write(c, {}))
    BY <1>5 DEF Begin, room
  <2>2. TableKept /\ running' = running \cup {c} /\ handler[c] = "none" /\ c \in live'
        /\ (flight[c] = "first" => c \notin live \cup dead)
    <3>1. CASE /\ flight[c] = "resume" /\ Resumes(p, gen, c) /\ running' = running \cup {c}
               /\ entries' = Swept /\ live' = live \ Ended /\ dead' = dead \cup Ended
      <4>1. c \in live /\ c \notin running /\ Swept[p].lease = c
        BY <1>2, <1>5, <3>1, Admission DEF Inv, Resumes
      <4>2. c \notin Ended
        <5> SUFFICES ASSUME NEW q \in Expired, c = entries[q].lease PROVE FALSE
          BY DEF Ended
        <5>1. q \in Players /\ c # 0 /\ SweepGood
          BY SweptFacts DEF Inv, Leases, Expired, Present, ConstantsOK
        <5>2. p = q
          BY <5>1 DEF Inv, Leases, Leased
        <5>. QED
          BY <4>1, <5>1, <5>2 DEF SweepGood, NoEntry
      <4>3. TableKept
        <5>1. running' \subseteq Chains
          BY <3>1 DEF Inv, Types, TableTypes
        <5>. QED
          BY <1>2, <3>1, <5>1, TableSweeps DEF Inv, TableKept
      <4>. QED
        BY <3>1, <4>1, <4>2, <4>3 DEF Inv, Served
    <3>2. CASE flight[c] # "resume" /\ Replaces(p, gen) /\ Acquire(p, gen, c)
      <4>1. TableKept /\ c \in live' /\ c \notin live \cup dead
        BY <1>2, <1>5, <3>2, AcquireKeeps
      <4>. QED
        BY <3>2, <4>1 DEF Inv, Served, Acquire
    <3>. QED
      BY <1>5, <3>1, <3>2
  <2>3. ProtocolTypes' /\ Proceeds(c)
    BY <1>1, <1>2, <2>1 DEF ProtocolTypes, Proceeds, Inv, Types, Stages
  <2>4. Begins(c)
    <3>1. log' = log \/ (Write(c, {}) /\ c \notin live \cup dead)
      BY <2>1, <2>2
    <3>. QED
      BY <1>1, <2>1, <2>2, <3>1 DEF Begins
  <2>. QED
    BY <1>2, <2>2, <2>3, <2>4, BeginKeeps
<1>. QED
  BY <1>3, <1>4, <1>5 DEF Arrive

\* A handler leaves with an answer: the wait ends, or its lease is kept.
LEMMA LeaveKeeps ==
  ASSUME ConstantsOK, Inv, NEW c \in Chains, handler[c] # "none",
         UNCHANGED <<now, started, call, flight, log>>,
         Leave(c), Finish(c) \/ Keep(c),
         gateway' = gateway \/ (\E status : Reply(c, status)),
         waiting' = IF handler[c] = "begun" THEN waiting ELSE waiting - 1,
         cursor' = cursor \/ c \in live
  PROVE  Inv' /\ CancelKept
<1>1. SameCalls /\ call[c].player \in Players /\ gateway[c] # "idle"
  BY Caller DEF SameCalls
<1>2. gateway' \in {gateway, [gateway EXCEPT ![c] = "pausing"], [gateway EXCEPT ![c] = "closing"]}
  BY DEF Reply
<1>3. handler' = [handler EXCEPT ![c] = "none"]
  BY DEF Leave
<1>4. TableKept /\ running' = running \ {c}
  <2>1. CASE Finish(c)
    BY <1>1, <2>1, FinishKeeps DEF Inv, TableKept
  <2>2. CASE Keep(c)
    <3>1. UNCHANGED <<entries, live, dead>> /\ running' = running \ {c}
      BY <2>2 DEF Keep
    <3>2. TableTypes'
      BY <3>1 DEF Inv, Types, TableTypes
    <3>. QED
      BY <1>1, <3>1, <3>2, RestKeeps DEF Inv, TableKept
  <2>. QED
    BY <2>1, <2>2
<1>5. ProtocolTypes' /\ Proceeds(c)
  BY <1>1, <1>2, <1>3 DEF ProtocolTypes, Proceeds, Inv, Types, Stages
<1>. QED
  BY <1>1, <1>3, <1>4, <1>5, AnswerKeeps

\* A handler goes on to another stage under its lease.
LEMMA MoveOnKeeps ==
  ASSUME ConstantsOK, Inv, NEW c \in Chains, NEW stage,
         UNCHANGED <<now, started, leases, call, gateway, flight>>, StageMoves(c, stage)
  PROVE  Inv' /\ CancelKept
<1>1. SameCalls /\ gateway[c] # "idle" /\ UNCHANGED <<entries, live, dead, running>>
  BY Caller DEF SameCalls, StageMoves, leases
<1>2. TableTypes'
  BY <1>1 DEF Inv, Types, TableTypes
<1>3. TableKept
  BY <1>1, <1>2, RestKeeps DEF Inv, TableKept
<1>4. ProtocolTypes' /\ Proceeds(c)
  BY <1>1 DEF ProtocolTypes, Proceeds, Inv, Types, Stages, StageMoves
<1>. QED
  BY <1>1, <1>3, <1>4, StageKeeps
\* Somebody whose lease is not cancelled, or nobody, consumes the events.
LEMMA GoKeeps ==
  ASSUME ConstantsOK, Inv, NEW c \in Chains, Go(c) PROVE Inv' /\ CancelKept
<1>1. handler[c] = "begun" /\ UNCHANGED <<now, started, call, flight>>
  BY DEF Go, Others
<1>2. CASE Stop(c) /\ UNCHANGED waiting
  BY <1>1, <1>2, LeaveKeeps DEF Stop, room
<1>3. CASE Tell(c) /\ UNCHANGED waiting
  <2>1. c \in live /\ log' = log /\ Leave(c) /\ Finish(c) /\ Reply(c, "told")
    BY <1>3 DEF Tell, Cancelled
  <2>. QED
    BY <1>1, <1>3, <2>1, LeaveKeeps
<1>4. CASE Leave(c) /\ Keep(c) /\ Reply(c, "still_waiting") /\ UNCHANGED <<waiting, room>>
  BY <1>1, <1>4, LeaveKeeps DEF room
<1>5. CASE /\ waiting < Slots /\ waiting' = waiting + 1
           /\ handler' = [handler EXCEPT ![c] = IF Due(call[c].player) THEN "woken" ELSE "sleeping"]
           /\ UNCHANGED <<leases, gateway, saw, rung, room>>
  <2>1. PICK stage \in {"woken", "sleeping"} : handler' = [handler EXCEPT ![c] = stage]
    BY <1>5
  <2>2. StageMoves(c, stage)
    BY <1>1, <1>5, <2>1 DEF StageMoves, leases, room
  <2>. QED
    BY <1>1, <1>5, <2>2, MoveOnKeeps
<1>. QED
  BY <1>2, <1>3, <1>4, <1>5 DEF Go

LEMMA SleepKeeps ==
  ASSUME ConstantsOK, Inv, NEW c \in Chains, Wake(c) \/ Timeout(c) PROVE Inv' /\ CancelKept
<1>1. PICK stage \in {"woken", "timed out"} : handler' = [handler EXCEPT ![c] = stage]
  BY DEF Wake, Timeout
<1>2. StageMoves(c, stage) /\ UNCHANGED <<now, started, leases, call, gateway, flight>>
  BY <1>1 DEF StageMoves, Wake, Timeout, leases, room
<1>. QED
  BY <1>2, MoveOnKeeps

LEMMA GoOnKeeps ==
  ASSUME ConstantsOK, Inv, NEW c \in Chains, GoOn(c) PROVE Inv' /\ CancelKept
<1>1. handler[c] \in {"woken", "timed out"} /\ UNCHANGED <<now, started, call, flight>>
  BY DEF GoOn, Others
<1>2. handler[c] # "none" /\ handler[c] # "begun"
  BY <1>1
<1>3. CASE Stop(c) /\ Released
  BY <1>1, <1>2, <1>3, LeaveKeeps DEF Stop, Released, room
<1>4. CASE Tell(c) /\ Released
  <2>1. c \in live /\ log' = log /\ Leave(c) /\ Finish(c) /\ Reply(c, "told") /\ waiting' = waiting - 1
    BY <1>4 DEF Tell, Cancelled, Released
  <2>. QED
    BY <1>1, <1>2, <2>1, LeaveKeeps
<1>5. CASE Heartbeat(c) /\ Released
  <2>1. /\ Leave(c) /\ (Finish(c) \/ Keep(c)) /\ log' = log /\ cursor' = cursor
        /\ waiting' = waiting - 1 /\ \E status : Reply(c, status)
    BY <1>5 DEF Heartbeat, Released, room
  <2>. QED
    BY <1>1, <1>2, <2>1, LeaveKeeps
<1>6. CASE /\ handler' = [handler EXCEPT ![c] = "sleeping"]
           /\ UNCHANGED <<leases, gateway, saw, rung, waiting, room>>
  <2>1. StageMoves(c, "sleeping")
    BY <1>2, <1>6 DEF StageMoves, leases, room
  <2>. QED
    BY <1>1, <1>6, <2>1, MoveOnKeeps
<1>. QED
  BY <1>3, <1>4, <1>5, <1>6 DEF GoOn

LEMMA AbandonKeeps ==
  ASSUME ConstantsOK, Inv, NEW c \in Chains, Abandon(c) PROVE Inv' /\ CancelKept
BY LeaveKeeps DEF Abandon, Others, room

LEMMA RestartKeeps == ASSUME ConstantsOK, Inv, Restart PROVE Inv' /\ CancelKept
<1> USE DEF Inv
<1>1. /\ now' = now + 1 /\ started' = now + 1 /\ now \in Nat
      /\ entries' = [p \in Players |-> NoEntry]
      /\ dead' = dead \cup {c \in Chains : call[c].gen > 0} /\ live' = {} /\ running' = {}
      /\ handler' = [c \in Chains |-> "none"] /\ waiting' = 0
      /\ gateway' = [c \in Chains |-> IF gateway[c] = "asking" /\ flight[c] = "none"
                                      THEN "closing" ELSE gateway[c]]
      /\ UNCHANGED <<call, flight, log, cursor>>
  BY DEF Restart, Later, room, Types
<1>2. \A c \in Chains : /\ call[c].gen \in Nat /\ call[c].gen < started'
                        /\ (c \in live \cup dead => call[c].gen > 0)
  <2>1. \A c \in Chains : call[c].gen \in Nat /\ call[c].gen <= now
    BY DEF Types, Calls, Begun
  <2>2. \A c \in live \cup dead : c \in Chains /\ call[c].player \in Players
    BY DEF Types, TableTypes, Leases, Leased, Retired
  <2>. QED
    BY <1>1, <2>1, <2>2 DEF Begun, ConstantsOK
<1>3. Types'
  <2>1. entries' \in [Players -> Entries]
    BY <1>1 DEF NoEntry, Entries
  <2>2. /\ gateway' \in [Chains -> {"idle", "asking", "pausing", "closing", "done"}]
        /\ handler' \in [Chains -> Stages]
    BY <1>1 DEF Types, Stages
  <2>3. live' \subseteq Chains /\ dead' \subseteq Chains /\ running' \subseteq Chains
    BY <1>1 DEF Types, TableTypes
  <2>4. now' \in Nat /\ started' \in Nat /\ waiting' \in Nat
    BY <1>1
  <2>5. /\ call' \in [Chains -> Calls] /\ log' \in Seq(Events)
        /\ flight' \in [Chains -> {"none", "first", "resume"}]
    BY <1>1 DEF Types
  <2>. QED
    BY <2>1, <2>2, <2>3, <2>4, <2>5 DEF Types, TableTypes
<1>4. Begun'
  <2>1. \A c \in Chains : (gateway'[c] = "idle" <=> gateway[c] = "idle") /\ handler'[c] = "none"
    BY <1>1
  <2>2. \A c \in Chains : call[c].gen <= now'
    BY <1>1, <1>2
  <2>. QED
    BY <1>1, <2>1, <2>2 DEF Begun
<1>5. Leases'
  <2>1. Leased'
    BY <1>1 DEF Leased, NoEntry
  <2>2. Retired'
    <3> SUFFICES ASSUME NEW c \in dead' PROVE call[c].player \in Players /\ call[c].gen < started'
      BY <1>1 DEF Retired, Late
    <3>1. c \in Chains
      BY <1>3 DEF Types, TableTypes
    <3>2. CASE c \in dead
      BY <1>2, <3>1, <3>2 DEF Leases, Retired
    <3>3. CASE call[c].gen > 0
      <4>1. gateway[c] # "idle" => call[c].player \in Players
        BY <3>1 DEF Begun
      <4>. QED
        BY <1>2, <3>1, <3>3, <4>1 DEF Begun
    <3>. QED
      BY <1>1, <3>2, <3>3
  <2>3. Counted'
    <3>1. Present' = {}
      BY <1>1 DEF Present
    <3>2. \A p \in Players : entries'[p].gen <= now'
      BY <1>1 DEF NoEntry
    <3>. QED
      BY <3>1, <3>2, FS_EmptySet DEF Counted, ConstantsOK
  <2>. QED
    BY <2>1, <2>2, <2>3 DEF Leases
<1>6. Served' /\ Slotted'
  <2>1. Holding' = {}
    BY <1>1 DEF Holding
  <2>. QED
    BY <1>1, <2>1, FS_EmptySet DEF Served, Slotted, ConstantsOK
<1>7. MovedOnce'
  <2>1. live \cup dead \subseteq dead'
    BY <1>1, <1>2 DEF Types, TableTypes
  <2>. QED
    BY <1>1, <2>1 DEF MovedOnce
<1>8. CancelKept
  BY <1>1 DEF CancelKept
<1>. QED
  BY <1>3, <1>4, <1>5, <1>6, <1>7, <1>8

LEMMA StepKeeps == ASSUME ConstantsOK, Inv, [Next]_vars PROVE Inv' /\ CancelKept
<1>1. ASSUME NEW c \in Chains, Serve(c) \/ Repeat(c) \/ GiveUp(c) \/ Lose(c) \/ Abandon(c)
      PROVE  Inv' /\ CancelKept
  BY <1>1, GatewayKeeps, CloseKeeps, ArriveKeeps, GoKeeps, SleepKeeps, GoOnKeeps, AbandonKeeps
     DEF Serve
<1>2. ASSUME NEW c \in Chains, NEW p \in Players, NEW action \in {"state", "move"},
             Call(c, p, action)
      PROVE  Inv' /\ CancelKept
  BY <1>2, CallKeeps
<1>3. ASSUME NEW p \in Players, Ordinary(p) PROVE Inv' /\ CancelKept
  BY <1>3, OrdinaryKeeps
<1>4. CASE Restart
  BY <1>4, RestartKeeps
<1>5. CASE \/ \E next \in Players \cup {Finished} : OtherMoves(next)
           \/ \E to \in SUBSET Players : OtherSpeaks(to)
           \/ OtherResigns \/ Archive \/ Tick \/ UNCHANGED vars
  BY <1>5, RoomKeeps
<1>. QED
  BY <1>1, <1>2, <1>3, <1>4, <1>5 DEF Next

LEMMA Invariance == ASSUME ConstantsOK PROVE Spec => []Inv
<1>1. Init => Inv
  BY InitHolds
<1>2. Inv /\ [Next]_vars => Inv'
  BY StepKeeps
<1>. QED
  BY <1>1, <1>2, PTL DEF Spec

\* Whatever is lost, late, repeated or restarted: of the calls of a machine one
\* waits, the table and the slots keep their limits, and no move is made twice
\* (wait_control.py:44-85, main.py:209-218, 2200-2254).
THEOREM OneWait == ASSUME ConstantsOK PROVE Spec => []OneLiveWait
<1>1. Inv => OneLiveWait
  BY DEF Inv, Leases, Leased, Counted, Slotted, MovedOnce, OneLiveWait
<1>. QED
  BY <1>1, Invariance, PTL

\* A call that was cancelled never gets a lease again and consumes no event
\* (wait_control.py:44-85, main.py:2086-2161).
THEOREM CancelledStays == ASSUME ConstantsOK PROVE Spec => CancelIsFinal
<1>1. Inv /\ [Next]_vars => [CancelKept]_vars
  BY StepKeeps
<1>. QED
  BY <1>1, Invariance, PTL DEF Spec, CancelIsFinal
-----------------------------------------------------------------------------
\* Nobody sleeps through news.

Armed == cursor \in [Players -> Nat] /\ SleeperArmed

\* Nothing happens in the room but that somebody reads it.
RoomQuiet ==
  /\ UNCHANGED <<turn, over, log>>
  /\ cursor' = cursor \/ \E p \in Players : Consume(p)

\* Whoever sleeps after a step was rung, has no news, or slept before it.
Wakes ==
  \A c \in Chains : handler'[c] = "sleeping" =>
    \/ over' \/ c \in rung' \/ ~Due(call[c].player)'
    \/ /\ handler[c] = "sleeping" /\ call'[c] = call[c]
       /\ c \in rung => c \in rung'
       /\ RoomQuiet

\* Reading makes nothing due.
LEMMA ReadingIsQuiet ==
  ASSUME Types, cursor \in [Players -> Nat], RoomQuiet,
         NEW p \in Players, Due(p)'
  PROVE  Due(p)
<1>1. /\ turn' = turn /\ over' = over /\ log' = log /\ Len(log) \in Nat
  BY DEF RoomQuiet, Types
<1>2. cursor'[p] = cursor[p] \/ cursor'[p] = Len(log)
  BY DEF RoomQuiet, Consume
<1>3. Mentioned(p)' => Mentioned(p)
  BY <1>1, <1>2 DEF Mentioned
<1>. QED
  BY <1>1, <1>3 DEF Due

LEMMA ArmedKeeps ==
  ASSUME ConstantsOK, Inv, Armed, CancelKept, Wakes,
         cursor' = cursor \/ \E p \in Players : Consume(p)
  PROVE  Armed'
<1>1. cursor' \in [Players -> Nat]
  <2>1. Len(log) \in Nat
    BY DEF Inv, Types
  <2>. QED
    BY <2>1 DEF Armed, Consume
<1>2. ASSUME NEW c \in Chains, handler'[c] = "sleeping", Due(call[c].player)'
      PROVE  (c \in rung \/ Cancelled(c) \/ over)'
  <2>1. CASE over' \/ c \in rung'
    BY <2>1
  <2>2. CASE /\ handler[c] = "sleeping" /\ call'[c] = call[c]
             /\ c \in rung => c \in rung'
             /\ RoomQuiet
    <3>1. call[c].player \in Players
      BY <2>2, Caller
    <3>2. Due(call[c].player)
      <4>1. call'[c].player = call[c].player
        BY <2>2
      <4>2. ASSUME NEW p \in Players, Due(p)' PROVE Due(p)
        BY <2>2, <4>2, ReadingIsQuiet DEF Inv, Armed
      <4>3. Due(call[c].player)' => \E p \in Players : p = call[c].player /\ Due(p)'
        BY <3>1, <4>1
      <4>. QED
        BY <1>2, <4>2, <4>3
    <3>3. c \in rung \/ c \notin live \/ over
      BY <2>2, <3>2 DEF Armed, SleeperArmed, Cancelled
    <3>4. c \notin live => c \notin live'
      BY <2>2 DEF Inv, Served, CancelKept
    <3>. QED
      BY <2>2, <3>3, <3>4 DEF Cancelled, RoomQuiet
  <2>. QED
    BY <1>2, <2>1, <2>2 DEF Wakes
<1>. QED
  BY <1>1, <1>2 DEF Armed, SleeperArmed
Reads == cursor' = cursor \/ \E p \in Players : Consume(p)

\* A step of the handler of c: it wakes or leaves, or sleeps because it has no
\* news; the others sleep on.
LEMMA HandlerWakes ==
  ASSUME Inv, NEW c \in Chains, NEW stage, handler' = [handler EXCEPT ![c] = stage],
         call' = call, rung' \in {rung, rung \ {c}}, RoomQuiet,
         stage = "sleeping" => ~Due(call[c].player)'
  PROVE  Wakes /\ Reads
<1>1. \A d \in Chains : handler'[d] = IF d = c THEN stage ELSE handler[d]
  BY DEF Inv, Types
<1>2. ASSUME NEW d \in Chains, handler'[d] = "sleeping", d # c
      PROVE  /\ handler[d] = "sleeping" /\ call'[d] = call[d]
             /\ d \in rung => d \in rung'
  BY <1>1, <1>2
<1>3. ASSUME handler'[c] = "sleeping" PROVE ~Due(call[c].player)'
  BY <1>1, <1>3
<1>. QED
  BY <1>2, <1>3 DEF Wakes, Reads, RoomQuiet

\* A step that leaves the handlers and their events alone.
LEMMA QuietWakes ==
  ASSUME Inv, UNCHANGED <<handler, rung>>, RoomQuiet \/ over',
         \A c \in Chains : handler[c] # "none" => call'[c] = call[c],
         cursor' = cursor \/ RoomQuiet
  PROVE  Wakes /\ Reads
BY DEF Wakes, Reads, RoomQuiet

\* A commit that rings whoever sleeps.
LEMMA NotifyWakes ==
  ASSUME Inv, Notify, cursor' = cursor,
         \A c \in Chains : handler'[c] = "sleeping" => handler[c] = "sleeping"
  PROVE  Wakes /\ Reads
BY DEF Wakes, Reads, Notify

LEMMA ArriveWakes == ASSUME ConstantsOK, Inv, NEW c \in Chains, Arrive(c) PROVE Wakes /\ Reads
<1>1. call' = call
  BY DEF Arrive
<1>2. CASE Refuse(c) \/ Err(c)
  <2>1. UNCHANGED <<handler, rung>> /\ RoomQuiet
    BY <1>2 DEF Refuse, Err, RoomQuiet, room
  <2>. QED
    BY <1>1, <2>1, QuietWakes
<1>3. CASE Begin(c)
  <2>1. handler' = [handler EXCEPT ![c] = "begun"]
    BY <1>3 DEF Begin
  <2>2. \A d \in Chains : handler'[d] = "sleeping" => handler[d] = "sleeping"
    BY <2>1 DEF Inv, Types
  <2>3. CASE Notify /\ cursor' = cursor
    BY <2>2, <2>3, NotifyWakes
  <2>4. CASE UNCHANGED <<rung, room>>
    <3>1. RoomQuiet
      BY <2>4 DEF RoomQuiet, room
    <3>. QED
      BY <1>1, <2>1, <2>4, <3>1, HandlerWakes
  <2>. QED
    BY <1>3, <2>3, <2>4 DEF Begin
<1>. QED
  BY <1>2, <1>3 DEF Arrive

\* A handler that leaves, with an answer or without.
LEMMA LeaveWakes ==
  ASSUME Inv, NEW c \in Chains, Leave(c), call' = call, RoomQuiet
  PROVE  Wakes /\ Reads
BY HandlerWakes DEF Leave

LEMMA AnswerIsQuiet ==
  ASSUME Inv, NEW c \in Chains, handler[c] # "none", Stop(c) \/ Tell(c) \/ Heartbeat(c)
  PROVE  Leave(c) /\ RoomQuiet
<1>1. call[c].player \in Players
  BY Caller
<1>. QED
  BY <1>1 DEF Stop, Tell, Heartbeat, RoomQuiet, room

LEMMA ServerWakes ==
  ASSUME ConstantsOK, Inv, NEW c \in Chains, Go(c) \/ GoOn(c) \/ Wake(c) \/ Timeout(c) \/ Abandon(c)
  PROVE  Wakes /\ Reads
<1>1. call' = call /\ handler[c] # "none"
  BY DEF Go, GoOn, Wake, Timeout, Abandon, Others
<1>2. CASE Stop(c) \/ Tell(c) \/ Heartbeat(c)
  BY <1>1, <1>2, AnswerIsQuiet, LeaveWakes
<1>3. CASE Leave(c) /\ UNCHANGED room
  <2>1. RoomQuiet
    BY <1>3 DEF RoomQuiet, room
  <2>. QED
    BY <1>1, <1>3, <2>1, LeaveWakes
<1>4. CASE /\ UNCHANGED <<rung, room>>
           /\ \/ handler' = [handler EXCEPT ![c] = IF Due(call[c].player) THEN "woken" ELSE "sleeping"]
              \/ ~Due(call[c].player) /\ handler' = [handler EXCEPT ![c] = "sleeping"]
  <2>1. RoomQuiet /\ UNCHANGED <<log, cursor, turn, over>>
    BY <1>4 DEF RoomQuiet, room
  <2>2. Due(call[c].player)' = Due(call[c].player)
    BY <1>1, <2>1 DEF Due, Mentioned
  <2>3. PICK stage : /\ handler' = [handler EXCEPT ![c] = stage]
                     /\ stage = "sleeping" => ~Due(call[c].player)
    BY <1>4
  <2>. QED
    BY <1>1, <1>4, <2>1, <2>2, <2>3, HandlerWakes
<1>5. CASE Wake(c) \/ Timeout(c)
  <2>1. RoomQuiet /\ rung' = rung \ {c}
    BY <1>5 DEF Wake, Timeout, RoomQuiet, room
  <2>2. PICK stage \in {"woken", "timed out"} : handler' = [handler EXCEPT ![c] = stage]
    BY <1>5 DEF Wake, Timeout
  <2>. QED
    BY <1>1, <2>1, <2>2, HandlerWakes
<1>. QED
  BY <1>2, <1>3, <1>4, <1>5 DEF Go, GoOn, Abandon

LEMMA StepWakes == ASSUME ConstantsOK, Inv, [Next]_vars PROVE Wakes /\ Reads
<1>1. ASSUME NEW c \in Chains, Arrive(c) PROVE Wakes /\ Reads
  BY <1>1, ArriveWakes
<1>2. ASSUME NEW c \in Chains, Go(c) \/ GoOn(c) \/ Wake(c) \/ Timeout(c) \/ Abandon(c)
      PROVE  Wakes /\ Reads
  BY <1>2, ServerWakes
<1>3. ASSUME NEW c \in Chains,
             Resend(c) \/ Deadline(c) \/ Close(c) \/ Repeat(c) \/ GiveUp(c) \/ Lose(c)
      PROVE  Wakes /\ Reads
  <2>1. UNCHANGED <<handler, rung, call>> /\ RoomQuiet
    BY <1>3 DEF Resend, Deadline, Close, Repeat, GiveUp, Lose, server, room, RoomQuiet
  <2>. QED
    BY <2>1, QuietWakes
<1>4. ASSUME NEW c \in Chains, NEW p \in Players, NEW action \in {"state", "move"},
             Call(c, p, action)
      PROVE  Wakes /\ Reads
  <2>1. /\ UNCHANGED <<handler, rung>> /\ RoomQuiet
        /\ call' = [call EXCEPT ![c] = [player |-> p, action |-> action, gen |-> now + 1]]
        /\ gateway[c] = "idle"
    BY <1>4 DEF Call, server, room, RoomQuiet
  <2>2. \A d \in Chains : handler[d] # "none" => call'[d] = call[d]
    BY <2>1 DEF Inv, Begun, Types
  <2>. QED
    BY <2>1, <2>2, QuietWakes
<1>5. ASSUME NEW p \in Players, Ordinary(p) PROVE Wakes /\ Reads
  <2>1. UNCHANGED <<handler, rung, call>> /\ RoomQuiet
    BY <1>5 DEF Ordinary, server, RoomQuiet
  <2>. QED
    BY <2>1, QuietWakes
<1>6. CASE (\E next \in Players \cup {Finished} : OtherMoves(next)) \/ OtherResigns \/ (\E to \in SUBSET Players : OtherSpeaks(to))
  BY <1>6, NotifyWakes DEF OtherMoves, OtherResigns, OtherSpeaks
<1>7. CASE Archive
  <2>1. UNCHANGED <<handler, rung, call, cursor>> /\ over'
    BY <1>7 DEF Archive, server
  <2>. QED
    BY <2>1, QuietWakes
<1>8. CASE Tick \/ UNCHANGED vars
  <2>1. UNCHANGED <<handler, rung, call>> /\ RoomQuiet
    BY <1>8 DEF Tick, vars, server, room, RoomQuiet
  <2>. QED
    BY <2>1, QuietWakes
<1>9. CASE Restart
  BY <1>9 DEF Restart, room, Wakes, Reads
<1>. QED
  BY <1>1, <1>2, <1>3, <1>4, <1>5, <1>6, <1>7, <1>8, <1>9 DEF Next, Serve

\* Whatever is written, read, timed out or cancelled meanwhile: who sleeps has
\* no news, or is already called (main.py:168-182, 1018-1080).
THEOREM NoneSleepsThrough == ASSUME ConstantsOK PROVE Spec => []SleeperArmed
<1>1. Init => Armed
  <2> SUFFICES ASSUME Init PROVE Armed
    OBVIOUS
  <2>1. cursor \in [Players -> Nat] /\ \A c \in Chains : handler[c] = "none"
    BY DEF Init
  <2>. QED
    BY <2>1 DEF Armed, SleeperArmed
<1>2. Inv /\ Armed /\ [Next]_vars => Armed'
  <2> SUFFICES ASSUME Inv, Armed, [Next]_vars PROVE Armed'
    OBVIOUS
  <2>1. CancelKept /\ Wakes /\ Reads
    BY StepKeeps, StepWakes
  <2>. QED
    BY <2>1, ArmedKeeps DEF Reads
<1>3. Armed => SleeperArmed
  BY DEF Armed
<1>. QED
  BY <1>1, <1>2, <1>3, Invariance, PTL DEF Spec
=============================================================================
