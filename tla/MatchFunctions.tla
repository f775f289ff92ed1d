--------------------------- MODULE MatchFunctions ---------------------------
(***************************************************************************)
(* The match functions and evaluators of the examples, as operators on     *)
(* sequences of tickets.  A match is a record with its tickets, its        *)
(* backfill (NoBackfill, New, or the id of an existing one) and the open   *)
(* slots of that backfill afterwards.                                      *)
(***************************************************************************)
EXTENDS PoolFilter, Sequences, FiniteSets, SequencesExt

CONSTANTS
    NoBackfill, New,     \* no backfill, and one to be created
    PlayersPerMatch,     \* playersPerMatch, playersInMatch, playersPerGame
    MaxNotFull,          \* MaxTicketsPerNotFullMatch
    SkillDifference      \* maxSkillDifference

ASSUME FunctionConstants ==
    /\ MaxNotFull \in 1 .. PlayersPerMatch - 1
    /\ SkillDifference > 0 /\ SkillDifference % 2 = 0
-----------------------------------------------------------------------------
(* Match functions. *)

Match(tickets, backfill, open) ==
    [tickets |-> tickets, backfill |-> backfill, open |-> open]

Drop(s, n) == SubSeq(s, n + 1, Len(s))

\* Mutant: the last chunk may be short.
RaggedChunks(tickets, n) ==
    [i \in 1 .. (Len(tickets) + n - 1) \div n |->
        Match(SubSeq(tickets, (i - 1) * n + 1, Min({i * n, Len(tickets)})), NoBackfill, 0)]

\* Matches of n tickets each, until fewer are left.
Chunks(tickets, n) ==
    [i \in 1 .. Len(tickets) \div n |->
        Match(SubSeq(tickets, (i - 1) * n + 1, i * n), NoBackfill, 0)]

Leftover(tickets, n) == Drop(tickets, n * (Len(tickets) \div n))

\* The tutorials: n tickets of every pool for each match, until a pool runs out.
PerPoolMatches(poolTickets, n) ==
    LET pools == SetToSeq(DOMAIN poolTickets)
        count == Min({Len(poolTickets[p]) \div n : p \in DOMAIN poolTickets})
        From(i) == [k \in DOMAIN pools |->
                      SubSeq(poolTickets[pools[k]], (i - 1) * n + 1, i * n)]
    IN  [i \in 1 .. count |-> Match(FlattenSeq(From(i)), NoBackfill, 0)]

getOpenSlots(b) == IF b.slots = Unset THEN PlayersPerMatch ELSE b.slots

SlotsLeft(b, taken) == getOpenSlots(b) - taken

\* Backfills first: as many tickets for each as it has open slots.
handleBackfills(tickets, backfills) ==
    LET Fill(acc, b) ==
          LET l == Min({getOpenSlots(b), Len(acc.rest)})
          IN  IF l <= 0 THEN acc
              ELSE [matches |-> Append(acc.matches,
                                  Match(SubSeq(acc.rest, 1, l), b.id, SlotsLeft(b, l))),
                    rest |-> Drop(acc.rest, l)]
    IN  FoldLeft(Fill, [matches |-> <<>>, rest |-> tickets], backfills)

NewMatch(tickets) == Match(tickets, New, PlayersPerMatch - Len(tickets))

\* The backfill example: backfills, then full matches, then a match with a new
\* backfill for the tickets that are left.
BackfillMatches(tickets, backfills) ==
    LET filled == handleBackfills(tickets, backfills)
        left == Leftover(filled.rest, PlayersPerMatch)
    IN  filled.matches \o Chunks(filled.rest, PlayersPerMatch)
          \o (IF left = <<>> THEN <<>> ELSE <<NewMatch(left)>>)

\* statefullMMF: backfills, then not full matches for all other tickets.
statefullMMF(tickets, backfills) ==
    LET filled == handleBackfills(tickets, backfills)
        left == Leftover(filled.rest, MaxNotFull)
        parts == Chunks(filled.rest, MaxNotFull)
    IN  filled.matches \o [i \in DOMAIN parts |-> NewMatch(parts[i].tickets)]
          \o (IF left = <<>> THEN <<>> ELSE <<NewMatch(left)>>)

\* statelessMMF: a match for every backfill, whose slots are not looked at.
statelessMMF(tickets, backfills) ==
    LET Take(acc, b) ==
          LET l == Min({PlayersPerMatch, Len(acc.rest)})
          IN  IF l = 0 THEN acc
              ELSE [matches |-> Append(acc.matches,
                                  Match(SubSeq(acc.rest, 1, l), b.id, b.slots)),
                    rest |-> Drop(acc.rest, l)]
    IN  FoldLeft(Take, [matches |-> <<>>, rest |-> tickets], backfills).matches

\* teamshooter: every run of tickets, sorted by skill, that are close enough.
SkillWindows(tickets, skill) ==
    LET sorted == SortSeq(tickets, LAMBDA t, u : skill[t] < skill[u])
        windows == [i \in 1 .. Len(tickets) - PlayersPerMatch + 1 |->
                      Match(SubSeq(sorted, i, i + PlayersPerMatch - 1), NoBackfill, 0)]
    IN  SelectSeq(windows, LAMBDA w : skill[Last(w.tickets)] - skill[Head(w.tickets)]
                                        < SkillDifference)

\* The quality of a match, minus its variance, times a constant.
Quality(w, skill) ==
    LET Sum(Value(_)) == FoldLeft(LAMBDA acc, t : acc + Value(t), 0, w.tickets)
        total == Sum(LAMBDA t : skill[t])
    IN  total * total - Len(w.tickets) * Sum(LAMBDA t : skill[t] * skill[t])

\* The shards of teamshooter along the skills: they overlap by SkillDifference.

SkillShard(boundaries, i) == [arg |-> "skill",
                              min |-> boundaries[i] - SkillDifference \div 2,
                              max |-> boundaries[i + 1] + SkillDifference \div 2,
                              exclude |-> {}]

teamProfiles(regions, modes, boundaries) ==
    {[ranges |-> {SkillShard(boundaries, i)}, tags |-> {region},
      equals |-> {[arg |-> "mode", value |-> mode]}, after |-> Unset, before |-> Unset] :
        region \in regions, mode \in modes, i \in 1 .. Len(boundaries) - 1}
-----------------------------------------------------------------------------
(* Evaluators of the scenarios. *)

Claim(acc, m) == [used |-> acc.used \cup ToSet(m.tickets),
                  accepted |-> Append(acc.accepted, m)]

\* The first to claim a ticket wins.
fifoEvaluate(matches) ==
    LET Next(acc, m) == IF ToSet(m.tickets) \cap acc.used # {} THEN acc ELSE Claim(acc, m)
    IN  FoldLeft(Next, [used |-> {}, accepted |-> <<>>], matches).accepted

\* teamshooter: higher quality first.
qualityEvaluate(matches, skill) ==
    fifoEvaluate(SortSeq(matches, LAMBDA m, w : Quality(m, skill) > Quality(w, skill)))
=============================================================================
