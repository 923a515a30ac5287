-------------------------- MODULE MCReplayReceipts --------------------------
(* Small instances of ReplayOutcomes. *)
EXTENDS ReplayReceiptsProps

Schedule(n) == [i \in 1 .. n |-> [slot |-> i + 1, group |-> i, cutoff |-> i]]
Fixture(policy, groups) ==
    [policy |-> policy, tick |-> 5, schedule |-> Schedule(groups), terminal |-> groups, markets |-> 2,
     sources |-> 1, events |-> groups]

\* The counters of a fixture with three groups do not fit.
MCFixtures == {Fixture("FORCE_CLOSE_NEXT_EVENT", 2), Fixture("LEAVE_MARKED_OPEN", 2),
               Fixture("FORCE_CLOSE_NEXT_EVENT", 3)}

Config(proof_rows) ==
    [min_notional |-> 1, target_notional |-> 2, max_notional |-> 2, price_tick |-> 1,
     proof_rows |-> proof_rows, start |-> 1, end |-> 9]
MCConfigs == {Config(4), Config(8)}

Promotion(key) ==
    [key |-> key, scope |-> key, horizon |-> 1, max_ttl |-> 2, max_uncertainty |-> 1, max_ood |-> 1]
Candidate(path, market, decision) ==
    [path |-> path, length |-> 1, raw |-> path, requested |-> market, decision |-> decision,
     snapshot |-> decision, horizon |-> 1, declared |-> TRUE, producer |-> path, scope |-> market]
MCSignals ==
    LET registry == [promotions |-> <<Promotion(1), Promotion(2)>>]
        garbled == [Candidate(3, 1, 1) EXCEPT !.producer = Null, !.scope = Null, !.declared = FALSE]
    IN  {[registry |-> registry, candidates |-> {Candidate(2, 1, 1), Candidate(1, 2, 2), garbled}],
         [registry |-> registry, candidates |-> {Candidate(1, 1, 1)}]}

Checked(faults, q_cap, extremes) ==
    [faults |-> faults, q_cap |-> q_cap, references |-> 2, extremes |-> extremes]
Sizes == {<<1, 1>>, <<1, 2>>, <<2, 2>>, <<20, 2>>, <<30, 2>>}
MCOutcomes ==
    {<<Checked(f, 1, 2), Checked({}, 1, 1)>> : f \in FewOf(MarketCodes, 2)}
    \cup {<<Checked({f}, 1, 1), Checked({g}, 1, 2)>> : f, g \in MarketCodes}
    \cup {<<Checked({}, s[1], s[2]), Checked({}, t[1], t[2])>> : s, t \in Sizes}

Opinion(action, score, abstain, long, exit) ==
    [accepted |-> TRUE, action |-> action, score |-> score, abstain |-> abstain, long_bias |-> long,
     exit_bias |-> exit, uncertainty |-> 1, ood |-> 0]
MCOpinions == {Opinion("LONG_BIAS", 2, 1, 3, 0), Opinion("ABSTAIN", 0, 4, 0, 0)}

Slot(n, class) ==
    [sequence |-> n, class |-> class, expected |-> IF class = "EXTRA" THEN Null ELSE 7,
     observed |-> IF class = "MISSING" THEN Null ELSE 8, bytes |-> IF class = "MISSING" THEN Null ELSE 9]
Component(rank, ordinal, class) ==
    [rank |-> rank, ordinal |-> ordinal, class |-> class, expected |-> IF class = "EXTRA" THEN Null ELSE 7,
     observed |-> IF class = "MISSING" THEN Null ELSE 8]
MCJournals ==
    LET slots == {<<>>} \cup {<<Slot(3, c)>> : c \in Classifications}
                 \cup {<<Slot(2, c), Slot(3, d)>> : c, d \in Classifications}
        components == {<<>>} \cup {<<Component(1, Null, c)>> : c \in Classifications}
                 \cup {<<Component(2, 0, c), Component(2, 1, d), Component(5, Null, c)>> : c, d \in Classifications}
    IN  {[slots |-> s, components |-> c] : s \in slots, c \in components}
        \ {[slots |-> <<>>, components |-> <<>>]}

Raw(wall, rss, allocations) ==
    [c \in ToSet(Counters) |-> CASE c = "MEASURED_WALL_DURATION" -> wall [] c = "PEAK_RSS_BYTES" -> rss
                                 [] c = "ALLOCATION_COUNT" -> allocations [] OTHER -> 3]
MCTimings ==
    {[raw |-> Raw(IF n = 2 THEN MaxU64 + 1 ELSE n, rss, a), warmup |-> w,
      samples |-> [p \in Phases |-> IF p # "end_to_end" THEN <<1>>
                                    ELSE IF n = 2 THEN <<1, MaxU64>> ELSE [i \in 1 .. n |-> 1]]] :
        n \in 0 .. 2, rss \in {4, MaxU64 + 3}, a \in {Null, 5, MaxU64 + 2}, w \in {0, 1}}
=============================================================================
