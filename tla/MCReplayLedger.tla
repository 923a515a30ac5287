--------------------------- MODULE MCReplayLedger ---------------------------
(* Small instances of ReplayLedger. *)
EXTENDS ReplayLedgerProps

MCPrices == <<4, 3, 5>>

MCReasonLists ==
    {<<>>, <<"NO_ACTION">>, <<"EVENT_STALE", "NO_ACTION">>, <<"MAX_NOTIONAL">>,
     <<"INTENT_PENDING">>, <<"KILL_LATCHED">>, <<"CONFIG_MISSING">>,
     <<"SESSION_LOSS", "DRAWDOWN", "INTENT_PENDING">>,
     <<"SEQUENCE_INVALID", "STATE_UNRECONCILED">>,
     <<"RUN_END_EXIT">>, <<"DRAWDOWN", "KILL_EXIT", "TAKE_TRIGGERED">>,
     \* lists that no decision may have
     <<"NO_ACTION", "EVENT_STALE">>, <<"STATE_UNRECONCILED", "DECIMALS_MISMATCH">>,
     <<"SESSION_CLOSED", "MAX_NOTIONAL">>}

Bias(abstain, long, exit, score) ==
    [abstain |-> abstain, long_bias |-> long, exit_bias |-> exit, score |-> score]

MCBiases == {Bias(1, 3, 0, 2), Bias(1, 0, 3, -2), Bias(0, 2, 2, 0)}
=============================================================================
