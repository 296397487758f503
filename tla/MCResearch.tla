----------------------------- MODULE MCResearch -----------------------------
\* Two underlyings in a handful of market situations.
EXTENDS Research

MCUniverse == <<"SPY", "QQQ">>

Contract(u, kind, bid, ask) ==
    [symbol |-> <<u, kind>>, underlying |-> u, kind |-> kind, bid |-> bid, ask |-> ask,
     deep |-> TRUE, tradable |-> TRUE, hours |-> 48, distance |-> 1]
Feature(volatility, trend, return, rsi) ==
    [volatility |-> volatility, trend |-> trend, return |-> return, rsi |-> rsi]
Calm(u, features, options, positions) ==
    [underlying |-> u, at |-> 0, quoted |-> 0, features |-> features, options |-> options,
     observations |-> options, positions |-> positions, equity |-> 100000, cash |-> 90000,
     account |-> TRUE, official |-> TRUE, open |-> TRUE, working |-> FALSE, recent |-> FALSE,
     drawdown |-> 0, errors |-> FALSE]
Held(u, cost) == [underlying |-> u, cost |-> cost, known |-> TRUE]

Up == Feature(20, 100, 1, 50)
Down == Feature(20, -100, -1, 50)
Cheap == {Contract("SPY", "call", 100, 105), Contract("SPY", "put", 100, 105)}
Rich == {Contract("SPY", "call", 430, 435), Contract("SPY", "put", 430, 435)}
Nasdaq == {Contract("QQQ", "call", 98, 104)}

MCViews == [SPY |-> {Calm("SPY", Up, Cheap, {}), Calm("SPY", Down, Cheap, {}),
                     Calm("SPY", Down, Rich, {Held("QQQ", 1500)}), Calm("SPY", Up, Cheap, {Held("QQQ", 1880)}),
                     [Calm("SPY", Up, Cheap, {}) EXCEPT !.open = FALSE],
                     [Calm("SPY", Up, Rich, {}) EXCEPT !.working = TRUE]},
            QQQ |-> {Calm("QQQ", Up, Nasdaq, {})}]

MCSession == [max_new_risk |-> 450, max_aggregate |-> 1960, max_positions |-> 3, drawdown |-> 100,
              underlyings |-> {"SPY", "QQQ"}, kinds |-> {"call", "put"}, entry |-> TRUE]
=============================================================================
