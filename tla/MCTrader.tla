------------------------------ MODULE MCTrader ------------------------------
(* Instances of Trader for TLC. *)
EXTENDS TraderSafety

G(a, t, g, c, ks) == [action |-> a, type |-> t, gtd |-> g, closing |-> c, kids |-> ks]

\* The strategy sets used by the trading systems, entries at market.
UsualGroups ==
  {G("buy", "market", GTC, 0, <<"stop", "profit">>),
   G("sell", "market", 2, 2, <<"trail", "eod">>)}

\* A limit entry that may expire, closed by a signal from the trading system.
SignalGroups == {G("buy", "limit", 2, 0, <<"stop", "profit", "cos">>)}

\* Both at once.
MixedGroups == UsualGroups \cup SignalGroups

\* Only closed at the end of the day.
EodGroups == {G("buy", "market", GTC, 2, <<"eod">>)}
\* Request 1 alone goes through any group and all times; a second request,
\* and with it every interleaving of two, only for the signal group and the
\* first times.
PairTime == 3
MCInit == TInit /\ group[2] \in SignalGroups
MCNext ==
  /\ TNext
  /\ cur' = 2 \/ where'[2] # "none" =>
       group[1] \in SignalGroups /\ env_time' <= PairTime /\ gray_bar_end' <= PairTime + 1
MCSpec == /\ MCInit /\ [][MCNext]_vars
          /\ WF_vars(TraderWorks) /\ WF_vars(MarketWorks) /\ WF_vars(CheckSome)
=============================================================================
