------------------------------ MODULE MCMarket ------------------------------
(* Instances of Market for TLC. *)
EXTENDS MarketLife

G(a, t, g, c, ks) == [action |-> a, type |-> t, gtd |-> g, closing |-> c, kids |-> ks]

\* A stop, a profit taker and a close-on-signal order on one entry, long or
\* short, the entry a market order or a limit order with a deadline.
BracketGroups ==
  {G("buy", "market", GTC, 0, <<"stop", "profit">>),
   G("sell", "limit", 1, 0, <<"stop", "profit">>),
   G("buy", "limit", 2, 0, <<"trail">>)}

\* Orders closed on a signal, which may come before the entry is filled,
\* or not closed at all.
SignalGroups ==
  {G("sell", "limit", GTC, 0, <<"cos", "stop">>),
   G("buy", "limit", 2, 1, <<"profit", "eod">>),
   G("buy", "market", GTC, 0, <<>>)}

\* Both at once.
MixedGroups == BracketGroups \cup SignalGroups

\* An entry order without close orders.
SingleGroups == {G("buy", "market", GTC, 0, <<>>)}

\* An entry with a deadline and one stop.
DeadlineGroups == {G("buy", "limit", 1, 0, <<"stop">>)}

\* An end-of-day order that may start before the entry has filled.
EodGroups == {G("buy", "limit", GTC, 2, <<"eod">>)}

\* A stop and a profit taker that each close a part of the position.
PartGroups == {G("buy", "market", GTC, 0, <<"stop", "profit">>)}
=============================================================================
