----------------------------- MODULE MCWatchList -----------------------------
(* The lists of the monitor, as small instances for TLC. *)
EXTENDS WatchList, TLC

CONSTANTS k1, k2, timer, slack, g1, g2

Kept(fileBacked, limit, keys, sweeper, sorter, goroutine) ==
    [fileBacked |-> fileBacked, limit |-> limit, key |-> keys, sweeper |-> sweeper,
     sorter |-> sorter, goroutine |-> goroutine]

\* Gateways or servers, swept by the timer, or one of them by a Slack command too;
\* devices that are tracked while a Slack command sorts, and one that sends two
\* messages at once.
Lists == {Kept(TRUE, 2, {k1, k2}, {timer}, {}, {}),
          Kept(TRUE, 2, {k1}, {timer, slack}, {slack}, {}),
          Kept(FALSE, 1, {k1, k2}, {timer, slack}, {slack}, {g1}),
          Kept(FALSE, 2, {k1}, {timer}, {}, {g1, g2})}

\* Bound: a behaviour is followed up to its first clash.
UpToClash == ~clashed
=============================================================================
