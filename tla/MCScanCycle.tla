---------------------------- MODULE MCScanCycle ----------------------------
(* Values for the constants of ScanCycle, one definition for each of *)
(* the bounds that TLC's configuration language cannot write.           *)
EXTENDS ScanCycle, TLC

MCActs == {"HOLD", "EXIT", "ENTER", "REBALANCE"}

Modes(agents, execs) == [agent : agents, exec : execs]

\* Live orders, with the modes in which a proposal replaces a decision.
MCLive == Modes({"supervised", "full"}, {"live"})

\* Live orders under each mode that can change a decision, and the two ways
\* of sending none.
MCSettings ==
    Modes({"veto", "supervised", "full"}, {"live"})
    \cup Modes({"suggest", "supervised"}, {"paper"})
    \cup Modes({"full"}, {"shadow"})

MCFullLive == Modes({"full"}, {"live"})
MCOffLive == Modes({"off"}, {"live"})
MCOwn == {{}} \cup {{[id |-> 1, pool |-> p, own |-> TRUE]} : p \in Watchlist}
\* Also a pool full with a position of the engine's own and one it found.
MCMixed == MCOwn \cup {{[id |-> 1, pool |-> p, own |-> TRUE],
                        [id |-> 2, pool |-> p, own |-> FALSE]} : p \in Watchlist}
MCAdopted == {{[id |-> 1, pool |-> p, own |-> FALSE]} : p \in Watchlist}

=============================================================================
