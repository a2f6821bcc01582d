-------------------------------- MODULE MCServer --------------------------------
EXTENDS Server
CONSTANTS s1, g1

\* The writer's own interleavings; the two writers of a row, with a minute of
\* two records that leaves memory while the stream runs; a feed with a client of
\* either kind, of which one or the other may stop reading.
MCFeed(stuck, errors) ==
    [topic |-> <<1, 2>>, clients |-> {s1, g1}, stuck |-> stuck, parts |-> {"aggregator", "scorewriter"}, faults |-> errors, ends |-> 1]
MCLoads == { [topic |-> <<1, 1, 2>>, clients |-> {}, stuck |-> {}, parts |-> {"bronze"}, faults |-> 1, ends |-> 1],
             [topic |-> <<1, 1, 2>>, clients |-> {}, stuck |-> {}, parts |-> {"bronze", "aggregator"}, faults |-> 0, ends |-> 1],
             MCFeed({g1}, 1), MCFeed({s1}, 0) }
MCStopLoads == { [topic |-> <<1>>, clients |-> {g1}, stuck |-> {g1}, parts |-> {"bronze", "aggregator"}, faults |-> 0, ends |-> 1] }
MCSSE == {s1}
MCGRPC == {g1}
=============================================================================
