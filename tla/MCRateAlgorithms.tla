--------------------------- MODULE MCRateAlgorithms ---------------------------
EXTENDS RateAlgorithms

P(algo, limit, window, burst) ==
    [algo |-> algo, limit |-> limit, window |-> window, burst |-> burst]

\* Two rules of each algorithm: a smaller limit, another window, none at all.
MCParams ==
    {P("fixed", 3, 2, 0), P("fixed", 2, 3, 0),
     P("sliding", 3, 2, 0), P("sliding", 2, 2, 0), P("sliding", 2, 0, 0),
     P("bucket", 2, 3, 4), P("bucket", 3, 2, 1)}

==============================================================================
