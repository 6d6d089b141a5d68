----------------------------- MODULE MCLifecycle -------------------------------
EXTENDS Lifecycle, TLC

CONSTANTS r1, r2

MCTransports == <<"http", "grpc">>
MCVia == (r1 :> "http") @@ (r2 :> "grpc")

==============================================================================
