------------------------------ MODULE MCCheckPath ------------------------------
EXTENDS CheckPath, TLC

==============================================================================
