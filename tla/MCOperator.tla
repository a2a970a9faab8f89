----------------------------- MODULE MCOperator -----------------------------
EXTENDS Operator, TLC

=============================================================================
