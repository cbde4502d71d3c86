------------------------------ MODULE MCDialog ------------------------------
EXTENDS Dialog

CONSTANTS t1, t2

Few == [pause |-> 2, stop |-> 1, requeue |-> 1, kill |-> 1, slip |-> 1]
=============================================================================
