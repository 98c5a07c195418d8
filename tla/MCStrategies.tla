---- MODULE MCStrategies ----
\* Small settings and periods for Strategies.
EXTENDS Strategies

\* Every kind with every switch; counts that no period has, and unset ones.
MCSettings == [min : {Nil, 2}, max : {Nil, 4}, switch : {"absent", "on", "off"}]

MCPeriods == {[type |-> "down", min |-> 0, max |-> 1],
              [type |-> "down", min |-> 1, max |-> 3],
              [type |-> "up", min |-> 3, max |-> 5]}
====
