--------------------------- MODULE MCPrestoQuery ---------------------------
EXTENDS PrestoQuery

CONSTANTS select,         \* a statement of an agent
          create, load    \* a seed run: DDL, then the rows

MCSeeds == <<create, load>>

MCPagesOf == [q \in Statements |-> IF q = select THEN 2 ELSE 0]

MCNeeds == [q \in Statements |-> IF q = load THEN {create} ELSE {}]
=============================================================================
