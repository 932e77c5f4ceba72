------------------------ MODULE MCIdempotentCommands ------------------------
\* One key, two conversations with the same request and one that reuses the
\* key for another request.
EXTENDS IdempotentCommands, TLC

CONSTANTS c1, c2, c3, k1, h1, h2

MCSlots == {c1, c2, c3}
MCKeyOf == [s \in MCSlots |-> k1]
MCHashOf == [s \in MCSlots |-> IF s = c3 THEN h2 ELSE h1]
MCProblems == {"declined"}

\* Two UUIDs per conversation: one it may have left behind as a dead owner
\* of the key, and one for the attempt it is making.
MCTokensOf == [s \in MCSlots |-> {<<s, 1>>, <<s, 2>>}]
MCTokens == UNION {MCTokensOf[s] : s \in MCSlots}
=============================================================================
