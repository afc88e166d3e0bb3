----------------------------- MODULE MCChannels -----------------------------
EXTENDS Channels, TLC

CONSTANTS p1, p2, p3, p4, a, b

Sym == Permutations(Progs)

Caps == [c \in {a, b} |-> IF c = a THEN 0 ELSE 1]

Table(s, r) == [send |-> s, recv |-> r, nilref |-> FALSE]

\* Tables that name a channel once, and one with a nil channel as well.
PlainAlts == {Table(<<a>>, <<b>>), Table(<<b>>, <<a>>), Table(<<>>, <<a, b>>),
              [Table(<<a>>, <<b>>) EXCEPT !.nilref = TRUE]}

\* An array of channels may name a channel twice; QueuesExact fails with it.
TwiceAlts == {Table(<<>>, <<a, a>>)}

=============================================================================
