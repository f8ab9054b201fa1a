---------------------------- MODULE MCLayerMagic ----------------------------
EXTENDS LayerMagic

CONSTANTS a, b, c, MaxList

MCService    == {a, b, c}
MCAssignable == { <<s, s>> : s \in MCService } \cup { <<c, a>> }

gives(P, R) == [provides |-> P, requires |-> R]

\* Layers that need one another in chains, diamonds and cycles; the last
\* passes a service through.
Chain == { gives({a}, {}), gives({a}, {b}), gives({b}, {c}), gives({c}, {}), gives({b}, {a, c}),
           gives({}, {a}), gives({a, b}, {b}) }

\* Layers that provide several services, or nothing, or what they need.
Odd == { gives({c}, {a}), gives({b, c}, {}), gives({}, {}) }

MCLists   == UNION { [1 .. n -> Chain \cup Odd] : n \in 2 .. (MaxList - 1) } \cup
             [1 .. MaxList -> Chain]
MCTargets == { {a}, {b, c}, MCService }
=============================================================================
