-------------------------- MODULE LayerMagicProofs --------------------------
(***************************************************************************)
(* Proofs about LayerMagic, for any services, lists of layers and targets. *)
(***************************************************************************)
EXTENDS LayerMagic, SequenceTheorems, FiniteSetTheorems, NaturalsInduction, TLAPS

(***************************************************************************)
(* A nonempty set of naturals has a least element: the only form of        *)
(* induction used here.                                                    *)
(***************************************************************************)
LEMMA LeastNatural ==
  ASSUME NEW S, S \subseteq Nat, S # {}
  PROVE  \E x \in S : \A y \in S : x <= y
<1> DEFINE R == OpToRel(<, Nat)
<1>1. IsWellFoundedOn(R, Nat)
  BY NatLessThanWellFounded
<1>2. \A x, y \in Nat : <<x, y>> \in R <=> x < y
  BY DEF OpToRel
<1>3. PICK x \in S : \A y \in S : ~ (<<y, x>> \in R)
  <2> HIDE DEF R
  <2> QED BY <1>1, WFMin, Zenon
<1>4. ASSUME NEW y \in S PROVE x <= y
  <2>1. x \in Nat /\ y \in Nat /\ ~ (y < x)
    BY <1>2, <1>3
  <2> QED BY <2>1
<1> QED BY <1>4

-----------------------------------------------------------------------------
\* The input keeps its type, and every set of services is finite.
InputOK == layers \in Seq(Layer) /\ target \subseteq Service

LEMMA ServicesCounted == \A S \in SUBSET Service : Cardinality(S) \in Nat
BY InputsType, FS_Subset, FS_CardinalityType

LEMMA NodesFinite ==
  ASSUME InputOK
  PROVE  /\ Node = 1 .. Len(layers) /\ Node \subseteq Nat
         /\ \A N \in SUBSET Node : IsFiniteSet(N) /\ Cardinality(N) \in Nat
         /\ \A n \in Node : layers[n] \in Layer
<1>1. Node = 1 .. Len(layers) /\ Len(layers) \in Nat /\ (\A n \in Node : layers[n] \in Layer)
  BY DEF Node, InputOK
<1>2. IsFiniteSet(Node)
  BY <1>1, FS_Interval
<1>3. \A N \in SUBSET Node : IsFiniteSet(N)
  BY <1>2, FS_Subset
<1>4. \A N \in SUBSET Node : Cardinality(N) \in Nat
  BY <1>3, FS_CardinalityType
<1> QED BY <1>1, <1>3, <1>4

-----------------------------------------------------------------------------
(***************************************************************************)
(* The order of the neighbors is total, so sorting keeps them all.         *)
(***************************************************************************)
LEMMA OrderIsTotal ==
  ASSUME InputOK
  PROVE  /\ \A m \in Node : ~ compareNodesByOrder(m, m)
         /\ \A l, m, n \in Node :
              compareNodesByOrder(l, m) /\ compareNodesByOrder(m, n) => compareNodesByOrder(l, n)
         /\ \A m, n \in Node : m # n => compareNodesByOrder(m, n) \/ compareNodesByOrder(n, m)
<1>1. \A n \in Node : /\ n \in Nat /\ layerOrderRank(n) \in Nat
                      /\ Cardinality(layers[n].provides) \in Nat
                      /\ Cardinality(layers[n].requires) \in Nat
  <2> SUFFICES ASSUME NEW n \in Node
               PROVE  /\ n \in Nat /\ layerOrderRank(n) \in Nat
                      /\ Cardinality(layers[n].provides) \in Nat
                      /\ Cardinality(layers[n].requires) \in Nat
    OBVIOUS
  <2>1. n \in Nat /\ layers[n].provides \in SUBSET Service /\ layers[n].requires \in SUBSET Service
    BY NodesFinite DEF Layer
  <2>2. layerOrderRank(n) \in Nat
    BY DEF layerOrderRank
  <2> QED BY <2>1, <2>2, ServicesCounted
<1>2. \A m \in Node : ~ compareNodesByOrder(m, m)
  BY <1>1 DEF compareNodesByOrder
<1>3. \A m, n \in Node : m # n => compareNodesByOrder(m, n) \/ compareNodesByOrder(n, m)
  BY <1>1 DEF compareNodesByOrder
<1>4. \A l, m, n \in Node :
        compareNodesByOrder(l, m) /\ compareNodesByOrder(m, n) => compareNodesByOrder(l, n)
  BY <1>1 DEF compareNodesByOrder
<1> QED BY <1>2, <1>3, <1>4

LEMMA SortedKeepsAll ==
  ASSUME InputOK, NEW N \in SUBSET Node
  PROVE  /\ Cardinality(N) \in Nat
         /\ Sorted(N) \in [1 .. Cardinality(N) -> N]
         /\ \A n \in N : \E i \in 1 .. Cardinality(N) : Sorted(N)[i] = n
<1> DEFINE before(n) == { m \in N : compareNodesByOrder(m, n) }
           place     == [n \in N |-> Cardinality(before(n))]
           k         == Cardinality(N)
<1>0. IsFiniteSet(N) /\ k \in Nat /\ N \subseteq Node
  BY NodesFinite
<1>1. \A n \in N : before(n) \in SUBSET N /\ IsFiniteSet(before(n)) /\ Cardinality(before(n)) \in Nat
  BY <1>0, NodesFinite
<1>2. \A n \in N : place[n] \in 0 .. (k - 1)
  <2> SUFFICES ASSUME NEW n \in N PROVE Cardinality(before(n)) \in 0 .. (k - 1)
    OBVIOUS
  <2>1. n \notin before(n)
    BY <1>0, OrderIsTotal
  <2>2. Cardinality(before(n)) <= k /\ (k = Cardinality(before(n)) => N = before(n))
    BY <1>0, <1>1, FS_Subset
  <2>3. Cardinality(before(n)) # k
    BY <2>1, <2>2
  <2> HIDE DEF k, before
  <2> QED BY <2>2, <2>3, <1>0, <1>1
<1>3. ASSUME NEW m \in N, NEW n \in N, compareNodesByOrder(m, n)
      PROVE  place[m] < place[n]
  <2>1. before(m) \in SUBSET before(n)
    BY <1>0, <1>3, OrderIsTotal
  <2>2. m \in before(n) /\ m \notin before(m)
    BY <1>0, <1>3, OrderIsTotal
  <2>3. /\ Cardinality(before(m)) <= Cardinality(before(n))
        /\ Cardinality(before(n)) = Cardinality(before(m)) => before(n) = before(m)
    BY <2>1, <1>1, FS_Subset
  <2>4. Cardinality(before(m)) # Cardinality(before(n))
    BY <2>2, <2>3
  <2>5. Cardinality(before(m)) \in Nat /\ Cardinality(before(n)) \in Nat
    BY <1>1
  <2>6. place[m] = Cardinality(before(m)) /\ place[n] = Cardinality(before(n))
    OBVIOUS
  <2> HIDE DEF place, before
  <2> QED BY <2>3, <2>4, <2>5, <2>6
<1>4. \A m, n \in N : place[m] = place[n] => m = n
  <2> SUFFICES ASSUME NEW m \in N, NEW n \in N, m # n PROVE place[m] # place[n]
    OBVIOUS
  <2>1. place[m] \in 0 .. (k - 1) /\ place[n] \in 0 .. (k - 1)
    BY <1>2
  <2>2. compareNodesByOrder(m, n) \/ compareNodesByOrder(n, m)
    BY <1>0, OrderIsTotal
  <2>3. place[m] < place[n] \/ place[n] < place[m]
    BY <2>2, <1>3
  <2> HIDE DEF place
  <2> QED BY <2>1, <2>3, <1>0
<1>5. place \in Injection(N, 0 .. (k - 1))
  <2>1. place \in [N -> 0 .. (k - 1)]
    BY <1>2
  <2> HIDE DEF place
  <2> QED BY <2>1, <1>4 DEF Injection, IsInjective
<1>6. place \in Surjection(N, 0 .. (k - 1))
  <2>1. IsFiniteSet(0 .. (k - 1)) /\ Cardinality(0 .. (k - 1)) = k
    <3>1. 0 \in Int /\ k - 1 \in Int
      BY <1>0
    <3>2. /\ IsFiniteSet(0 .. (k - 1))
          /\ Cardinality(0 .. (k - 1)) = IF 0 > k - 1 THEN 0 ELSE (k - 1) - 0 + 1
      BY <3>1, FS_Interval
    <3> HIDE DEF k
    <3> QED BY <3>2, <1>0
  <2> HIDE DEF place
  <2> QED BY <1>5, <2>1, FS_Injection
<1>7. \A i \in 1 .. k : Sorted(N)[i] \in N /\ place[Sorted(N)[i]] = i - 1
  <2> SUFFICES ASSUME NEW i \in 1 .. k PROVE Sorted(N)[i] \in N /\ place[Sorted(N)[i]] = i - 1
    OBVIOUS
  <2>1. i - 1 \in 0 .. (k - 1)
    BY <1>0
  <2>2. \E n \in N : place[n] = i - 1
    BY <2>1, <1>6 DEF Surjection
  <2>3. Sorted(N)[i] = CHOOSE n \in N : Cardinality(before(n)) = i - 1
    BY DEF Sorted
  <2> QED BY <2>2, <2>3
<1>8. ASSUME NEW n \in N PROVE \E i \in 1 .. k : Sorted(N)[i] = n
  <2>1. place[n] + 1 \in 1 .. k /\ (place[n] + 1) - 1 = place[n]
    <3> HIDE DEF place, k
    <3> QED BY <1>2, <1>0
  <2>2. Sorted(N)[place[n] + 1] \in N /\ place[Sorted(N)[place[n] + 1]] = place[n]
    <3>1. PICK i \in 1 .. k : i = place[n] + 1 /\ i - 1 = place[n]
      BY <2>1
    <3> HIDE DEF place, k
    <3> QED BY <3>1, <1>7
  <2>3. Sorted(N)[place[n] + 1] = n
    BY <2>2, <1>4
  <2> QED BY <2>1, <2>3
<1> QED BY <1>0, <1>7, <1>8 DEF Sorted

-----------------------------------------------------------------------------
(***************************************************************************)
(* The search.  A node is open from when it is expanded until it is        *)
(* placed.  The entries between an open entry and the next one above it    *)
(* are nodes that need it, so that the open nodes form a chain.            *)
(***************************************************************************)
Open(i) == stack[i].expanded

\* Discovered nodes are open once, or placed once, and not both.
DiscoveredInv ==
  /\ \A n \in Node : n \in discovered <=>
       n \in ToSet(order) \/ \E i \in DOMAIN stack : Open(i) /\ stack[i].node = n
  /\ \A i, j \in DOMAIN stack : Open(i) /\ Open(j) /\ stack[i].node = stack[j].node => i = j
  /\ \A i \in DOMAIN stack : Open(i) => stack[i].node \notin ToSet(order)
  /\ \A i, j \in DOMAIN order : order[i] = order[j] => i = j

ChainInv ==
  \A i, j \in DOMAIN stack :
    i < j /\ Open(j) /\ (\A l \in (i + 1) .. (j - 1) : ~ Open(l)) => Needs(stack[i].node, stack[j].node)

\* No node is forgotten that a root leads to.
PushedInv ==
  /\ \A j \in DOMAIN stack : Open(j) => \A m \in Neighbors(stack[j].node) :
       m \in discovered \/ \E i \in 1 .. (j - 1) : stack[i].node = m
  /\ \A i \in DOMAIN order : Neighbors(order[i]) \subseteq discovered
  /\ \A r \in Roots : r \in discovered \/ \E i \in DOMAIN stack : stack[i].node = r

SearchInv ==
  /\ DiscoveredInv /\ ChainInv /\ PushedInv /\ RequirersFirst
  /\ pc # "search" => stack = << >>

SearchType ==
  /\ InputOK /\ stack \in Seq(Entry) /\ discovered \subseteq Node /\ order \in Seq(Node)

LEMMA EntriesProperties ==
  ASSUME InputOK, NEW N \in SUBSET Node
  PROVE  /\ Entries(N) \in Seq(Entry) /\ Len(Entries(N)) \in Nat
         /\ \A i \in 1 .. Len(Entries(N)) : ~ Entries(N)[i].expanded /\ Entries(N)[i].node \in N
         /\ \A n \in N : \E i \in 1 .. Len(Entries(N)) : Entries(N)[i].node = n
<1>1. PICK k \in Nat : k = Cardinality(N)
  BY SortedKeepsAll
<1>2. \A i \in 1 .. k : Sorted(N)[i] \in N
  BY <1>1, SortedKeepsAll
<1>3. Entries(N) = [i \in 1 .. k |-> [node |-> Sorted(N)[i], expanded |-> FALSE]]
  BY <1>1 DEF Entries
<1>4. Entries(N) \in Seq(Entry) /\ Len(Entries(N)) = k
  BY <1>2, <1>3 DEF Entry
<1>5. \A i \in 1 .. k : ~ Entries(N)[i].expanded /\ Entries(N)[i].node = Sorted(N)[i]
  BY <1>3
<1>6. \A n \in N : \E i \in 1 .. k : Sorted(N)[i] = n
  BY <1>1, SortedKeepsAll
<1> QED BY <1>2, <1>4, <1>5, <1>6

\* The top is replaced by itself, expanded, below new entries for the nodes N.
ExpandedInto(t, N) ==
  \E k \in Nat :
    /\ DOMAIN t = 1 .. (Len(stack) + k) /\ Len(stack) \in Nat
    /\ \A i \in 1 .. k : ~ t[i].expanded /\ t[i].node \in N
    /\ \A n \in N : \E i \in 1 .. k : t[i].node = n
    /\ \A i \in 1 .. Len(stack) :
         /\ t[i + k].node = stack[i].node
         /\ t[i + k].expanded <=> (i = 1 \/ stack[i].expanded)

LEMMA ExpandedStack ==
  ASSUME SearchType, stack # << >>, NEW N \in SUBSET Node, NEW t,
         t = Entries(N) \o << [node |-> Head(stack).node, expanded |-> TRUE] >> \o Tail(stack)
  PROVE  t \in Seq(Entry) /\ ExpandedInto(t, N)
<1>1. /\ stack \in Seq(Entry) /\ Len(stack) \in Nat \ {0} /\ Head(stack) = stack[1]
      /\ stack[1] \in Entry /\ Tail(stack) \in Seq(Entry) /\ Len(Tail(stack)) = Len(stack) - 1
      /\ \A i \in 1 .. (Len(stack) - 1) : Tail(stack)[i] = stack[i + 1]
  <2>1. stack \in Seq(Entry) /\ Len(stack) \in Nat \ {0}
    BY EmptySeq DEF SearchType
  <2>2. /\ Tail(stack) \in Seq(Entry) /\ Len(Tail(stack)) = Len(stack) - 1
        /\ \A i \in 1 .. Len(Tail(stack)) : Tail(stack)[i] = stack[i + 1]
    BY <2>1, HeadTailProperties
  <2>3. Head(stack) = stack[1] /\ stack[1] \in Entry
    BY <2>1, ElementOfSeq
  <2> QED BY <2>1, <2>2, <2>3
<1>2. PICK k \in Nat : k = Len(Entries(N))
  BY EntriesProperties DEF SearchType
<1>3. PICK mid \in Seq(Entry) : mid = << [node |-> stack[1].node, expanded |-> TRUE] >>
  <2>1. [node |-> stack[1].node, expanded |-> TRUE] \in Entry
    BY <1>1 DEF Entry
  <2>2. PICK x \in Entry : x = [node |-> stack[1].node, expanded |-> TRUE]
    BY <2>1
  <2>3. <<x>> \in Seq(Entry)
    OBVIOUS
  <2> QED BY <2>2, <2>3
<1>4. Len(mid) = 1 /\ mid[1].node = stack[1].node /\ mid[1].expanded
  BY <1>3
<1>5. PICK e \in Seq(Entry) : e = Entries(N)
  BY EntriesProperties DEF SearchType
<1>6. PICK f \in Seq(Entry) : f = e \o mid
  BY ConcatProperties
<1>7. /\ Len(f) = k + 1 /\ (\A i \in 1 .. k : f[i] = e[i]) /\ f[k + 1] = mid[1]
  <2>1. /\ Len(f) = Len(e) + Len(mid)
        /\ \A i \in 1 .. (Len(e) + Len(mid)) :
             f[i] = IF i <= Len(e) THEN e[i] ELSE mid[i - Len(e)]
    BY <1>6, ConcatProperties
  <2>2. /\ Len(f) = k + 1
        /\ \A i \in 1 .. (k + 1) : f[i] = IF i <= k THEN e[i] ELSE mid[i - k]
    BY <2>1, <1>2, <1>4, <1>5
  <2>3. k + 1 \in 1 .. (k + 1) /\ ~ (k + 1 <= k) /\ (k + 1) - k = 1
    BY <1>2
  <2>4. f[k + 1] = mid[1]
    BY <2>2, <2>3
  <2>5. \A i \in 1 .. k : f[i] = e[i]
    BY <2>2, <1>2
  <2> QED BY <2>2, <2>4, <2>5
<1>8. t = f \o Tail(stack)
  BY <1>1, <1>3, <1>5, <1>6
<1>9. /\ t \in Seq(Entry) /\ Len(t) = k + Len(stack)
      /\ \A i \in 1 .. (k + Len(stack)) : t[i] = IF i <= k + 1 THEN f[i] ELSE Tail(stack)[i - (k + 1)]
  <2>1. PICK r \in Seq(Entry) : r = Tail(stack)
    BY <1>1
  <2>2. /\ t \in Seq(Entry) /\ Len(t) = Len(f) + Len(r)
        /\ \A i \in 1 .. (Len(f) + Len(r)) :
             t[i] = IF i <= Len(f) THEN f[i] ELSE r[i - Len(f)]
    <3>1. t = f \o r
      BY <2>1, <1>8
    <3>2. /\ f \o r \in Seq(Entry) /\ Len(f \o r) = Len(f) + Len(r)
          /\ \A i \in 1 .. (Len(f) + Len(r)) :
               (f \o r)[i] = IF i <= Len(f) THEN f[i] ELSE r[i - Len(f)]
      BY ConcatProperties
    <3> QED BY <3>1, <3>2
  <2>3. Len(f) + Len(r) = k + Len(stack)
    BY <2>1, <1>1, <1>2, <1>7
  <2>4. PICK l \in Int : l = Len(f) /\ l = k + 1
    BY <1>2, <1>7
  <2>5. \A i \in 1 .. (k + Len(stack)) : t[i] = IF i <= l THEN f[i] ELSE r[i - l]
    BY <2>2, <2>3, <2>4
  <2>6. \A i \in 1 .. (k + Len(stack)) : t[i] = IF i <= k + 1 THEN f[i] ELSE r[i - (k + 1)]
    BY <2>4, <2>5
  <2> QED BY <2>1, <2>2, <2>3, <2>6
<1>10. DOMAIN t = 1 .. (Len(stack) + k)
  BY <1>1, <1>2, <1>9
<1>11. \A i \in 1 .. k : t[i] = e[i]
  BY <1>1, <1>2, <1>7, <1>9
<1>12. ASSUME NEW i \in 1 .. Len(stack)
       PROVE  /\ t[i + k].node = stack[i].node
              /\ t[i + k].expanded <=> (i = 1 \/ stack[i].expanded)
  <2>1. CASE i = 1
    <3>1. 1 + k = k + 1 /\ k + 1 \in 1 .. (k + Len(stack)) /\ k + 1 <= k + 1
      BY <1>1, <1>2
    <3>2. t[k + 1] = f[k + 1]
      BY <3>1, <1>9
    <3> QED BY <2>1, <3>1, <3>2, <1>4, <1>7
  <2>2. CASE i # 1
    <3>1. /\ i + k \in 1 .. (k + Len(stack)) /\ ~ (i + k <= k + 1)
          /\ (i + k) - (k + 1) = i - 1 /\ i - 1 \in 1 .. (Len(stack) - 1) /\ (i - 1) + 1 = i
      BY <2>2, <1>1, <1>2
    <3>2. t[i + k] = Tail(stack)[i - 1]
      BY <3>1, <1>9
    <3>3. Tail(stack)[i - 1] = stack[i]
      BY <3>1, <1>1
    <3> QED BY <2>2, <3>2, <3>3
  <2> QED BY <2>1, <2>2
<1>13. /\ \A i \in 1 .. k : ~ e[i].expanded /\ e[i].node \in N
       /\ \A n \in N : \E i \in 1 .. k : e[i].node = n
  BY <1>2, <1>5, EntriesProperties DEF SearchType
<1>14. /\ \A i \in 1 .. k : ~ t[i].expanded /\ t[i].node \in N
       /\ \A n \in N : \E i \in 1 .. k : t[i].node = n
  BY <1>11, <1>13
<1>15. /\ DOMAIN t = 1 .. (Len(stack) + k) /\ Len(stack) \in Nat
       /\ \A i \in 1 .. k : ~ t[i].expanded /\ t[i].node \in N
       /\ \A n \in N : \E i \in 1 .. k : t[i].node = n
       /\ \A i \in 1 .. Len(stack) :
            /\ t[i + k].node = stack[i].node
            /\ t[i + k].expanded <=> (i = 1 \/ stack[i].expanded)
  BY <1>1, <1>10, <1>12, <1>14
<1>16. ExpandedInto(t, N)
  BY <1>2, <1>15 DEF ExpandedInto
<1> QED BY <1>9, <1>16

LEMMA SameGraph ==
  ASSUME UNCHANGED layers
  PROVE  /\ Node' = Node /\ Entry' = Entry /\ Roots' = Roots /\ Entangled' = Entangled
         /\ \A m : Neighbors(m)' = Neighbors(m)
         /\ \A m, n : Needs(m, n)' <=> Needs(m, n)
<1>1. Node' = Node /\ \A m : ActualProvides(m)' = ActualProvides(m)
  BY DEF Node, ActualProvides
<1>2. \A m, n : Needs(m, n)' <=> Needs(m, n)
  BY <1>1 DEF Needs
<1> QED BY <1>1, <1>2 DEF Entry, Roots, Entangled, Neighbors

LEMMA RequirersKept ==
  ASSUME RequirersFirst, UNCHANGED <<layers, order>> PROVE RequirersFirst'
<1>0. layers' = layers /\ order' = order
  OBVIOUS
<1>1. PICK E : E = Entangled /\ E = Entangled'
  BY SameGraph
<1>2. \A i \in DOMAIN order : \A m \in Neighbors(order[i]) :
        (\E j \in 1 .. (i - 1) : order[j] = m) \/ order[i] \in E
  BY <1>1 DEF RequirersFirst
<1>3. (\A i \in DOMAIN order : \A m \in Neighbors(order[i]) :
        (\E j \in 1 .. (i - 1) : order[j] = m) \/ order[i] \in E)'
  BY <1>0, <1>2 DEF Neighbors, Needs, ActualProvides, Node
<1> QED BY <1>1, <1>3 DEF RequirersFirst

LEMMA Positions ==
  ASSUME SearchType, stack # << >>
  PROVE  /\ Len(stack) \in Nat \ {0} /\ DOMAIN stack = 1 .. Len(stack) /\ 1 \in DOMAIN stack
         /\ Head(stack) = stack[1] /\ \A i \in DOMAIN stack : stack[i].node \in Node
<1>1. stack \in Seq(Entry) /\ Len(stack) \in Nat \ {0} /\ DOMAIN stack = 1 .. Len(stack)
  BY EmptySeq, LenProperties DEF SearchType
<1>2. \A i \in DOMAIN stack : stack[i] \in Entry
  BY <1>1, ElementOfSeq
<1> QED BY <1>1, <1>2 DEF Entry

LEMMA ExpandSafe ==
  ASSUME SearchType, SearchInv, Expand
  PROVE  SearchType' /\ SearchInv'
<1>1. /\ pc = "search" /\ pc' = "search" /\ stack # << >> /\ order' = order
      /\ layers' = layers /\ target' = target
  BY DEF Expand, input
<1>2. PICK L \in Nat \ {0} : L = Len(stack) /\ DOMAIN stack = 1 .. L /\ Head(stack) = stack[1]
  BY <1>1, Positions
<1>3. PICK n \in Node : n = stack[1].node
  BY <1>1, <1>2, Positions
<1>4. n \notin discovered /\ discovered' = discovered \cup {n}
  BY <1>2, <1>3 DEF Expand
<1>5. PICK N \in SUBSET Node : N = Neighbors(n) \ discovered'
  BY DEF Neighbors
<1>6. stack' = Entries(N) \o << [node |-> Head(stack).node, expanded |-> TRUE] >> \o Tail(stack)
  BY <1>2, <1>3, <1>5 DEF Expand
<1>7. stack' \in Seq(Entry) /\ ExpandedInto(stack', N)
  <2>1. PICK t : t = stack'
    OBVIOUS
  <2>2. t = Entries(N) \o << [node |-> Head(stack).node, expanded |-> TRUE] >> \o Tail(stack)
    BY <1>6, <2>1
  <2>3. t \in Seq(Entry) /\ ExpandedInto(t, N)
    BY <1>1, <2>2, ExpandedStack
  <2> QED BY <2>1, <2>3
<1>8. PICK k \in Nat :
        /\ DOMAIN stack' = 1 .. (L + k)
        /\ \A i \in 1 .. k : ~ stack'[i].expanded /\ stack'[i].node \in N
        /\ \A m \in N : \E i \in 1 .. k : stack'[i].node = m
        /\ \A i \in 1 .. L : /\ stack'[i + k].node = stack[i].node
                             /\ stack'[i + k].expanded <=> (i = 1 \/ stack[i].expanded)
  BY <1>2, <1>7 DEF ExpandedInto
<1>9. \A i \in DOMAIN stack' : i \in 1 .. k \/ \E j \in 1 .. L : i = j + k
  <2> SUFFICES ASSUME NEW i \in 1 .. (L + k), i \notin 1 .. k PROVE \E j \in 1 .. L : i = j + k
    BY <1>8
  <2>1. i - k \in 1 .. L /\ i = (i - k) + k
    OBVIOUS
  <2> QED BY <2>1
<1>10. \A i \in 1 .. L : i + k \in DOMAIN stack' /\ i \in Nat
  BY <1>8
<1>11. /\ \A m \in Node : m \in discovered <=>
            m \in ToSet(order) \/ \E i \in 1 .. L : stack[i].expanded /\ stack[i].node = m
       /\ \A i, j \in 1 .. L :
            stack[i].expanded /\ stack[j].expanded /\ stack[i].node = stack[j].node => i = j
       /\ \A i \in 1 .. L : stack[i].expanded => stack[i].node \notin ToSet(order)
       /\ \A i, j \in DOMAIN order : order[i] = order[j] => i = j
       /\ \A i \in 1 .. L : stack[i].node \in Node
       /\ 1 \in 1 .. L
  BY <1>1, <1>2, Positions DEF SearchInv, DiscoveredInv, Open
<1>12. \A i \in 1 .. L : stack[i].expanded => i # 1 /\ stack[i].node # n
  BY <1>3, <1>4, <1>11
<1>13. SearchType'
  BY <1>1, <1>3, <1>4, <1>7, SameGraph DEF SearchType, InputOK
<1>14. DiscoveredInv'
  <2>1. ASSUME NEW m \in Node
        PROVE  m \in discovered' <=>
                 m \in ToSet(order) \/ \E i \in DOMAIN stack' : stack'[i].expanded /\ stack'[i].node = m
    <3>1. ASSUME NEW i \in DOMAIN stack', stack'[i].expanded, stack'[i].node = m
          PROVE  m \in discovered'
      <4>1. PICK j \in 1 .. L : i = j + k
        BY <1>8, <1>9, <3>1
      <4>2. (j = 1 \/ stack[j].expanded) /\ stack[j].node = m
        BY <1>8, <3>1, <4>1
      <4> QED BY <1>3, <1>4, <1>11, <4>2
    <3>2. ASSUME m \in discovered', m \notin ToSet(order)
          PROVE  \E i \in DOMAIN stack' : stack'[i].expanded /\ stack'[i].node = m
      <4>1. \E j \in 1 .. L : (j = 1 \/ stack[j].expanded) /\ stack[j].node = m
        BY <1>3, <1>4, <1>11, <3>2
      <4> QED BY <4>1, <1>8, <1>10
    <3> QED BY <3>1, <3>2, <1>4, <1>11
  <2>2. ASSUME NEW i \in DOMAIN stack', NEW j \in DOMAIN stack',
               stack'[i].expanded, stack'[j].expanded, stack'[i].node = stack'[j].node
        PROVE  i = j
    <3>0. PICK p \in 1 .. L : i = p + k
      BY <1>8, <1>9, <2>2
    <3>1. PICK q \in 1 .. L : j = q + k
      BY <1>8, <1>9, <2>2
    <3>2. /\ p = 1 \/ stack[p].expanded
          /\ q = 1 \/ stack[q].expanded
          /\ stack[p].node = stack[q].node
      BY <1>8, <2>2, <3>0, <3>1
    <3>3. p = q
      BY <3>2, <1>3, <1>11, <1>12
    <3> QED BY <3>0, <3>1, <3>3
  <2>3. ASSUME NEW i \in DOMAIN stack', stack'[i].expanded PROVE stack'[i].node \notin ToSet(order)
    <3>1. PICK p \in 1 .. L : i = p + k
      BY <1>8, <1>9, <2>3
    <3>2. (p = 1 \/ stack[p].expanded) /\ stack'[i].node = stack[p].node
      BY <1>8, <2>3, <3>1
    <3> QED BY <3>2, <1>3, <1>4, <1>11
  <2>4. Node' = Node /\ ToSet(order)' = ToSet(order)
    BY <1>1, SameGraph DEF ToSet
  <2> QED BY <2>1, <2>2, <2>3, <2>4, <1>1, <1>11 DEF DiscoveredInv, Open
<1>15. ChainInv'
  <2>1. ASSUME NEW i \in DOMAIN stack', NEW j \in DOMAIN stack', i < j, stack'[j].expanded,
               \A l \in (i + 1) .. (j - 1) : ~ stack'[l].expanded
        PROVE  Needs(stack'[i].node, stack'[j].node)
    <3>1. PICK q \in 1 .. L : j = q + k
      BY <1>8, <1>9, <2>1
    <3>2. CASE i \in 1 .. k
      <4>1. 1 + k \in (i + 1) .. (j - 1) \/ q = 1
        BY <3>1, <3>2
      <4>2. stack'[1 + k].expanded
        BY <1>8, <1>11
      <4>3. q = 1
        BY <4>1, <4>2, <2>1
      <4>4. stack'[i].node \in Neighbors(n) /\ stack'[j].node = n
        BY <4>3, <3>1, <3>2, <1>3, <1>5, <1>8
      <4> QED BY <4>4 DEF Neighbors
    <3>3. CASE \E p \in 1 .. L : i = p + k
      <4>1. PICK p \in 1 .. L : i = p + k
        BY <3>3
      <4>2. p < q /\ q # 1
        BY <4>1, <3>1, <2>1
      <4>3. stack[q].expanded /\ stack'[i].node = stack[p].node /\ stack'[j].node = stack[q].node
        BY <4>1, <4>2, <3>1, <2>1, <1>8
      <4>4. ASSUME NEW l \in (p + 1) .. (q - 1) PROVE ~ stack[l].expanded
        <5>1. l + k \in (i + 1) .. (j - 1) /\ l \in 1 .. L
          BY <4>1, <3>1
        <5> QED BY <5>1, <2>1, <1>8
      <4>5. Needs(stack[p].node, stack[q].node)
        BY <4>2, <4>3, <4>4, <1>2 DEF SearchInv, ChainInv, Open
      <4> QED BY <4>3, <4>5
    <3> QED BY <3>2, <3>3, <1>9
  <2>2. \A m, o : Needs(m, o)' <=> Needs(m, o)
    BY <1>1, SameGraph
  <2>3. \A i, j \in DOMAIN stack' :
          i < j /\ stack'[j].expanded /\ (\A l \in (i + 1) .. (j - 1) : ~ stack'[l].expanded)
            => Needs(stack'[i].node, stack'[j].node)
    BY <2>1
  <2> QED BY <2>2, <2>3, <1>1 DEF ChainInv, Open, Needs, ActualProvides
<1>16. PushedInv'
  <2>1. ASSUME NEW j \in DOMAIN stack', stack'[j].expanded, NEW m \in Neighbors(stack'[j].node)
        PROVE  m \in discovered' \/ \E i \in 1 .. (j - 1) : stack'[i].node = m
    <3>1. PICK q \in 1 .. L : j = q + k
      BY <1>8, <1>9, <2>1
    <3>2. CASE q = 1
      <4>1. m \in Neighbors(n) /\ j - 1 = k
        BY <3>1, <3>2, <2>1, <1>3, <1>8
      <4>2. m \in discovered' \/ m \in N
        BY <4>1, <1>5
      <4> QED BY <4>1, <4>2, <1>8
    <3>3. CASE q # 1
      <4>1. stack[q].expanded /\ stack'[j].node = stack[q].node
        BY <3>1, <3>3, <2>1, <1>8
      <4>2. m \in discovered \/ \E i \in 1 .. (q - 1) : stack[i].node = m
        BY <4>1, <2>1, <1>2 DEF SearchInv, PushedInv, Open
      <4>3. ASSUME NEW i \in 1 .. (q - 1), stack[i].node = m
            PROVE  \E p \in 1 .. (j - 1) : stack'[p].node = m
        <5>1. i + k \in 1 .. (j - 1) /\ i \in 1 .. L
          BY <3>1
        <5> QED BY <5>1, <4>3, <1>8
      <4> QED BY <4>2, <4>3, <1>4
    <3> QED BY <3>2, <3>3
  <2>2. \A i \in DOMAIN order : Neighbors(order[i]) \subseteq discovered'
    BY <1>4 DEF SearchInv, PushedInv
  <2>3. \A r \in Roots : r \in discovered' \/ \E i \in DOMAIN stack' : stack'[i].node = r
    BY <1>2, <1>4, <1>8, <1>10 DEF SearchInv, PushedInv
  <2>4. Roots' = Roots
    BY <1>1, SameGraph
  <2>5. (\A j \in DOMAIN stack : Open(j) => \A m \in Neighbors(stack[j].node) :
             m \in discovered \/ \E i \in 1 .. (j - 1) : stack[i].node = m)'
    BY <2>1, <1>1 DEF Open, Neighbors, Needs, ActualProvides, Node
  <2>6. (\A i \in DOMAIN order : Neighbors(order[i]) \subseteq discovered)'
    BY <2>2, <1>1 DEF Neighbors, Needs, ActualProvides, Node
  <2> QED BY <2>3, <2>4, <2>5, <2>6 DEF PushedInv
<1>17. RequirersFirst'
  BY <1>1, RequirersKept DEF SearchInv
<1> QED BY <1>1, <1>13, <1>14, <1>15, <1>16, <1>17 DEF SearchInv

\* A node that needs the open node on top, and is not placed, is open below it:
\* the open nodes from the one to the other form a cycle.
LEMMA OpenRequirer ==
  ASSUME SearchType, SearchInv, stack # << >>, Open(1),
         NEW m \in Neighbors(stack[1].node), m \notin ToSet(order)
  PROVE  stack[1].node \in Entangled
<1>1. PICK L \in Nat \ {0} : L = Len(stack) /\ DOMAIN stack = 1 .. L /\ 1 \in 1 .. L
  BY Positions
<1>2. m \in Node /\ Needs(m, stack[1].node)
  BY DEF Neighbors
<1>3. m \in discovered
  <2>1. m \in discovered \/ \E i \in 1 .. (1 - 1) : stack[i].node = m
    BY <1>1 DEF SearchInv, PushedInv
  <2> QED BY <2>1
<1>4. PICK p \in 1 .. L : Open(p) /\ stack[p].node = m
  BY <1>1, <1>2, <1>3 DEF SearchInv, DiscoveredInv
<1> DEFINE cycle == { stack[i].node : i \in { l \in 1 .. p : Open(l) } }
<1>5. cycle \in SUBSET Node
  BY <1>1, Positions
<1>6. ASSUME NEW i \in 1 .. p, Open(i) PROVE \E y \in cycle : Needs(stack[i].node, y)
  <2>1. CASE i = p
    <3>1. stack[1].node \in cycle
      BY <1>1
    <3> QED BY <2>1, <3>1, <1>2, <1>4
  <2>2. CASE i # p
    <3> DEFINE later == { l \in (i + 1) .. p : Open(l) }
    <3>1. p \in later /\ later \subseteq Nat
      BY <2>2, <1>4
    <3>2. PICK j \in later : \A l \in later : j <= l
      BY <3>1, LeastNatural
    <3>3. \A l \in (i + 1) .. (j - 1) : ~ Open(l)
      <4> SUFFICES ASSUME NEW l \in (i + 1) .. (j - 1), Open(l) PROVE FALSE
        OBVIOUS
      <4>1. l \in later /\ ~ (j <= l)
        BY <3>2
      <4> QED BY <4>1, <3>2
    <3>4. i \in DOMAIN stack /\ j \in DOMAIN stack /\ i < j /\ Open(j)
      BY <1>1, <3>2
    <3>5. Needs(stack[i].node, stack[j].node)
      BY <3>3, <3>4 DEF SearchInv, ChainInv
    <3>6. j \in 1 .. p
      BY <3>2
    <3>7. stack[j].node \in cycle
      BY <3>4, <3>6
    <3> QED BY <3>5, <3>7
  <2> QED BY <2>1, <2>2
<1>7. \A x \in cycle : \E y \in cycle : Needs(x, y)
  BY <1>6
<1>8. stack[1].node \in cycle
  BY <1>1
<1> HIDE DEF cycle
<1> QED BY <1>5, <1>7, <1>8 DEF Entangled

LEMMA ReturnSafe ==
  ASSUME SearchType, SearchInv, Return
  PROVE  SearchType' /\ SearchInv'
<1>0. stack' = Tail(stack)
  BY DEF Return
<1>1. /\ pc = "search" /\ pc' = "search" /\ stack # << >>
      /\ layers' = layers /\ target' = target /\ discovered' = discovered
  BY DEF Return, input
<1>2. PICK L \in Nat \ {0} :
        L = Len(stack) /\ DOMAIN stack = 1 .. L /\ Head(stack) = stack[1] /\ 1 \in 1 .. L
  BY <1>1, Positions
<1>3. PICK n \in Node : n = stack[1].node
  BY <1>1, <1>2, Positions
<1>4. n \in discovered /\ order' = IF Open(1) THEN Append(order, n) ELSE order
  BY <1>2, <1>3 DEF Return, Open
<1>5. /\ stack' \in Seq(Entry) /\ DOMAIN stack' = 1 .. (L - 1)
      /\ \A i \in 1 .. (L - 1) : stack'[i] = stack[i + 1] /\ i + 1 \in 1 .. L
  <2>1. PICK r : r = Tail(stack)
    OBVIOUS
  <2>2. /\ r \in Seq(Entry) /\ Len(r) = L - 1
        /\ \A i \in 1 .. (L - 1) : r[i] = stack[i + 1]
    BY <1>0, <1>1, <1>2, <2>1, HeadTailProperties DEF SearchType
  <2>3. DOMAIN r = 1 .. (L - 1)
    BY <2>2, LenProperties
  <2> QED BY <1>0, <1>1, <2>1, <2>2, <2>3
<1>6. \A i \in 1 .. L : i # 1 => i - 1 \in 1 .. (L - 1) /\ stack'[i - 1] = stack[i]
  <2> SUFFICES ASSUME NEW i \in 1 .. L, i # 1 PROVE i - 1 \in 1 .. (L - 1) /\ stack'[i - 1] = stack[i]
    OBVIOUS
  <2>1. i - 1 \in 1 .. (L - 1) /\ (i - 1) + 1 = i
    OBVIOUS
  <2> QED BY <2>1, <1>5
<1>7. PICK len \in Nat : len = Len(order) /\ DOMAIN order = 1 .. len
  BY LenProperties DEF SearchType
<1>8. Open(1) => /\ DOMAIN order' = 1 .. (len + 1) /\ order'[len + 1] = n
                 /\ \A i \in 1 .. len : order'[i] = order[i]
  BY <1>4, <1>7 DEF SearchType
<1>9. ToSet(order') = IF Open(1) THEN ToSet(order) \cup {n} ELSE ToSet(order)
  <2>1. CASE Open(1)
    <3>1. \A i \in 1 .. (len + 1) : i = len + 1 \/ i \in 1 .. len
      OBVIOUS
    <3>2. len + 1 \in 1 .. (len + 1) /\ (\A i \in 1 .. len : i \in 1 .. (len + 1))
      OBVIOUS
    <3> QED BY <2>1, <3>1, <3>2, <1>7, <1>8 DEF ToSet
  <2> QED BY <2>1, <1>4
<1>10. /\ \A m \in Node : m \in discovered <=>
             m \in ToSet(order) \/ \E i \in 1 .. L : stack[i].expanded /\ stack[i].node = m
       /\ \A i, j \in 1 .. L :
            stack[i].expanded /\ stack[j].expanded /\ stack[i].node = stack[j].node => i = j
       /\ \A i \in 1 .. L : stack[i].expanded => stack[i].node \notin ToSet(order)
       /\ \A i, j \in 1 .. len : order[i] = order[j] => i = j
       /\ \A i \in 1 .. len : order[i] \in ToSet(order)
  BY <1>2, <1>7 DEF SearchInv, DiscoveredInv, Open, ToSet
<1>11. SearchType'
  <2>1. order' \in Seq(Node)
    BY <1>4 DEF SearchType
  <2> QED BY <2>1, <1>1, <1>5, SameGraph DEF SearchType, InputOK
<1>12. DiscoveredInv'
  <2>1. \A m \in Node : m \in discovered <=>
          m \in ToSet(order') \/ \E i \in DOMAIN stack' : stack'[i].expanded /\ stack'[i].node = m
    <3> SUFFICES ASSUME NEW m \in Node
                 PROVE  m \in discovered <=>
                          \/ m \in ToSet(order')
                          \/ \E i \in 1 .. (L - 1) : stack'[i].expanded /\ stack'[i].node = m
      BY <1>5
    <3>1. (\E i \in 1 .. (L - 1) : stack'[i].expanded /\ stack'[i].node = m) <=>
            (\E i \in 1 .. L : i # 1 /\ stack[i].expanded /\ stack[i].node = m)
      <4>1. \A i \in 1 .. (L - 1) : i + 1 # 1
        OBVIOUS
      <4> QED BY <4>1, <1>5, <1>6
    <3> QED BY <3>1, <1>2, <1>3, <1>4, <1>9, <1>10 DEF Open
  <2>2. \A i, j \in DOMAIN stack' :
          stack'[i].expanded /\ stack'[j].expanded /\ stack'[i].node = stack'[j].node => i = j
    <3> SUFFICES ASSUME NEW i \in 1 .. (L - 1), NEW j \in 1 .. (L - 1),
                        stack'[i].expanded, stack'[j].expanded, stack'[i].node = stack'[j].node
                 PROVE  i = j
      BY <1>5
    <3>1. i + 1 = j + 1
      BY <1>5, <1>10
    <3> QED BY <3>1
  <2>3. \A i \in DOMAIN stack' : stack'[i].expanded => stack'[i].node \notin ToSet(order')
    <3> SUFFICES ASSUME NEW i \in 1 .. (L - 1), stack'[i].expanded PROVE stack'[i].node \notin ToSet(order')
      BY <1>5
    <3>1. i + 1 \in 1 .. L /\ i + 1 # 1 /\ stack'[i] = stack[i + 1]
      BY <1>5
    <3>2. stack[i + 1].node \notin ToSet(order) /\ (Open(1) => stack[i + 1].node # n)
      BY <3>1, <1>2, <1>3, <1>10 DEF Open
    <3> QED BY <3>1, <3>2, <1>9
  <2>4. \A i, j \in DOMAIN order' : order'[i] = order'[j] => i = j
    <3>1. CASE Open(1)
      <4>1. \A i \in 1 .. len : order'[i] # n /\ order'[i] = order[i]
        BY <3>1, <1>2, <1>3, <1>8, <1>10 DEF Open
      <4>2. \A i \in 1 .. (len + 1) : i = len + 1 \/ i \in 1 .. len
        OBVIOUS
      <4> QED BY <3>1, <4>1, <4>2, <1>8, <1>10
    <3> QED BY <3>1, <1>4, <1>7, <1>10
  <2>5. Node' = Node /\ ToSet(order)' = ToSet(order')
    BY <1>1, SameGraph DEF ToSet
  <2> QED BY <2>1, <2>2, <2>3, <2>4, <2>5, <1>1 DEF DiscoveredInv, Open
<1>13. ChainInv'
  <2>1. ASSUME NEW i \in 1 .. (L - 1), NEW j \in 1 .. (L - 1), i < j, stack'[j].expanded,
               \A l \in (i + 1) .. (j - 1) : ~ stack'[l].expanded
        PROVE  Needs(stack'[i].node, stack'[j].node)
    <3>1. /\ i + 1 \in 1 .. L /\ j + 1 \in 1 .. L /\ i + 1 < j + 1
          /\ stack'[i] = stack[i + 1] /\ stack'[j] = stack[j + 1]
      BY <1>5, <2>1
    <3>2. ASSUME NEW l \in ((i + 1) + 1) .. ((j + 1) - 1) PROVE ~ Open(l)
      <4>1. l - 1 \in (i + 1) .. (j - 1) /\ l \in 1 .. L /\ l # 1
        OBVIOUS
      <4> QED BY <4>1, <2>1, <1>6 DEF Open
    <3>3. Needs(stack[i + 1].node, stack[j + 1].node)
      BY <3>1, <3>2, <2>1, <1>2 DEF SearchInv, ChainInv, Open
    <3> QED BY <3>1, <3>3
  <2>2. \A m, o : Needs(m, o)' <=> Needs(m, o)
    BY <1>1, SameGraph
  <2>3. \A i, j \in DOMAIN stack' :
          i < j /\ stack'[j].expanded /\ (\A l \in (i + 1) .. (j - 1) : ~ stack'[l].expanded)
            => Needs(stack'[i].node, stack'[j].node)
    BY <2>1, <1>5
  <2> QED BY <2>2, <2>3, <1>1 DEF ChainInv, Open, Needs, ActualProvides
<1>14. PushedInv'
  <2>1. ASSUME NEW j \in 1 .. (L - 1), stack'[j].expanded, NEW m \in Neighbors(stack'[j].node),
               m \notin discovered
        PROVE  \E i \in 1 .. (j - 1) : stack'[i].node = m
    <3>1. j + 1 \in 1 .. L /\ stack'[j] = stack[j + 1]
      BY <1>5
    <3>2. \E i \in 1 .. ((j + 1) - 1) : stack[i].node = m
      BY <3>1, <2>1, <1>2 DEF SearchInv, PushedInv, Open
    <3>3. PICK i \in 1 .. j : stack[i].node = m
      BY <3>2
    <3>4. i # 1
      BY <3>3, <2>1, <1>3, <1>4
    <3>5. i \in 1 .. L /\ i - 1 \in 1 .. (j - 1)
      BY <3>4
    <3> QED BY <3>3, <3>4, <3>5, <1>6
  <2>2. \A j \in DOMAIN stack' : stack'[j].expanded => \A m \in Neighbors(stack'[j].node) :
          m \in discovered \/ \E i \in 1 .. (j - 1) : stack'[i].node = m
    BY <2>1, <1>5
  <2>3. Open(1) => Neighbors(n) \subseteq discovered
    <3> SUFFICES ASSUME Open(1), NEW m \in Neighbors(n) PROVE m \in discovered
      OBVIOUS
    <3>1. m \in discovered \/ \E i \in 1 .. (1 - 1) : stack[i].node = m
      BY <1>2, <1>3 DEF SearchInv, PushedInv
    <3> QED BY <3>1
  <2>4. \A m \in ToSet(order') : Neighbors(m) \subseteq discovered
    BY <2>3, <1>9 DEF SearchInv, PushedInv, ToSet
  <2>5. \A i \in DOMAIN order' : Neighbors(order'[i]) \subseteq discovered
    BY <2>4 DEF ToSet
  <2>6. \A r \in Roots : r \in discovered \/ \E i \in DOMAIN stack' : stack'[i].node = r
    <3> SUFFICES ASSUME NEW r \in Roots, r \notin discovered PROVE \E i \in 1 .. (L - 1) : stack'[i].node = r
      BY <1>5
    <3>1. PICK i \in 1 .. L : stack[i].node = r
      BY <1>2 DEF SearchInv, PushedInv
    <3>2. i # 1
      BY <3>1, <1>3, <1>4
    <3> QED BY <3>1, <3>2, <1>6
  <2>7. Roots' = Roots
    BY <1>1, SameGraph
  <2>8. (\A j \in DOMAIN stack : Open(j) => \A m \in Neighbors(stack[j].node) :
             m \in discovered \/ \E i \in 1 .. (j - 1) : stack[i].node = m)'
    BY <2>2, <1>1 DEF Open, Neighbors, Needs, ActualProvides, Node
  <2>9. (\A i \in DOMAIN order : Neighbors(order[i]) \subseteq discovered)'
    BY <2>5, <1>1 DEF Neighbors, Needs, ActualProvides, Node
  <2> QED BY <2>6, <2>7, <2>8, <2>9, <1>1 DEF PushedInv
<1>15. RequirersFirst'
  <2>1. CASE ~ Open(1)
    BY <2>1, <1>1, <1>4, RequirersKept DEF SearchInv
  <2>2. CASE Open(1)
    <3>1. PICK E : E = Entangled /\ E = Entangled'
      BY <1>1, SameGraph
    <3>2. ASSUME NEW m \in Neighbors(n), n \notin E PROVE \E j \in 1 .. len : order[j] = m
      BY <2>2, <3>1, <3>2, <1>1, <1>3, <1>7, OpenRequirer DEF ToSet
    <3>3. ASSUME NEW i \in 1 .. len, NEW m \in Neighbors(order[i])
          PROVE  (\E j \in 1 .. (i - 1) : order[j] = m) \/ order[i] \in E
      BY <3>1, <3>3, <1>7 DEF SearchInv, RequirersFirst
    <3>4. ASSUME NEW i \in 1 .. (len + 1), NEW m \in Neighbors(order'[i])
          PROVE  (\E j \in 1 .. (i - 1) : order'[j] = m) \/ order'[i] \in E
      <4>1. CASE i = len + 1
        <5>1. i - 1 = len
          BY <4>1
        <5> QED BY <4>1, <5>1, <2>2, <3>2, <3>4, <1>8
      <4>2. CASE i \in 1 .. len
        <5>1. \A j \in 1 .. (i - 1) : j \in 1 .. len
          BY <4>2
        <5> QED BY <4>2, <5>1, <2>2, <3>3, <3>4, <1>8
      <4> QED BY <4>1, <4>2
    <3>5. (\A i \in DOMAIN order : \A m \in Neighbors(order[i]) :
            (\E j \in 1 .. (i - 1) : order[j] = m) \/ order[i] \in E)'
      <4>1. \A i \in DOMAIN order' : \A m \in Neighbors(order'[i]) :
              (\E j \in 1 .. (i - 1) : order'[j] = m) \/ order'[i] \in E
        BY <2>2, <3>4, <1>8
      <4> QED BY <4>1, <1>1 DEF Neighbors, Needs, ActualProvides, Node
    <3> QED BY <3>1, <3>5 DEF RequirersFirst
  <2> QED BY <2>1, <2>2
<1> QED BY <1>1, <1>11, <1>12, <1>13, <1>14, <1>15 DEF SearchInv

LEMMA SearchKept ==
  ASSUME SearchType, SearchInv, UNCHANGED <<layers, target, search>>,
         pc' # "search" => stack = << >>
  PROVE  SearchType' /\ SearchInv'
<1>1. /\ layers' = layers /\ target' = target /\ order' = order
      /\ stack' = stack /\ discovered' = discovered
  BY DEF search
<1>2. SearchType'
  BY <1>1, SameGraph DEF SearchType, InputOK
<1>3. RequirersFirst'
  BY <1>1, RequirersKept DEF SearchInv
<1>4. DiscoveredInv'
  BY <1>1, SameGraph DEF SearchInv, DiscoveredInv, Open, ToSet
<1>5. ChainInv'
  <2>1. \A i, j \in DOMAIN stack' :
          i < j /\ stack'[j].expanded /\ (\A l \in (i + 1) .. (j - 1) : ~ stack'[l].expanded)
            => Needs(stack'[i].node, stack'[j].node)
    BY <1>1 DEF SearchInv, ChainInv, Open
  <2>2. layers' = layers
    BY <1>1
  <2> QED BY <2>1, <2>2 DEF ChainInv, Open, Needs, ActualProvides
<1>6. PushedInv'
  BY <1>1, SameGraph DEF SearchInv, PushedInv, Open, Neighbors, Needs, ActualProvides, Node
<1> QED BY <1>1, <1>2, <1>3, <1>4, <1>5, <1>6 DEF SearchInv

LEMMA InitSafe ==
  ASSUME Init
  PROVE  SearchType /\ SearchInv
<1>1. InputOK
  BY InputsType DEF Init, InputOK
<1>2. /\ stack = Entries(Roots) /\ Roots \in SUBSET Node
      /\ discovered = {} /\ order = << >> /\ pc = "search"
  BY DEF Init, Roots
<1>3. /\ stack \in Seq(Entry) /\ DOMAIN stack = 1 .. Len(stack)
      /\ \A i \in DOMAIN stack : ~ Open(i)
      /\ \A r \in Roots : \E i \in DOMAIN stack : stack[i].node = r
  <2>1. PICK t : t = Entries(Roots)
    OBVIOUS
  <2>2. /\ t \in Seq(Entry)
        /\ \A i \in 1 .. Len(t) : ~ t[i].expanded
        /\ \A n \in Roots : \E i \in 1 .. Len(t) : t[i].node = n
    BY <1>1, <1>2, <2>1, EntriesProperties
  <2>3. DOMAIN t = 1 .. Len(t)
    BY <2>2, LenProperties
  <2> QED BY <1>2, <2>1, <2>2, <2>3 DEF Open
<1>4. SearchType
  BY <1>1, <1>2, <1>3 DEF SearchType
<1>5. DOMAIN order = {} /\ ToSet(order) = {}
  BY <1>2 DEF ToSet
<1>6. DiscoveredInv /\ ChainInv /\ PushedInv /\ RequirersFirst
  BY <1>2, <1>3, <1>5 DEF DiscoveredInv, ChainInv, PushedInv, RequirersFirst
<1> QED BY <1>2, <1>4, <1>6 DEF SearchInv

\* The search keeps its invariant in every step of the computation.
LEMMA SearchSafe ==
  ASSUME SearchType, SearchInv, [Next]_vars
  PROVE  SearchType' /\ SearchInv'
<1>1. CASE Expand
  BY <1>1, ExpandSafe
<1>2. CASE Return
  BY <1>2, ReturnSafe
<1>3. ASSUME ~ Expand, ~ Return
      PROVE  UNCHANGED <<layers, target, search>> /\ (pc' # "search" => stack = << >>)
  <2>1. CASE EndSearch \/ Annotate \/ StartPipe \/ Refuse \/ Pipe \/ EndPipe
    BY <2>1 DEF SearchInv, EndSearch, Annotate, StartPipe, Refuse, Pipe, EndPipe, input
  <2>2. CASE UNCHANGED vars
    BY <2>2 DEF SearchInv, vars
  <2> QED BY <1>3, <2>1, <2>2 DEF Next
<1> QED BY <1>1, <1>2, <1>3, SearchKept

-----------------------------------------------------------------------------
(***************************************************************************)
(* Types.                                                                  *)
(***************************************************************************)
LEMMA NodeTypes ==
  ASSUME TypeOK
  PROVE  /\ InputOK /\ Len(nodes) \in Nat /\ DOMAIN nodes = 1 .. Len(nodes)
         /\ Len(order) \in Nat /\ DOMAIN order = 1 .. Len(order)
         /\ \A i \in 1 .. Len(order) : order[i] \in Node
         /\ \A i \in 1 .. Len(nodes) : nodes[i].node \in Node /\ nodes[i].merges \in BOOLEAN
         /\ \A n \in Node : layers[n] \in Layer
<1>1. InputOK
  BY InputsType DEF TypeOK, InputOK
<1>2. \A i \in 1 .. Len(nodes) : nodes[i] \in [node : Node, merges : BOOLEAN]
  <2>1. PICK S : S = [node : Node, merges : BOOLEAN]
    OBVIOUS
  <2>2. nodes \in Seq(S)
    BY <2>1 DEF TypeOK
  <2> QED BY <2>1, <2>2, ElementOfSeq
<1>3. \A i \in 1 .. Len(nodes) : nodes[i].node \in Node /\ nodes[i].merges \in BOOLEAN
  BY <1>2
<1>4. \A i \in 1 .. Len(order) : order[i] \in Node
  BY DEF TypeOK
<1>5. /\ Len(nodes) \in Nat /\ DOMAIN nodes = 1 .. Len(nodes)
      /\ Len(order) \in Nat /\ DOMAIN order = 1 .. Len(order)
  BY LenProperties DEF TypeOK
<1> QED BY <1>1, <1>3, <1>4, <1>5, NodesFinite

LEMMA CombinatorTypes ==
  ASSUME NEW self \in Layer, NEW that \in Layer
  PROVE  provide(self, that) \in Layer /\ provideMerge(self, that) \in Layer
BY DEF Layer, provide, provideMerge

LEMMA InitTyped ==
  ASSUME Init
  PROVE  TypeOK
<1>1. SearchType
  BY InitSafe
<1>2. << >> \in Seq([node : Node, merges : BOOLEAN]) /\ Len(<< >>) = 0
  BY EmptySeq
<1>3. composed \in Layer
  BY DEF Init, Empty, Layer
<1> QED BY <1>1, <1>2, <1>3 DEF Init, TypeOK, SearchType

LEMMA StepTyped ==
  ASSUME TypeOK, SearchType, SearchType', [Next]_vars
  PROVE  TypeOK'
<1> DEFINE AnnotatedNode == [node : Node, merges : BOOLEAN]
<1>1. layers' = layers /\ target' = target
  BY DEF Next, vars, Expand, Return, EndSearch, Annotate, StartPipe, Refuse, Pipe, EndPipe, input
<1>2. Node' = Node /\ Entry' = Entry
  BY <1>1, SameGraph
<1>3. stack' \in Seq(Entry) /\ discovered' \subseteq Node /\ order' \in Seq(Node)
  BY <1>2 DEF SearchType
<1>4. /\ pc' \in {"search", "annotate", "compose", "composed", "refused"}
      /\ nodes' \in Seq(AnnotatedNode) /\ missing' \subseteq target
      /\ composed' \in Layer /\ piped' \in 0 .. Len(nodes')
  <2>1. CASE Expand \/ Return \/ EndSearch \/ Refuse \/ EndPipe \/ UNCHANGED vars
    BY <2>1 DEF TypeOK, vars, Expand, Return, EndSearch, Refuse, EndPipe, after
  <2>2. CASE Annotate
    <3>1. PICK n : n = order[Len(nodes) + 1]
      OBVIOUS
    <3>2. n \in Node
      BY <2>2, <3>1, NodeTypes DEF Annotate
    <3>3. PICK merges \in BOOLEAN : /\ nodes' = Append(nodes, [node |-> n, merges |-> merges])
                                    /\ missing' \subseteq missing
      BY <2>2, <3>1 DEF Annotate
    <3>4. PICK a \in AnnotatedNode : nodes' = Append(nodes, a)
      BY <3>2, <3>3
    <3>5. nodes' \in Seq(AnnotatedNode) /\ Len(nodes') = Len(nodes) + 1
      BY <3>4, AppendProperties DEF TypeOK
    <3>6. pc' = pc /\ composed' = composed /\ piped' = piped
      BY <2>2 DEF Annotate
    <3> QED BY <3>3, <3>5, <3>6, NodeTypes DEF TypeOK
  <2>3. CASE StartPipe
    <3>1. /\ nodes' = nodes /\ missing' = missing /\ pc' = "compose" /\ 1 \in 1 .. Len(nodes)
      BY <2>3, NodeTypes, EmptySeq DEF StartPipe, TypeOK
    <3>2. Empty \in Layer /\ layers[nodes[1].node] \in Layer
      BY <3>1, NodeTypes DEF Empty, Layer
    <3>3. composed' \in Layer /\ piped' \in 0 .. Len(nodes)
      BY <2>3, <3>1, <3>2, NodeTypes DEF StartPipe
    <3> QED BY <3>1, <3>3 DEF TypeOK
  <2>4. CASE Pipe
    <3>1. nodes' = nodes /\ missing' = missing /\ pc' = "compose" /\ piped' = piped + 1 /\ piped < Len(nodes)
      BY <2>4 DEF Pipe
    <3>2. piped + 1 \in 1 .. Len(nodes)
      BY <3>1, NodeTypes DEF TypeOK
    <3>3. layers[nodes[piped + 1].node] \in Layer
      BY <3>2, NodeTypes
    <3>4. composed' \in Layer
      BY <2>4, <3>3, CombinatorTypes DEF Pipe, TypeOK
    <3> QED BY <3>1, <3>2, <3>4 DEF TypeOK
  <2> QED BY <2>1, <2>2, <2>3, <2>4 DEF Next
<1> QED BY <1>1, <1>2, <1>3, <1>4 DEF TypeOK

-----------------------------------------------------------------------------
(***************************************************************************)
(* The annotated layers and the pipe.                                      *)
(***************************************************************************)
AnnotateInv ==
  /\ pc = "search" => nodes = << >>
  /\ pc \in {"compose", "composed", "refused"} => Len(nodes) = Len(order)
  /\ Len(nodes) <= Len(order) /\ \A i \in 1 .. Len(nodes) : nodes[i].node = order[i]
  /\ \A t \in missing : \A i \in 1 .. Len(nodes) : t \notin ActualProvides(nodes[i].node)
  /\ \A t \in target \ missing : \E i \in 1 .. Len(nodes) :
       nodes[i].merges /\ t \in ActualProvides(nodes[i].node)

\* What is required of a layer that is in the pipe is required by one that is
\* not before it.
ComposeInv ==
  /\ pc \in {"search", "annotate"} => piped = 0 /\ composed = Empty
  /\ pc = "composed" => piped = Len(nodes)
  /\ \A i \in 1 .. piped : nodes[i].merges => layers[nodes[i].node].provides \subseteq composed.provides
  /\ \A r \in composed.requires, j \in 1 .. piped :
       (\E p \in ActualProvides(nodes[j].node) : <<r, p>> \in Assignable)
         => \E i \in j .. piped : r \in layers[nodes[i].node].requires

IInv == TypeOK /\ SearchInv /\ AnnotateInv /\ ComposeInv

LEMMA TypedSearch == ASSUME TypeOK PROVE SearchType
BY NodeTypes DEF TypeOK, SearchType

LEMMA AnnotateSafe ==
  ASSUME TypeOK, TypeOK', AnnotateInv, [Next]_vars
  PROVE  AnnotateInv'
<1>1. layers' = layers /\ target' = target
  BY DEF Next, vars, Expand, Return, EndSearch, Annotate, StartPipe, Refuse, Pipe, EndPipe, input
<1>2. PICK len \in Nat : len = Len(nodes) /\ DOMAIN nodes = 1 .. len
  BY NodeTypes
<1>3. CASE Expand \/ Return
  <2>1. /\ pc = "search" /\ pc' = "search" /\ nodes = << >> /\ nodes' = << >> /\ missing' = missing
    BY <1>3 DEF Expand, Return, after, AnnotateInv
  <2>2. Len(nodes') = 0 /\ 1 .. 0 = {} /\ 0 <= Len(order')
    <3>1. Len(order') \in Nat
      BY LenProperties DEF TypeOK
    <3> QED BY <2>1, <3>1
  <2>3. \A t \in target \ missing : FALSE
    BY <2>1, <2>2 DEF AnnotateInv
  <2> QED BY <2>1, <2>2, <2>3, <1>1 DEF AnnotateInv
<1>4. CASE Annotate
  <2>1. PICK n : n = order[len + 1]
    OBVIOUS
  <2>2. pc = "annotate" /\ pc' = "annotate" /\ len < Len(order) /\ order' = order
    BY <1>2, <1>4 DEF Annotate, search
  <2>3. PICK P : P = ActualProvides(n)
    OBVIOUS
  <2>4. PICK merges \in BOOLEAN : merges <=> P \cap missing # {}
    OBVIOUS
  <2>5. PICK entry : entry = [node |-> n, merges |-> merges]
    OBVIOUS
  <2>6. /\ nodes' = Append(nodes, entry) /\ entry.node = n /\ (entry.merges <=> merges)
        /\ missing' = IF merges THEN missing \ P ELSE missing
    BY <1>2, <1>4, <2>1, <2>3, <2>4, <2>5 DEF Annotate
  <2>7. Len(nodes') = len + 1 /\ nodes'[len + 1] = entry /\ \A i \in 1 .. len : nodes'[i] = nodes[i]
    <3>1. n \in Node
      BY <2>1, <2>2, <1>2, NodeTypes
    <3>2. PICK S : S = [node : Node, merges : BOOLEAN] /\ entry \in S
      BY <2>5, <3>1
    <3>3. nodes \in Seq(S)
      BY <3>2 DEF TypeOK
    <3> QED BY <2>6, <3>2, <3>3, <1>2, AppendProperties
  <2>8. \A i \in 1 .. (len + 1) : i \in 1 .. len \/ i = len + 1
    OBVIOUS
  <2>9. len + 1 \in 1 .. (len + 1) /\ \A i \in 1 .. len : i \in 1 .. (len + 1)
    OBVIOUS
  <2>10. len + 1 <= Len(order) /\ \A i \in 1 .. (len + 1) : nodes'[i].node = order[i]
    <3>1. len + 1 <= Len(order)
      BY <2>2, NodeTypes
    <3>2. \A i \in 1 .. len : nodes[i].node = order[i]
      BY <1>2 DEF AnnotateInv
    <3> QED BY <3>1, <3>2, <2>1, <2>6, <2>7, <2>8
  <2>11. \A t \in missing' : \A i \in 1 .. (len + 1) : t \notin ActualProvides(nodes'[i].node)
    <3>1. \A t \in missing' : t \in missing /\ t \notin P
      BY <2>4, <2>6
    <3>2. \A t \in missing : \A i \in 1 .. len : t \notin ActualProvides(nodes[i].node)
      BY <1>2 DEF AnnotateInv
    <3> QED BY <3>1, <3>2, <2>3, <2>6, <2>7, <2>8
  <2>12. \A t \in target \ missing' : \E i \in 1 .. (len + 1) :
           nodes'[i].merges /\ t \in ActualProvides(nodes'[i].node)
    <3>1. \A t \in target \ missing' : t \in target \ missing \/ (merges /\ t \in P)
      BY <2>6
    <3>2. \A t \in target \ missing : \E i \in 1 .. len :
            nodes[i].merges /\ t \in ActualProvides(nodes[i].node)
      BY <1>2 DEF AnnotateInv
    <3> QED BY <3>1, <3>2, <2>3, <2>6, <2>7, <2>9
  <2>13. (/\ \A t \in missing : \A i \in 1 .. (len + 1) : t \notin ActualProvides(nodes[i].node)
          /\ \A t \in target \ missing : \E i \in 1 .. (len + 1) :
               nodes[i].merges /\ t \in ActualProvides(nodes[i].node))'
    BY <2>11, <2>12, <1>1 DEF ActualProvides
  <2>14. PICK k : k = len + 1 /\ k = Len(nodes')
    BY <2>7
  <2>15. (\A t \in missing : \A i \in 1 .. Len(nodes) : t \notin ActualProvides(nodes[i].node))'
    BY <2>13, <2>14
  <2>16. (\A t \in target \ missing : \E i \in 1 .. Len(nodes) :
            nodes[i].merges /\ t \in ActualProvides(nodes[i].node))'
    BY <2>13, <2>14
  <2>17. (Len(nodes) <= Len(order) /\ \A i \in 1 .. Len(nodes) : nodes[i].node = order[i])'
    BY <2>2, <2>10, <2>14
  <2> QED BY <2>2, <2>15, <2>16, <2>17 DEF AnnotateInv
<1>5. CASE EndSearch \/ StartPipe \/ Refuse \/ Pipe \/ EndPipe \/ UNCHANGED vars
  <2>1. order' = order /\ nodes' = nodes /\ missing' = missing
    BY <1>5 DEF EndSearch, StartPipe, Refuse, Pipe, EndPipe, vars, search, after
  <2>2. /\ pc' = "search" => nodes' = << >>
        /\ pc' \in {"compose", "composed", "refused"} => Len(nodes) = Len(order)
    BY <1>5, <2>1 DEF AnnotateInv, EndSearch, StartPipe, Refuse, Pipe, EndPipe, vars
  <2> QED BY <1>1, <2>1, <2>2 DEF AnnotateInv, ActualProvides
<1> QED BY <1>3, <1>4, <1>5 DEF Next

LEMMA ComposeSafe ==
  ASSUME TypeOK, TypeOK', ComposeInv, [Next]_vars
  PROVE  ComposeInv'
<1>1. layers' = layers /\ target' = target
  BY DEF Next, vars, Expand, Return, EndSearch, Annotate, StartPipe, Refuse, Pipe, EndPipe, input
<1>2. PICK len \in Nat : len = Len(nodes) /\ piped \in 0 .. len
  BY NodeTypes DEF TypeOK
<1>3. CASE Expand \/ Return \/ EndSearch \/ Refuse \/ EndPipe \/ UNCHANGED vars
  <2>1. nodes' = nodes /\ piped' = piped /\ composed' = composed
    BY <1>3 DEF Expand, Return, EndSearch, Refuse, EndPipe, vars, after
  <2>2. /\ pc' \in {"search", "annotate"} => piped = 0 /\ composed = Empty
        /\ pc' = "composed" => piped = Len(nodes)
    BY <1>3 DEF ComposeInv, Expand, Return, EndSearch, Refuse, EndPipe, vars
  <2> QED BY <1>1, <2>1, <2>2 DEF ComposeInv, ActualProvides
<1>4. CASE Annotate
  <2>1. /\ pc' = "annotate" /\ piped' = 0 /\ composed' = Empty
    BY <1>4 DEF Annotate, ComposeInv
  <2>2. 1 .. 0 = {}
    OBVIOUS
  <2> QED BY <2>1, <2>2 DEF ComposeInv
<1>5. CASE StartPipe
  <2>1. nodes' = nodes /\ pc' = "compose"
    BY <1>5 DEF StartPipe
  <2>2. CASE nodes[1].merges
    <3>1. composed' = layers[nodes[1].node] /\ piped' = 1
      BY <1>5, <2>2 DEF StartPipe
    <3>2. \A i \in 1 .. 1 : i = 1
      OBVIOUS
    <3>3. 1 \in 1 .. 1
      OBVIOUS
    <3> QED BY <3>1, <3>2, <3>3, <2>1, <1>1 DEF ComposeInv
  <2>3. CASE ~ nodes[1].merges
    <3>1. composed' = Empty /\ piped' = 0
      BY <1>5, <2>3 DEF StartPipe
    <3>2. 1 .. 0 = {}
      OBVIOUS
    <3> QED BY <3>1, <3>2, <2>1 DEF ComposeInv, Empty
  <2> QED BY <2>2, <2>3
<1>6. CASE Pipe
  <2>1. PICK k \in Nat : k = piped /\ k + 1 \in 1 .. len
    BY <1>2, <1>6 DEF Pipe
  <2>2. PICK layer : layer = layers[nodes[k + 1].node]
    OBVIOUS
  <2>3. nodes' = nodes /\ pc' = "compose" /\ piped' = k + 1
    BY <1>6, <2>1 DEF Pipe
  <2>4. layer \in Layer /\ composed \in Layer
    BY <2>1, <2>2, <1>2, NodeTypes DEF TypeOK
  <2>5. /\ nodes[k + 1].merges => composed'.provides = composed.provides \cup layer.provides
        /\ composed.provides \subseteq composed'.provides
        /\ composed'.requires = layer.requires \cup
             { r \in composed.requires : \A p \in layer.provides : <<r, p>> \notin Assignable }
    BY <1>6, <2>1, <2>2 DEF Pipe, provide, provideMerge
  <2>6. \A i \in 1 .. (k + 1) : i \in 1 .. k \/ i = k + 1
    OBVIOUS
  <2>7. \A i \in 1 .. (k + 1) : nodes[i].merges => layers[nodes[i].node].provides \subseteq composed'.provides
    <3>1. \A i \in 1 .. k : nodes[i].merges => layers[nodes[i].node].provides \subseteq composed.provides
      BY <2>1 DEF ComposeInv
    <3> QED BY <3>1, <2>2, <2>5, <2>6
  <2>8. ASSUME NEW r \in composed'.requires, NEW j \in 1 .. (k + 1),
               NEW p \in ActualProvides(nodes[j].node), <<r, p>> \in Assignable
        PROVE  \E i \in j .. (k + 1) : r \in layers[nodes[i].node].requires
    <3>1. CASE r \in layer.requires
      <4>1. k + 1 \in j .. (k + 1)
        OBVIOUS
      <4> QED BY <3>1, <4>1, <2>2
    <3>2. CASE r \notin layer.requires
      <4>1. r \in composed.requires /\ \A q \in layer.provides : <<r, q>> \notin Assignable
        BY <3>2, <2>5
      <4>2. j # k + 1
        BY <4>1, <2>2, <2>8 DEF ActualProvides
      <4>3. j \in 1 .. k /\ \A i \in j .. k : i \in j .. (k + 1)
        BY <4>2
      <4>4. \E i \in j .. k : r \in layers[nodes[i].node].requires
        BY <4>1, <4>3, <2>1, <2>8 DEF ComposeInv
      <4> QED BY <4>3, <4>4
    <3> QED BY <3>1, <3>2
  <2>9. (\A r \in composed.requires, j \in 1 .. (k + 1) :
           (\E p \in ActualProvides(nodes[j].node) : <<r, p>> \in Assignable)
             => \E i \in j .. (k + 1) : r \in layers[nodes[i].node].requires)'
    BY <1>1, <2>3, <2>8 DEF ActualProvides
  <2>10. (\A i \in 1 .. (k + 1) :
            nodes[i].merges => layers[nodes[i].node].provides \subseteq composed.provides)'
    BY <1>1, <2>3, <2>7
  <2>11. PICK l : l = k + 1 /\ piped' = l
    BY <2>3
  <2> QED BY <2>3, <2>9, <2>10, <2>11 DEF ComposeInv
<1> QED BY <1>3, <1>4, <1>5, <1>6 DEF Next

-----------------------------------------------------------------------------
(***************************************************************************)
(* The invariant and the theorems.                                         *)
(***************************************************************************)
LEMMA Invariant == Spec => []IInv
<1>1. Init => IInv
  <2> SUFFICES ASSUME Init PROVE IInv
    OBVIOUS
  <2>1. nodes = << >> /\ missing = target /\ piped = 0 /\ composed = Empty /\ order = << >> /\ pc = "search"
    BY DEF Init
  <2>2. Len(nodes) = 0 /\ Len(order) = 0 /\ 1 .. 0 = {}
    BY <2>1
  <2>3. AnnotateInv
    BY <2>1, <2>2 DEF AnnotateInv
  <2>4. ComposeInv
    BY <2>1, <2>2 DEF ComposeInv, Empty
  <2> QED BY <2>3, <2>4, InitSafe, InitTyped DEF IInv
<1>2. IInv /\ [Next]_vars => IInv'
  <2> SUFFICES ASSUME IInv, [Next]_vars PROVE IInv'
    OBVIOUS
  <2>1. SearchType
    BY TypedSearch DEF IInv
  <2>2. SearchType' /\ SearchInv'
    BY <2>1, SearchSafe DEF IInv
  <2>3. TypeOK'
    BY <2>1, <2>2, StepTyped DEF IInv
  <2> QED BY <2>2, <2>3, AnnotateSafe, ComposeSafe DEF IInv
<1> QED BY <1>1, <1>2, PTL DEF Spec

\* The state has its types: what is placed, annotated and composed are layers
\* of the list, and the services reported missing are targets.
THEOREM TypeCorrect == Spec => []TypeOK
<1>1. IInv => TypeOK
  BY DEF IInv
<1> QED BY <1>1, Invariant, PTL

\* At any time in the search (magic.go:12), a layer that is placed has all that
\* need it before it, or needs itself.
THEOREM RequirersComeFirst == Spec => []RequirersFirst
<1>1. IInv => RequirersFirst
  BY DEF IInv, SearchInv
<1> QED BY <1>1, Invariant, PTL

\* After the search, the nodes that are not placed each need one that is not placed.
LEMMA AllPlaced ==
  ASSUME IInv, pc # "search"
  PROVE  Node \ Entangled \subseteq ToSet(order)
<1>1. DOMAIN stack = {} /\ stack = << >>
  BY DEF IInv, SearchInv
<1>2. \A n \in Node : n \in discovered <=> n \in ToSet(order)
  BY <1>1 DEF IInv, SearchInv, DiscoveredInv
<1> DEFINE M == { n \in Node : n \notin ToSet(order) }
<1>3. ASSUME NEW n \in M PROVE \E m \in M : Needs(n, m)
  <2>1. n \notin Roots
    BY <1>1, <1>2 DEF IInv, SearchInv, PushedInv
  <2>2. PICK m \in Node : Needs(n, m)
    BY <2>1 DEF Roots
  <2>3. n \in Neighbors(m)
    BY <2>2 DEF Neighbors
  <2>4. m \notin ToSet(order)
    BY <2>3, <1>2 DEF IInv, SearchInv, PushedInv, ToSet
  <2> QED BY <2>2, <2>4
<1>4. M \subseteq Entangled
  <2>1. M \in SUBSET Node
    OBVIOUS
  <2> HIDE DEF M
  <2> QED BY <1>3, <2>1 DEF Entangled
<1> QED BY <1>4

LEMMA EachPlacedOnce == ASSUME IInv PROVE EveryLayerOnce
<1>1. \A i, j \in DOMAIN order : order[i] = order[j] => i = j
  BY DEF IInv, SearchInv, DiscoveredInv
<1>2. pc \in {"composed", "refused"} => Node \ Entangled \subseteq ToSet(order)
  BY AllPlaced
<1> QED BY <1>1, <1>2 DEF EveryLayerOnce

\* No layer is composed twice, although the search pushes a node once for each
\* layer it is needed by, and in the end only layers that need themselves are
\* left out (magic.go:43).
THEOREM EachLayerOnce == Spec => []EveryLayerOnce
<1>1. IInv => EveryLayerOnce
  BY EachPlacedOnce
<1> QED BY <1>1, Invariant, PTL

\* The composed layer requires nothing that a layer of the list provides, but
\* what only layers that need themselves do (layer_magic.go:160).
THEOREM RequirementsAreMet == Spec => []RequirementsMet
<1>1. ASSUME IInv PROVE RequirementsMet
  <2> SUFFICES ASSUME pc = "composed", NEW r \in composed.requires, NEW n \in Node,
                      NEW p \in ActualProvides(n), <<r, p>> \in Assignable
               PROVE  n \in Entangled
    BY DEF RequirementsMet
  <2>1. PICK len \in Nat : /\ len = piped /\ DOMAIN order = 1 .. len
                           /\ \A i \in 1 .. len : nodes[i].node = order[i] /\ order[i] \in Node
    BY <1>1, NodeTypes DEF IInv, AnnotateInv, ComposeInv
  <2>2. CASE n \notin ToSet(order)
    BY <1>1, <2>2, AllPlaced
  <2>3. CASE n \in ToSet(order)
    <3>1. PICK j \in 1 .. len : order[j] = n
      BY <2>1, <2>3 DEF ToSet
    <3>2. PICK i \in j .. len : r \in layers[nodes[i].node].requires
      BY <1>1, <2>1, <3>1 DEF IInv, ComposeInv
    <3>3. i \in 1 .. len
      BY <3>2
    <3>4. order[i] \in Neighbors(order[j])
      BY <2>1, <3>1, <3>2, <3>3 DEF Neighbors, Needs
    <3>5. (\E l \in 1 .. (j - 1) : order[l] = order[i]) \/ order[j] \in Entangled
      BY <1>1, <2>1, <3>1, <3>4 DEF IInv, SearchInv, RequirersFirst
    <3>6. ASSUME NEW l \in 1 .. (j - 1), order[l] = order[i] PROVE FALSE
      <4>1. l \in 1 .. len /\ l # i
        BY <3>2
      <4> QED BY <1>1, <2>1, <3>3, <3>6, <4>1 DEF IInv, SearchInv, DiscoveredInv
    <3> QED BY <3>1, <3>5, <3>6
  <2> QED BY <2>2, <2>3
<1>2. IInv => RequirementsMet
  BY <1>1
<1> QED BY <1>2, Invariant, PTL

\* The composed layer provides all targets but the ones reported missing, and a
\* service is only reported missing (layer_magic.go:214) if just layers that
\* need themselves provide it.
THEOREM TargetsAreMet == Spec => []TargetsMet
<1>1. ASSUME IInv PROVE TargetsMet
  <2> SUFFICES ASSUME pc = "composed"
               PROVE  /\ target \ missing \subseteq composed.provides
                      /\ \A n \in Node : ActualProvides(n) \cap missing # {} => n \in Entangled
    BY DEF TargetsMet
  <2>1. PICK len \in Nat : /\ len = piped /\ len = Len(nodes) /\ DOMAIN order = 1 .. len
                           /\ \A i \in 1 .. len : nodes[i].node = order[i] /\ order[i] \in Node
    BY <1>1, NodeTypes DEF IInv, AnnotateInv, ComposeInv
  <2>2. ASSUME NEW t \in target \ missing PROVE t \in composed.provides
    <3>1. PICK i \in 1 .. len : nodes[i].merges /\ t \in ActualProvides(nodes[i].node)
      BY <1>1, <2>1, <2>2 DEF IInv, AnnotateInv
    <3>2. t \in layers[nodes[i].node].provides
      BY <3>1 DEF ActualProvides
    <3> QED BY <1>1, <2>1, <3>1, <3>2 DEF IInv, ComposeInv
  <2>3. ASSUME NEW n \in Node, NEW t \in missing, t \in ActualProvides(n) PROVE n \in Entangled
    <3>1. \A i \in 1 .. len : order[i] # n
      BY <1>1, <2>1, <2>3 DEF IInv, AnnotateInv
    <3>2. n \notin ToSet(order)
      BY <2>1, <3>1 DEF ToSet
    <3> QED BY <1>1, <3>2, AllPlaced
  <2> QED BY <2>2, <2>3
<1>2. IInv => TargetsMet
  BY <1>1
<1> QED BY <1>2, Invariant, PTL
=============================================================================
