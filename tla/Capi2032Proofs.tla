--------------------------- MODULE Capi2032Proofs ---------------------------
(***************************************************************************)
(* Theorems about the Win32 client, for any number of threads and calls.   *)
(*                                                                         *)
(* The walk over the linked list of awaited answers is a recursive         *)
(* function; what it computes is proved by induction on a rank that falls  *)
(* along the links, in the form of a least counterexample.                 *)
(***************************************************************************)
EXTENDS Capi2032, WellFoundedInduction, SequenceTheorems, TLAPS

(* Every set of numbers has a least element. *)
LEMMA LeastNat ==
    ASSUME NEW S, S \subseteq Nat, S # {}
    PROVE  \E n \in S : \A m \in S : n <= m
<1> DEFINE R == OpToRel(<, Nat)
<1>1. \A m, n \in Nat : m < n => <<m, n>> \in R
  BY DEF OpToRel
<1>2. IsWellFoundedOn(R, Nat)
  BY NatLessThanWellFounded
<1> HIDE DEF R
<1>3. PICK n \in S : \A m \in S : ~ (<<m, n>> \in R)
  BY <1>2, WFMin
<1>4. ASSUME NEW m \in S PROVE n <= m
  <2>1. m \in Nat /\ n \in Nat
    OBVIOUS
  <2>2. ~ (m < n)
    BY <1>1, <1>3, <2>1, Zenon
  <2>3. QED
    BY <2>1, <2>2
<1>5. QED
  BY <1>4

-----------------------------------------------------------------------------
(* Links among the nodes, and a rank that falls along them. *)
Links == [Nodes -> Nodes \cup {NULL}]

Falls(link, rank) ==
    \A n \in Nodes : link[n] # NULL => rank[link[n]] < rank[n]

Ranks == [Nodes -> Nat]

(* Induction from the ends of the chains towards their starts. *)
LEMMA ChainInduction ==
    ASSUME NEW link \in Links, NEW rank \in Ranks, Falls(link, rank),
           NEW S, \A n \in Nodes : (link[n] = NULL \/ link[n] \in S) => n \in S
    PROVE  Nodes \subseteq S
<1> SUFFICES ASSUME NEW x \in Nodes, x \notin S PROVE FALSE
  OBVIOUS
<1> DEFINE Bad == {rank[n] : n \in Nodes \ S}
<1>1. Bad \subseteq Nat /\ Bad # {}
  BY DEF Ranks
<1>2. PICK least \in Bad : \A m \in Bad : least <= m
  BY <1>1, LeastNat
<1>3. PICK n \in Nodes \ S : least = rank[n]
  OBVIOUS
<1>4. link[n] \in Nodes \ S
  BY DEF Links
<1>5. rank[link[n]] < rank[n] /\ rank[link[n]] \in Nat /\ rank[n] \in Nat
  BY <1>4, Capi2032Assumption DEF Falls, Ranks, Nodes
<1>6. QED
  BY <1>2, <1>3, <1>4, <1>5

(* The walk of ListFrom over given links. *)
IsWalk(link, f) ==
    f = [n \in Nodes \cup {NULL} |-> IF n = NULL THEN <<>> ELSE <<n>> \o f[link[n]]]

(* ListFrom, the function the hash-table code walks the chain with, is the chain walk. *)
LEMMA ListFromIsWalk ==
    ASSUME NEW p
    PROVE  ListFrom(p) = (CHOOSE f : IsWalk(next, f))[p]
BY DEF ListFrom, IsWalk

(* A walk exists: its values are found rank by rank. *)
LEMMA WalkExists ==
    ASSUME NEW link \in Links, NEW rank \in Ranks, Falls(link, rank)
    PROVE  \E f \in [Nodes \cup {NULL} -> Seq(Nodes)] : IsWalk(link, f)
<1> DEFINE P == Nodes \cup {NULL}
           Good(f, k) == /\ f \in [P -> Seq(Nodes)] /\ f[NULL] = <<>>
                         /\ \A n \in Nodes : rank[n] < k => f[n] = <<n>> \o f[link[n]]
<1>n. /\ NULL \notin Nodes
      /\ \A n \in Nodes : rank[n] \in Nat /\ link[n] \in P
      /\ \A n \in Nodes : link[n] # NULL => link[n] \in Nodes /\ rank[link[n]] < rank[n]
  BY Capi2032Assumption DEF Nodes, Links, Ranks, Falls
<1>1. \A k \in Nat : \E f : Good(f, k)
  <2> DEFINE Bad == {k \in Nat : ~ \E f : Good(f, k)}
  <2> SUFFICES ASSUME Bad # {} PROVE FALSE
    OBVIOUS
  <2>1. PICK k \in Bad : \A m \in Bad : k <= m
    <3>1. Bad \subseteq Nat
      OBVIOUS
    <3> HIDE DEF Bad
    <3>2. QED
      BY <3>1, LeastNat
  <2>2. k # 0
    <3>1. Good([p \in P |-> <<>>], 0)
      BY <1>n
    <3>2. QED
      BY <3>1
  <2>3. k - 1 \in Nat /\ k - 1 \notin Bad
    <3>1. k \in Nat
      OBVIOUS
    <3> HIDE DEF Bad
    <3>2. k - 1 \in Nat /\ ~ (k <= k - 1)
      BY <2>2, <3>1
    <3>3. QED
      BY <2>1, <3>2
  <2>4. PICK f : Good(f, k - 1)
    BY <2>3
  <2> DEFINE g == [p \in P |-> IF p # NULL /\ rank[p] < k THEN <<p>> \o f[link[p]] ELSE f[p]]
  <2>5. g \in [P -> Seq(Nodes)] /\ g[NULL] = <<>>
    <3>1. ASSUME NEW p \in P PROVE g[p] \in Seq(Nodes)
      <4>1. CASE p # NULL /\ rank[p] < k
        <5>1. <<p>> \in Seq(Nodes) /\ f[link[p]] \in Seq(Nodes)
          BY <1>n, <2>4, <4>1
        <5>2. QED
          BY <4>1, <5>1, ConcatProperties
      <4>2. CASE ~ (p # NULL /\ rank[p] < k)
        BY <2>4, <4>2
      <4>3. QED
        BY <4>1, <4>2
    <3>2. QED
      BY <2>4, <3>1
  <2>6. ASSUME NEW n \in Nodes, rank[n] < k PROVE g[n] = <<n>> \o g[link[n]]
    <3>1. g[n] = <<n>> \o f[link[n]]
      BY <1>n, <2>6
    <3>2. g[link[n]] = f[link[n]]
      <4>1. CASE link[n] = NULL
        BY <2>4, <2>5, <4>1
      <4>2. CASE link[n] # NULL
        <5>0. /\ link[n] \in Nodes /\ rank[link[n]] < rank[n] /\ rank[n] < k
              /\ rank[link[n]] \in Nat /\ rank[n] \in Nat /\ k \in Nat
          BY <1>n, <2>6, <4>2
        <5>1. link[n] \in Nodes /\ rank[link[n]] < k - 1
          BY <5>0
        <5>2. f[link[n]] = <<link[n]>> \o f[link[link[n]]]
          BY <2>4, <5>1
        <5>3. rank[link[n]] < k
          BY <5>0
        <5>4. QED
          BY <4>2, <5>1, <5>2, <5>3
      <4>3. QED
        BY <4>1, <4>2
    <3>3. QED
      BY <3>1, <3>2
  <2>7. Good(g, k)
    BY <2>5, <2>6
  <2>8. QED
    BY <2>7
<1>2. ASSUME NEW f, NEW g, NEW k \in Nat, Good(f, k), Good(g, k)
      PROVE  \A n \in Nodes : rank[n] < k => f[n] = g[n]
  <2> DEFINE S == {n \in Nodes : rank[n] < k => f[n] = g[n]}
  <2>1. ASSUME NEW n \in Nodes, link[n] = NULL \/ link[n] \in S PROVE n \in S
    <3> SUFFICES ASSUME rank[n] < k PROVE f[n] = g[n]
      OBVIOUS
    <3>1. f[link[n]] = g[link[n]]
      <4>1. CASE link[n] = NULL
        BY <1>2, <4>1
      <4>2. CASE link[n] # NULL
        BY <1>n, <2>1, <4>2
      <4>3. QED
        BY <4>1, <4>2
    <3>2. QED
      BY <1>2, <3>1
  <2> HIDE DEF S
  <2>2. Nodes \subseteq S
    BY <2>1, ChainInduction
  <2>3. QED
    BY <2>2 DEF S
<1> DEFINE At(k) == CHOOSE f : Good(f, k)
<1>3. \A k \in Nat : Good(At(k), k)
  BY <1>1
<1> DEFINE F == [p \in P |-> IF p = NULL THEN <<>> ELSE At(rank[p] + 1)[p]]
<1> HIDE DEF At
<1>4. F \in [P -> Seq(Nodes)] /\ F[NULL] = <<>>
  BY <1>n, <1>3
<1>5. ASSUME NEW n \in Nodes PROVE F[n] = <<n>> \o F[link[n]]
  <2>1. Good(At(rank[n] + 1), rank[n] + 1)
    <3>1. rank[n] + 1 \in Nat
      BY <1>n
    <3> HIDE DEF Good
    <3>2. QED
      BY <1>3, <3>1
  <2>2. F[n] = <<n>> \o At(rank[n] + 1)[link[n]]
    <3>1. F[n] = At(rank[n] + 1)[n]
      BY <1>n
    <3>2. rank[n] < rank[n] + 1
      BY <1>n
    <3>3. QED
      BY <2>1, <3>1, <3>2
  <2>3. At(rank[n] + 1)[link[n]] = F[link[n]]
    <3>1. CASE link[n] = NULL
      BY <2>1, <1>4, <3>1
    <3>2. CASE link[n] # NULL
      <4> DEFINE m == link[n]
      <4>1. m \in Nodes /\ rank[m] < rank[n] /\ rank[m] \in Nat /\ rank[n] \in Nat
        BY <1>n, <3>2
      <4>2. Good(At(rank[m] + 1), rank[m] + 1)
        <5>1. rank[m] + 1 \in Nat
          BY <4>1
        <5> HIDE DEF Good
        <5>2. QED
          BY <1>3, <5>1
      <4>3. Good(At(rank[n] + 1), rank[m] + 1)
        <5>1. \A i \in Nodes : rank[i] < rank[m] + 1 => rank[i] < rank[n] + 1
          BY <1>n, <4>1
        <5>2. QED
          BY <2>1, <5>1
      <4>4. At(rank[n] + 1)[m] = At(rank[m] + 1)[m]
        <5>1. rank[m] + 1 \in Nat /\ rank[m] < rank[m] + 1
          BY <4>1
        <5> HIDE DEF Good, m
        <5>2. QED
          BY <1>2, <4>1, <4>2, <4>3, <5>1
      <4>5. QED
        BY <1>n, <4>1, <4>4
    <3>3. QED
      BY <3>1, <3>2
  <2>4. QED
    BY <2>2, <2>3
<1>6. IsWalk(link, F)
  <2>1. F = [p \in P |-> IF p = NULL THEN <<>> ELSE <<p>> \o F[link[p]]]
    <3>1. \A p \in P : F[p] = IF p = NULL THEN <<>> ELSE <<p>> \o F[link[p]]
      BY <1>4, <1>5
    <3>2. F \in [P -> Seq(Nodes)]
      BY <1>4
    <3> HIDE DEF F
    <3>3. QED
      BY <3>1, <3>2
  <2>2. QED
    BY <2>1 DEF IsWalk
<1>7. QED
  BY <1>4, <1>6

-----------------------------------------------------------------------------
(* The list has no cycle, so that every walk over it ends. *)
Chained == next \in Links /\ \E rank \in Ranks : Falls(next, rank)

(* Prepending a node, index by index. *)
LEMMA Prepended ==
    ASSUME NEW n \in Nodes, NEW t \in Seq(Nodes)
    PROVE  /\ <<n>> \o t \in Seq(Nodes)
           /\ Len(<<n>> \o t) = Len(t) + 1 /\ Len(t) \in Nat
           /\ (<<n>> \o t)[1] = n
           /\ \A i \in 1 .. Len(t) : (<<n>> \o t)[i + 1] = t[i]
<1>1. <<n>> \in Seq(Nodes) /\ Len(<<n>>) = 1 /\ <<n>>[1] = n
  OBVIOUS
<1>2. QED
  BY <1>1, ConcatProperties

(* What ListFrom computes. *)
LEMMA ListFacts ==
    ASSUME Chained
    PROVE  /\ ListFrom(NULL) = <<>>
           /\ \A n \in Nodes : ListFrom(n) = <<n>> \o ListFrom(next[n])
           /\ \A p \in Nodes \cup {NULL} : ListFrom(p) \in Seq(Nodes)
<1> DEFINE f == CHOOSE g : IsWalk(next, g)
<1>1. PICK rank \in Ranks : Falls(next, rank)
  BY DEF Chained
<1>2. next \in Links
  BY DEF Chained
<1>3. IsWalk(next, f)
  BY <1>1, <1>2, WalkExists
<1>4. \A p : ListFrom(p) = f[p]
  BY ListFromIsWalk
<1> HIDE DEF f
<1>n. NULL \notin Nodes /\ \A n \in Nodes : next[n] \in Nodes \cup {NULL}
  BY <1>2, Capi2032Assumption DEF Nodes, Links
<1>5. f[NULL] = <<>> /\ \A n \in Nodes : f[n] = <<n>> \o f[next[n]]
  BY <1>3, <1>n DEF IsWalk
<1> DEFINE S == {n \in Nodes : f[n] \in Seq(Nodes)}
<1>6. ASSUME NEW n \in Nodes, next[n] = NULL \/ next[n] \in S PROVE n \in S
  <2>1. f[next[n]] \in Seq(Nodes)
    <3>1. CASE next[n] = NULL
      <4>1. <<>> \in Seq(Nodes)
        OBVIOUS
      <4>2. f[NULL] = <<>>
        BY <1>5
      <4>3. QED
        BY <3>1, <4>1, <4>2
    <3>2. CASE next[n] \in S
      BY <3>2
    <3>3. QED
      BY <1>6, <3>1, <3>2
  <2>2. <<n>> \o f[next[n]] \in Seq(Nodes)
    BY <2>1, Prepended
  <2>3. QED
    BY <1>5, <2>2
<1> HIDE DEF S
<1>7. Nodes \subseteq S
  BY <1>1, <1>2, <1>6, ChainInduction
<1>8. \A p \in Nodes \cup {NULL} : f[p] \in Seq(Nodes)
  <2>1. ASSUME NEW p \in Nodes PROVE f[p] \in Seq(Nodes)
    BY <1>7 DEF S
  <2>2. f[NULL] \in Seq(Nodes)
    BY <1>5
  <2>3. QED
    BY <2>1, <2>2
<1>9. QED
  BY <1>4, <1>5, <1>8

(* A walk starts at its node, follows the links and ends at a last node. *)
LEMMA ListShape ==
    ASSUME Chained, NEW p \in Nodes
    PROVE  /\ Len(ListFrom(p)) \in Nat /\ Len(ListFrom(p)) >= 1
           /\ ListFrom(p)[1] = p
           /\ \A i \in 1 .. Len(ListFrom(p)) - 1 :
                 ListFrom(p)[i + 1] = next[ListFrom(p)[i]]
           /\ next[ListFrom(p)[Len(ListFrom(p))]] = NULL
<1> DEFINE Shape(n) ==
      /\ Len(ListFrom(n)) \in Nat /\ Len(ListFrom(n)) >= 1
      /\ ListFrom(n)[1] = n
      /\ \A i \in 1 .. Len(ListFrom(n)) - 1 : ListFrom(n)[i + 1] = next[ListFrom(n)[i]]
      /\ next[ListFrom(n)[Len(ListFrom(n))]] = NULL
           S == {n \in Nodes : Shape(n)}
<1>1. PICK rank \in Ranks : Falls(next, rank)
  BY DEF Chained
<1>2. next \in Links /\ NULL \notin Nodes
  BY Capi2032Assumption DEF Chained, Nodes
<1>3. ASSUME NEW n \in Nodes, next[n] = NULL \/ next[n] \in S PROVE Shape(n)
  <2> DEFINE t == ListFrom(next[n])
             s == ListFrom(n)
  <2>1. t \in Seq(Nodes) /\ s = <<n>> \o t
    BY <1>2, ListFacts DEF Links
  <2>2. CASE next[n] = NULL
    <3>1. t = <<>>
      BY <2>2, ListFacts
    <3>2. s = <<n>>
      BY <2>1, <3>1
    <3>3. Len(s) = 1 /\ s[1] = n
      BY <3>2
    <3> HIDE DEF s, t
    <3>4. Shape(n)
      BY <2>2, <3>3 DEF s
    <3>5. QED
      BY <3>4
  <2>3. CASE next[n] \in S
    <3>1. /\ Len(t) \in Nat /\ Len(t) >= 1 /\ t[1] = next[n]
          /\ \A i \in 1 .. Len(t) - 1 : t[i + 1] = next[t[i]]
          /\ next[t[Len(t)]] = NULL
      BY <2>3
    <3>2. /\ Len(s) = Len(t) + 1 /\ s[1] = n
          /\ \A i \in 1 .. Len(t) : s[i + 1] = t[i]
      BY <2>1, Prepended
    <3> HIDE DEF s, t
    <3>3. ASSUME NEW i \in 1 .. Len(s) - 1 PROVE s[i + 1] = next[s[i]]
      <4>1. CASE i = 1
        BY <3>1, <3>2, <4>1
      <4>2. CASE i # 1
        <5>1. i - 1 \in 1 .. Len(t) - 1 /\ i - 1 \in 1 .. Len(t) /\ i \in 1 .. Len(t)
          BY <3>1, <3>2, <4>2
        <5>2. s[(i - 1) + 1] = t[i - 1] /\ s[i + 1] = t[i] /\ t[(i - 1) + 1] = next[t[i - 1]]
          BY <3>1, <3>2, <5>1
        <5>3. (i - 1) + 1 = i
          BY <5>1
        <5>4. QED
          BY <5>2, <5>3
      <4>3. QED
        BY <4>1, <4>2
    <3>4. s[Len(s)] = t[Len(t)]
      BY <3>1, <3>2
    <3>5. Len(s) \in Nat /\ Len(s) >= 1
      BY <3>1, <3>2
    <3>6. QED
      BY <3>1, <3>2, <3>3, <3>4, <3>5 DEF s
  <2>4. QED
    BY <1>3, <2>2, <2>3
<1>4. \A n \in Nodes : (next[n] = NULL \/ next[n] \in S) => n \in S
  BY <1>3
<1> HIDE DEF Shape
<1>5. Nodes \subseteq S
  <2> HIDE DEF S
  <2>1. QED
    BY <1>1, <1>2, <1>4, ChainInduction
<1>6. Shape(p)
  BY <1>5
<1>7. QED
  BY <1>6 DEF Shape

(* A walk does not leave a set of nodes that no link leaves. *)
LEMMA ListStays ==
    ASSUME Chained, NEW C, C \subseteq Nodes,
           \A n \in C : next[n] = NULL \/ next[n] \in C, NEW p \in C
    PROVE  \A i \in 1 .. Len(ListFrom(p)) : ListFrom(p)[i] \in C
<1> DEFINE Within(n) == \A i \in 1 .. Len(ListFrom(n)) : ListFrom(n)[i] \in C
           S == {n \in Nodes : n \in C => Within(n)}
<1>1. PICK rank \in Ranks : Falls(next, rank)
  BY DEF Chained
<1>2. next \in Links
  BY DEF Chained
<1>3. ASSUME NEW n \in Nodes, next[n] = NULL \/ next[n] \in S, n \in C PROVE Within(n)
  <2> DEFINE t == ListFrom(next[n])
             s == ListFrom(n)
  <2>1. t \in Seq(Nodes) /\ s = <<n>> \o t
    BY <1>2, ListFacts DEF Links
  <2>2. /\ Len(s) = Len(t) + 1 /\ s[1] = n /\ Len(t) \in Nat
        /\ \A i \in 1 .. Len(t) : s[i + 1] = t[i]
    BY <2>1, Prepended
  <2>3. \A i \in 1 .. Len(t) : t[i] \in C
    <3>1. CASE next[n] = NULL
      <4>1. Len(t) = 0
        BY <3>1, ListFacts
      <4> HIDE DEF t
      <4>2. QED
        BY <4>1
    <3>2. CASE next[n] # NULL
      BY <1>3, <3>2
    <3>3. QED
      BY <3>1, <3>2
  <2> HIDE DEF s, t
  <2>4. ASSUME NEW i \in 1 .. Len(s) PROVE s[i] \in C
    <3>1. CASE i = 1
      BY <1>3, <2>2, <3>1
    <3>2. CASE i # 1
      <4>1. i - 1 \in 1 .. Len(t) /\ (i - 1) + 1 = i
        BY <2>2, <3>2
      <4>2. s[(i - 1) + 1] = t[i - 1]
        BY <2>2, <4>1
      <4>3. QED
        BY <2>3, <4>1, <4>2
    <3>3. QED
      BY <3>1, <3>2
  <2>5. QED
    BY <2>4 DEF s
<1>4. \A n \in Nodes : (next[n] = NULL \/ next[n] \in S) => n \in S
  BY <1>3
<1> HIDE DEF Within
<1>5. Nodes \subseteq S
  <2> HIDE DEF S
  <2>1. QED
    BY <1>1, <1>2, <1>4, ChainInduction
<1>6. Within(p)
  BY <1>5
<1>7. QED
  BY <1>6 DEF Within

-----------------------------------------------------------------------------
(* The invariant of the client, part by part.                              *)

(* Answers as the server makes them: ids are never 0, and a registration   *)
(* that succeeded names an application.                                    *)
GoodAnswers ==
    {a \in WireAnswers :
        /\ a.message_id # 0
        /\ (/\ a.message_type = "CAPI_REGISTER" /\ a.proxy_error = "NONE"
            /\ a.capi_error = "0x0000") => a.app_id \in AppIds}

PendingRequests ==
    {r \in [message_id : Nat, type : CapiTypes, app_id : AppIds \cup {0}, from : Nodes] :
        r.message_id # 0}

ServerInv ==
    wire \in Seq(GoodAnswers) /\ pending \subseteq PendingRequests /\ serverApps \subseteq AppIds

(* A call in progress has a type, a number and an id; the answer it holds  *)
(* has its id; if it keeps a message or reported success its answer was    *)
(* verified.                                                               *)
CallOK(r) ==
    /\ r \in [pc : CallStates, n : 0 .. MaxCalls, type : CapiTypes \cup {"none"},
              app_id : AppIds \cup {0}, id : Nat, queue : Nodes \cup {NULL},
              answer : GoodAnswers \cup {Waiting, ILLEGAL_ANSWER},
              result : CapiErrors \cup {"none"}]
    /\ r.pc # "idle" => r.type \in CapiTypes /\ r.n # 0 /\ r.id # 0
    /\ r.answer \in GoodAnswers => r.answer.message_id = r.id
    /\ r.pc = "keep" => /\ r.type = "CAPI_GETMESSAGE" /\ r.answer # Waiting
                        /\ HasMessage(r.answer)
    /\ r.pc = "idle" /\ r.result = "0x0000" =>
          /\ r.answer.message_type = r.type
          /\ r.answer.message_id = r.id
          /\ r.answer.proxy_error = "NONE"

CallInv ==
    /\ DOMAIN call = Threads /\ call = [t \in Threads |-> call[t]]
    /\ \A t \in Threads : CallOK(call[t])

(* The pointer the receiver holds is that of an entry with the id of the   *)
(* answer it is about to store.                                            *)
ReceiverInv ==
    /\ receiver \in [pc : {"none", "recv", "lookup", "read_start", "unlink", "store", "quit"},
                     msg : GoodAnswers \cup {Waiting},
                     data : Nodes \cup {NULL}, queue : Nodes \cup {NULL}]
    /\ receiver.pc \in {"none", "recv", "lookup", "quit"} => receiver.data = NULL
    /\ receiver.pc \in {"lookup", "read_start", "unlink", "store"} =>
          receiver.msg \in GoodAnswers
    /\ receiver.data # NULL => msgId[receiver.data] = receiver.msg.message_id

(* The nodes that were ever entered are those with an id; only these are   *)
(* allocated, linked or the start of the list.                             *)
Added == {n \in Nodes : msgId[n] # 0}

HashInv ==
    /\ Chained
    /\ msgId \in [Nodes -> Nat]
    /\ allocated \subseteq Added
    /\ hash_start \in Added \cup {NULL}
    /\ \A n \in Nodes : next[n] \in Added \cup {NULL}
    /\ \A n \in Nodes : n \notin Added => next[n] = NULL

(* A node is entered once, by the call it is named after. *)
AddedFirst ==
    \A t \in Threads, n \in 1 .. MaxCalls :
        msgId[<<t, n>>] # 0 =>
            /\ n <= call[t].n
            /\ n = call[t].n => /\ call[t].pc \in {"send", "wait", "keep", "idle"}
                                /\ msgId[<<t, n>>] = call[t].id

FlagTypes ==
    /\ dll \in {"unloaded", "loaded", "detaching", "marked", "detached"}
    /\ socke \in {"none", "open", "broken", "closed"}
    /\ msg_id \in Nat
    /\ wild \in BOOLEAN

(* The receiver is started when the library is loaded. *)
Unloaded == dll = "unloaded" => receiver.pc = "none"

ClientInv ==
    /\ ServerInv /\ CallInv /\ ReceiverInv /\ HashInv /\ AddedFirst
    /\ FlagTypes /\ Unloaded

(* The application list. *)
AppEntries == [entry : Nodes, ApplID : AppIds, data : Nodes \cup {NULL}]
AppList    == Seq(AppEntries)
ListType   == registered_apps \in AppList

-----------------------------------------------------------------------------
(* The first entry of the application list. *)
LEMMA ListStart ==
    ASSUME ListType
    PROVE  /\ (IF registered_apps = <<>> THEN NULL ELSE registered_apps[1].entry)
                  \in Nodes \cup {NULL}
           /\ registered_apps # <<>> => 1 \in Behind(registered_apps[1].entry)
<1>1. registered_apps # <<>> => Len(registered_apps) \in Nat /\ 1 \in 1 .. Len(registered_apps)
  BY DEF ListType, AppList
<1>2. registered_apps # <<>> => registered_apps[1] \in AppEntries
  BY <1>1, ElementOfSeq DEF ListType, AppList
<1>3. 1 \in 1 .. 1
  OBVIOUS
<1>4. QED
  BY <1>1, <1>2, <1>3 DEF Behind, AppEntries

(* A call that is in progress has a node. *)
LEMMA NodeType ==
    ASSUME CallInv, NEW t \in Threads, call[t].pc # "idle"
    PROVE  Node(t) \in Nodes /\ call[t].n \in 1 .. MaxCalls
<1>1. CallOK(call[t])
  BY DEF CallInv
<1>2. call[t].n \in 1 .. MaxCalls
  BY <1>1, Capi2032Assumption DEF CallOK
<1>3. QED
  BY <1>2 DEF Node, Nodes

(* One call changes. *)
LEMMA OneCall ==
    ASSUME CallInv, NEW t \in Threads, NEW r, CallOK(r), call' = [call EXCEPT ![t] = r]
    PROVE  CallInv' /\ call'[t] = r /\ \A u \in Threads \ {t} : call'[u] = call[u]
BY DEF CallInv

(* The two values of an answer variable that are no answers. *)
LEMMA NoAnswers ==
    /\ Waiting \notin WireAnswers /\ ILLEGAL_ANSWER \notin WireAnswers
    /\ GoodAnswers \subseteq WireAnswers /\ Waiting # ILLEGAL_ANSWER
<1>1. "NULL" \notin CapiTypes /\ "ILLEGAL_ANSWER" \notin CapiTypes
  BY DEF CapiTypes, AppTypes, InfoTypes
<1>2. Waiting.message_type = "NULL" /\ ILLEGAL_ANSWER.message_type = "ILLEGAL_ANSWER"
  BY DEF Waiting, ILLEGAL_ANSWER, NoAnswer
<1>3. \A a \in WireAnswers : a.message_type \in CapiTypes
  BY DEF WireAnswers
<1>4. QED
  BY <1>1, <1>2, <1>3 DEF GoodAnswers

(* A call whose state alone changes stays a good one. *)
LEMMA MovesOK ==
    ASSUME CallInv, NEW t \in Threads, call[t].pc # "idle", NEW to \in CallStates \ {"idle", "keep"},
           NEW queue \in Nodes \cup {NULL},
           \/ call' = [call EXCEPT ![t].pc = to]
           \/ call' = [call EXCEPT ![t].pc = to, ![t].queue = queue]
    PROVE  CallInv'
<1> DEFINE q == IF call' = [call EXCEPT ![t].pc = to] THEN call[t].queue ELSE queue
           r == [call[t] EXCEPT !.pc = to, !.queue = q]
<1>1. CallOK(call[t])
  BY DEF CallInv
<1>2. q \in Nodes \cup {NULL}
  BY <1>1 DEF CallOK
<1>3. CallOK(r)
  <2> HIDE DEF q
  <2>1. QED
    BY <1>1, <1>2 DEF CallOK
<1>4. call' = [call EXCEPT ![t] = r]
  <2>1. call = [u \in Threads |-> call[u]]
    BY DEF CallInv
  <2>2. CASE call' = [call EXCEPT ![t].pc = to]
    BY <1>1, <2>1, <2>2 DEF CallOK
  <2>3. CASE /\ call' # [call EXCEPT ![t].pc = to]
             /\ call' = [call EXCEPT ![t].pc = to, ![t].queue = queue]
    <3>1. q = queue
      BY <2>3
    <3> HIDE DEF q
    <3>2. QED
      BY <1>1, <2>1, <2>3, <3>1 DEF CallOK
  <2>4. QED
    BY <2>2, <2>3
<1> HIDE DEF r
<1>5. QED
  BY <1>3, <1>4, OneCall

(* A call reports success only on its own answer, of its own type. *)
LEMMA ResultOK ==
    ASSUME NEW r, CallOK(r), r.answer # Waiting, Result(r.answer, r.type) = "0x0000"
    PROVE  /\ r.answer.message_type = r.type /\ r.answer.message_id = r.id
           /\ r.answer.proxy_error = "NONE" /\ r.answer.capi_error = "0x0000"
           /\ r.answer \in GoodAnswers
<1>1. r.answer # ILLEGAL_ANSWER
  BY DEF Result
<1>2. r.answer \in GoodAnswers
  BY <1>1 DEF CallOK
<1>3. verifyMessage(r.answer, r.type) /\ r.answer.capi_error = "0x0000"
  BY <1>1 DEF Result
<1>4. QED
  BY <1>2, <1>3 DEF verifyMessage, CallOK

(* The answer the receiver stores has the id of the call it is stored in. *)
LEMMA StoreRight ==
    ASSUME CallInv, ReceiverInv, AddedFirst, receiver.pc = "store", FrameLive(receiver.data)
    PROVE  /\ receiver.data \in Nodes /\ receiver.data[1] \in Threads
           /\ receiver.msg \in GoodAnswers
           /\ receiver.msg.message_id = call[receiver.data[1]].id
           /\ receiver.data = Node(receiver.data[1])
<1> DEFINE d == receiver.data
<1>1. d \in Nodes /\ receiver.msg \in GoodAnswers /\ msgId[d] = receiver.msg.message_id
  BY DEF ReceiverInv, FrameLive
<1>2. PICK t \in Threads, n \in 1 .. MaxCalls : d = <<t, n>>
  BY <1>1 DEF Nodes
<1>3. n = call[t].n
  BY <1>2 DEF FrameLive
<1>4. msgId[<<t, n>>] # 0
  BY <1>1, <1>2 DEF GoodAnswers
<1>5. msgId[<<t, n>>] = call[t].id
  BY <1>3, <1>4 DEF AddedFirst
<1>6. QED
  BY <1>1, <1>2, <1>3, <1>5 DEF Node

(* An answer stored in a call in progress leaves it a good one. *)
LEMMA GivenOK ==
    ASSUME NEW r, CallOK(r), r.pc # "idle",
           NEW a, a = ILLEGAL_ANSWER \/ (a \in GoodAnswers /\ a.message_id = r.id)
    PROVE  CallOK(Given(r, a))
<1>1. CASE r.pc = "keep"
  BY <1>1 DEF Given
<1>2. CASE r.pc # "keep"
  <2> DEFINE g == [r EXCEPT !.answer = a]
  <2>1. /\ g \in [pc : CallStates, n : 0 .. MaxCalls, type : CapiTypes \cup {"none"},
                  app_id : AppIds \cup {0}, id : Nat, queue : Nodes \cup {NULL},
                  answer : GoodAnswers \cup {Waiting, ILLEGAL_ANSWER},
                  result : CapiErrors \cup {"none"}]
        /\ g.pc = r.pc /\ g.type = r.type /\ g.n = r.n /\ g.id = r.id /\ g.answer = a
    BY DEF CallOK
  <2>2. Given(r, a) = g
    BY <1>2 DEF Given
  <2>3. r.type \in CapiTypes /\ r.n # 0 /\ r.id # 0
    BY DEF CallOK
  <2>4. a \in GoodAnswers => a.message_id = r.id
    BY NoAnswers
  <2> HIDE DEF g
  <2>5. CallOK(g)
    BY <1>2, <2>1, <2>3, <2>4 DEF CallOK
  <2>6. QED
    BY <2>2, <2>5
<1>3. QED
  BY <1>1, <1>2

(* Every step keeps the calls good. *)
LEMMA CallStep ==
    ASSUME ClientInv, ListType, [Next]_vars
    PROVE  CallInv'
<1>i. CallInv /\ ReceiverInv /\ AddedFirst /\ HashInv /\ FlagTypes
  BY DEF ClientInv
<1>a. (IF registered_apps = <<>> THEN NULL ELSE registered_apps[1].entry) \in Nodes \cup {NULL}
  BY ListStart
<1>n. 0 \in 0 .. MaxCalls /\ MaxCalls \in Nat
  BY Capi2032Assumption
<1>0. CASE call' = call
  BY <1>0, <1>i DEF CallInv
<1>1. ASSUME NEW t \in Threads, Call(t) PROVE CallInv'
  <2>1. PICK type \in CallTypes, app \in AppIds \cup {0} :
          call' = [call EXCEPT ![t] =
                [pc |-> "increment", n |-> @.n + 1, type |-> type, app_id |-> app,
                 id |-> msg_id + 1, queue |-> NULL, answer |-> Waiting,
                 result |-> "none"]]
    BY <1>1 DEF Call
  <2> DEFINE r == [pc |-> "increment", n |-> call[t].n + 1, type |-> type, app_id |-> app,
                   id |-> msg_id + 1, queue |-> NULL, answer |-> Waiting,
                   result |-> "none"]
  <2>2. call[t].n \in 0 .. MaxCalls /\ call[t].n < MaxCalls
    BY <1>1, <1>i DEF Call, CallInv, CallOK
  <2>3. /\ call[t].n + 1 \in 0 .. MaxCalls /\ call[t].n + 1 # 0
        /\ msg_id + 1 \in Nat /\ msg_id + 1 # 0
    BY <1>i, <1>n, <2>2 DEF FlagTypes
  <2>4. type \in CapiTypes
    BY Capi2032Assumption
  <2>5. CallOK(r)
    BY <2>3, <2>4, NoAnswers DEF CallOK, CallStates
  <2>6. call' = [call EXCEPT ![t] = r]
    BY <2>1, <1>i DEF CallInv
  <2> HIDE DEF r
  <2>7. QED
    BY <1>i, <2>5, <2>6, OneCall
<1>2. ASSUME NEW t \in Threads, IncrementMsgId(t) \/ AddEntry(t) \/ sendRequest(t)
      PROVE  CallInv'
  <2>1. PICK to \in CallStates \ {"idle", "keep"} :
          call[t].pc # "idle" /\ call' = [call EXCEPT ![t].pc = to, ![t].queue = NULL]
    BY <1>2 DEF IncrementMsgId, AddEntry, sendRequest, Moves, CallStates
  <2>2. QED
    BY <1>i, <2>1, MovesOK
<1>3. ASSUME NEW t \in Threads, ReadStart(t) PROVE CallInv'
  <2>1. hash_start \in Nodes \cup {NULL}
    BY <1>i DEF HashInv, Added
  <2>2. QED
    BY <1>3, <1>i, <2>1, MovesOK DEF ReadStart, CallStates
<1>4. ASSUME NEW t \in Threads, sendRequest_fails(t) PROVE CallInv'
  <2> DEFINE r == [call[t] EXCEPT !.pc = "wait", !.answer = ILLEGAL_ANSWER]
  <2>1. CallOK(call[t]) /\ call[t].pc = "send"
    BY <1>4, <1>i DEF sendRequest_fails, CallInv
  <2>2. CallOK(r)
    BY <2>1, NoAnswers DEF CallOK, CallStates
  <2>3. call' = [call EXCEPT ![t] = r]
    BY <1>4, <1>i, <2>1 DEF sendRequest_fails, CallOK, CallInv
  <2> HIDE DEF r
  <2>4. QED
    BY <1>i, <2>2, <2>3, OneCall
<1>e. ASSUME NEW t \in Threads, NEW result \in CapiErrors, Ends(t, result),
             result = "0x0000" => /\ call[t].answer.message_type = call[t].type
                                  /\ call[t].answer.message_id = call[t].id
                                  /\ call[t].answer.proxy_error = "NONE"
      PROVE  CallInv'
  <2> DEFINE r == [call[t] EXCEPT !.pc = "idle", !.result = result]
  <2>1. CallOK(call[t])
    BY <1>i DEF CallInv
  <2>4. CallOK(r)
    <3>1. /\ r.pc = "idle" /\ r.result = result /\ r.answer = call[t].answer
          /\ r.type = call[t].type /\ r.id = call[t].id
          /\ r \in [pc : CallStates, n : 0 .. MaxCalls, type : CapiTypes \cup {"none"},
                    app_id : AppIds \cup {0}, id : Nat, queue : Nodes \cup {NULL},
                    answer : GoodAnswers \cup {Waiting, ILLEGAL_ANSWER},
                    result : CapiErrors \cup {"none"}]
      BY <2>1 DEF CallOK, CallStates
    <3>2. call[t].answer \in GoodAnswers => call[t].answer.message_id = call[t].id
      BY <2>1 DEF CallOK
    <3> HIDE DEF r
    <3>3. QED
      BY <1>e, <3>1, <3>2 DEF CallOK
  <2>5. call' = [call EXCEPT ![t] = r]
    BY <1>e, <1>i, <2>1 DEF Ends, CallOK, CallInv
  <2> HIDE DEF r
  <2>6. QED
    BY <1>i, <2>4, <2>5, OneCall
<1>5. ASSUME NEW t \in Threads, NEW type, NEW result \in CapiErrors, Returns(t, type, result)
      PROVE  CallInv'
  <2>1. CallOK(call[t])
    BY <1>i DEF CallInv
  <2>2. call[t].answer # Waiting /\ result = Result(call[t].answer, call[t].type)
    BY <1>5 DEF Returns, Answered
  <2>3. result = "0x0000" => /\ call[t].answer.message_type = call[t].type
                             /\ call[t].answer.message_id = call[t].id
                             /\ call[t].answer.proxy_error = "NONE"
    BY <2>1, <2>2, ResultOK
  <2>4. Ends(t, result)
    BY <1>5 DEF Returns
  <2>5. QED
    BY <1>e, <2>3, <2>4
<1>g. ASSUME NEW t \in Threads, CAPI_GET_MESSAGE(t) PROVE CallInv'
  <2>1. CallOK(call[t])
    BY <1>i DEF CallInv
  <2>2. CASE GetMessage_fails(t) \/ GetMessage_malformed(t)
    <3>1. Ends(t, "0x1108")
      BY <2>2 DEF GetMessage_fails, GetMessage_malformed
    <3>2. "0x1108" \in CapiErrors /\ "0x1108" # "0x0000"
      BY DEF CapiErrors
    <3>3. QED
      BY <1>e, <3>1, <3>2
  <2>3. CASE GetMessage_copies(t)
    <3>1. PICK queue \in Nodes \cup {NULL} :
            call' = [call EXCEPT ![t].pc = "keep", ![t].queue = queue]
      BY <2>3, <1>a DEF GetMessage_copies
    <3> DEFINE r == [call[t] EXCEPT !.pc = "keep", !.queue = queue]
    <3>2. /\ call[t].type = "CAPI_GETMESSAGE" /\ call[t].answer # Waiting /\ call[t].pc = "wait"
          /\ HasMessage(call[t].answer)
      BY <2>3 DEF GetMessage_copies, Answered
    <3>3. CallOK(r)
      <4>1. /\ r.pc = "keep" /\ r.answer = call[t].answer /\ r.type = call[t].type
            /\ r.id = call[t].id /\ r.n = call[t].n
            /\ r \in [pc : CallStates, n : 0 .. MaxCalls, type : CapiTypes \cup {"none"},
                      app_id : AppIds \cup {0}, id : Nat, queue : Nodes \cup {NULL},
                      answer : GoodAnswers \cup {Waiting, ILLEGAL_ANSWER},
                      result : CapiErrors \cup {"none"}]
        BY <2>1 DEF CallOK, CallStates
      <4>2. /\ call[t].type \in CapiTypes /\ call[t].n # 0 /\ call[t].id # 0
            /\ call[t].answer \in GoodAnswers => call[t].answer.message_id = call[t].id
        BY <2>1, <3>2 DEF CallOK
      <4> HIDE DEF r
      <4>3. QED
        BY <3>2, <4>1, <4>2 DEF CallOK
    <3>4. call' = [call EXCEPT ![t] = r]
      BY <1>i, <2>1, <3>1 DEF CallOK, CallInv
    <3> HIDE DEF r
    <3>5. QED
      BY <1>i, <3>3, <3>4, OneCall
  <2>4. CASE GetMessage_keeps(t)
    <3>1. /\ call[t].pc = "keep" /\ Ends(t, call[t].answer.capi_error)
      BY <2>4 DEF GetMessage_keeps
    <3>2. /\ call[t].type = "CAPI_GETMESSAGE" /\ call[t].answer # ILLEGAL_ANSWER
          /\ call[t].answer # Waiting
          /\ verifyMessage(call[t].answer, "CAPI_GETMESSAGE")
      BY <2>1, <3>1 DEF CallOK, HasMessage
    <3>3. call[t].answer \in GoodAnswers /\ call[t].answer.message_id = call[t].id
      BY <2>1, <3>2 DEF CallOK
    <3>4. call[t].answer.capi_error \in CapiErrors
      BY <3>3 DEF GoodAnswers, WireAnswers
    <3>5. call[t].answer.capi_error = "0x0000" => /\ call[t].answer.message_type = call[t].type
                                                  /\ call[t].answer.proxy_error = "NONE"
      BY <3>2 DEF verifyMessage
    <3>6. QED
      BY <1>e, <3>1, <3>3, <3>4, <3>5
  <2>5. QED
    BY <1>g, <2>2, <2>3, <2>4 DEF CAPI_GET_MESSAGE
<1>6. CASE Store /\ FrameLive(receiver.data)
  <2>0. receiver.pc = "store"
    BY <1>6 DEF Store
  <2>1. PICK t \in Threads : t = receiver.data[1]
    BY <1>6, <1>i, <2>0, StoreRight
  <2>2. receiver.msg \in GoodAnswers /\ receiver.msg.message_id = call[t].id
    BY <1>6, <1>i, <2>0, <2>1, StoreRight
  <2> DEFINE r == Given(call[t], receiver.msg)
  <2>3. CallOK(call[t]) /\ call[t].pc # "idle"
    BY <1>6, <1>i, <2>1 DEF CallInv, FrameLive
  <2>4. CallOK(r)
    BY <2>2, <2>3, GivenOK
  <2>5. call' = [call EXCEPT ![t] = r]
    BY <1>6, <1>i, <2>1 DEF Store, CallInv
  <2> HIDE DEF r
  <2>6. QED
    BY <1>i, <2>4, <2>5, OneCall
<1>7. CASE MarkEntries
  <2>1. ASSUME NEW t \in Threads
        PROVE  \/ call'[t] = call[t]
               \/ call[t].pc # "idle" /\ call'[t] = Given(call[t], ILLEGAL_ANSWER)
    BY <1>7 DEF MarkEntries
  <2>2. ASSUME NEW t \in Threads PROVE CallOK(call'[t])
    <3>1. CallOK(call[t])
      BY <1>i DEF CallInv
    <3>2. call[t].pc # "idle" => CallOK(Given(call[t], ILLEGAL_ANSWER))
      BY <3>1, GivenOK
    <3>3. QED
      BY <2>1, <3>1, <3>2
  <2>3. DOMAIN call' = Threads /\ call' = [t \in Threads |-> call'[t]]
    BY <1>7 DEF MarkEntries
  <2>4. QED
    BY <2>2, <2>3 DEF CallInv
<1>8. ASSUME NEW t \in Threads, CallerStep(t) PROVE CallInv'
  BY <1>8, <1>2, <1>3, <1>4, <1>5, <1>g
     DEF CallerStep, CAPI_REGISTER, CAPI_RELEASE, PlainCallReturns,
         CAPI_PUT_MESSAGE, CAPI_WAIT_FOR_SIGNAL, CAPI_GET_MANUFACTURER, CAPI_GET_VERSION,
         CAPI_GET_SERIAL_NUMBER, CAPI_GET_PROFILE, CAPI_INSTALLED
<1>9. CASE ReceiverStep
  BY <1>9, <1>0, <1>6
     DEF ReceiverStep, recv, recv_fails, Lookup, ReadStartToRemove, Unlink, Store
<1>10. CASE \/ DLL_PROCESS_ATTACH \/ DLL_PROCESS_DETACH \/ FreeApps
            \/ ServerAnswers \/ ConnectionBreaks \/ UNCHANGED vars
  BY <1>10, <1>0 DEF DLL_PROCESS_ATTACH, DLL_PROCESS_DETACH, FreeApps, ServerAnswers,
                     ConnectionBreaks, vars
<1>11. QED
  BY <1>1, <1>7, <1>8, <1>9, <1>10 DEF Next

-----------------------------------------------------------------------------
(* What addToHash and removeFromHash do to the list: a node that was never *)
(* entered is linked behind a node that was, or becomes the start; or a    *)
(* link is led past one node.                                              *)
Enters(t) ==
    /\ msgId' = [msgId EXCEPT ![Node(t)] = call[t].id]
    /\ allocated' = allocated \cup {Node(t)}
    /\ \/ next' = next /\ hash_start' \in {hash_start, Node(t)}
       \/ /\ \E last \in Added : next[last] = NULL /\ next' = [next EXCEPT ![last] = Node(t)]
          /\ hash_start' = hash_start

Shortens ==
    /\ msgId' = msgId /\ allocated' \subseteq allocated
    /\ \/ /\ next' = next
          /\ hash_start' \in {hash_start, NULL} \cup {next[n] : n \in Nodes}
       \/ /\ \E a, b \in Nodes : b = next[a] /\ next' = [next EXCEPT ![a] = next[b]]
          /\ hash_start' = hash_start

(* No link leaves the nodes that were entered, so a walk ends at one. *)
LEMMA LastAdded ==
    ASSUME HashInv, NEW p \in Added
    PROVE  Last(p) \in Added /\ next[Last(p)] = NULL
<1>1. Chained /\ Added \subseteq Nodes /\ \A n \in Added : next[n] = NULL \/ next[n] \in Added
  BY DEF HashInv, Added
<1>2. \A i \in 1 .. Len(ListFrom(p)) : ListFrom(p)[i] \in Added
  BY <1>1, ListStays
<1>3. /\ Len(ListFrom(p)) \in Nat /\ Len(ListFrom(p)) >= 1
      /\ next[ListFrom(p)[Len(ListFrom(p))]] = NULL
  BY <1>1, ListShape
<1>4. QED
  BY <1>2, <1>3 DEF Last

(* The node of a call that is about to enter it was never entered. *)
LEMMA NewNode ==
    ASSUME ClientInv, NEW t \in Threads, call[t].pc \in {"increment", "read_start", "add"}
    PROVE  Node(t) \in Nodes \ Added /\ call[t].id \in Nat \ {0}
<1>1. Node(t) \in Nodes /\ call[t].n \in 1 .. MaxCalls
  BY NodeType DEF ClientInv
<1>2. msgId[Node(t)] = 0
  BY <1>1 DEF ClientInv, AddedFirst, Node
<1>3. call[t].id \in Nat \ {0}
  BY DEF ClientInv, CallInv, CallOK
<1>4. QED
  BY <1>1, <1>2, <1>3 DEF Added

(* What addToHash does when it has memory, whatever start it read. *)
LEMMA EntersExactly ==
    ASSUME ClientInv, NEW t \in Threads, AddEntry(t), addToHash(t)
    PROVE  Enters(t)
<1>1. msgId' = [msgId EXCEPT ![Node(t)] = call[t].id] /\ allocated' = allocated \cup {Node(t)}
  BY DEF addToHash
<1>2. \/ next' = next /\ hash_start' \in {hash_start, Node(t)}
      \/ /\ \E p \in Added : next' = [next EXCEPT ![Last(p)] = Node(t)]
         /\ hash_start' = hash_start
  <2>1. allocated \subseteq Added /\ (hash_start # NULL => hash_start \in Added)
    BY DEF ClientInv, HashInv
  <2>2. QED
    BY <2>1 DEF addToHash
<1>3. \A p \in Added : Last(p) \in Added /\ next[Last(p)] = NULL
  BY LastAdded DEF ClientInv
<1>4. QED
  BY <1>1, <1>2, <1>3 DEF Enters

(* AddEntry enters the node or, without memory, may lose the start. *)
LEMMA AddEffect ==
    ASSUME ClientInv, NEW t \in Threads, AddEntry(t)
    PROVE  Enters(t) \/ Shortens
<1>1. CASE addToHash_fails(t)
  BY <1>1 DEF addToHash_fails, Shortens
<1>2. QED
  BY <1>1, EntersExactly DEF AddEntry

(* removeFromHash leads a link past a node. *)
LEMMA UnlinkEffect ==
    ASSUME ClientInv, Unlink
    PROVE  Shortens
<1>i. HashInv /\ NULL \notin Nodes /\ receiver.queue \in Nodes \cup {NULL}
  BY Capi2032Assumption DEF ClientInv, Nodes, ReceiverInv
<1> DEFINE start == receiver.queue
           id == receiver.msg.message_id
           list == ListFrom(start)
<1>1. CASE UNCHANGED hashVars
  BY <1>1 DEF hashVars, Shortens
<1>2. ASSUME NEW i \in Matches(start, id),
             allocated' = allocated \ {list[i]}, msgId' = msgId,
             IF i > 1
             THEN next' = [next EXCEPT ![list[i - 1]] = next[list[i]]] /\ UNCHANGED hash_start
             ELSE hash_start' = next[list[i]] /\ UNCHANGED next
      PROVE  Shortens
  <2>1. i \in 1 .. Len(list) /\ list \in Seq(Nodes)
    <3>1. Chained
      BY <1>i DEF HashInv
    <3>2. QED
      BY <1>i, <3>1, ListFacts DEF Matches
  <2>2. start # NULL
    <3>1. start = NULL => list = <<>>
      BY <1>i, ListFacts DEF HashInv
    <3>2. QED
      BY <2>1, <3>1
  <2>3. /\ Len(list) \in Nat
        /\ \A j \in 1 .. Len(list) - 1 : list[j + 1] = next[list[j]]
    <3>1. start \in Nodes /\ Chained
      BY <1>i, <2>2 DEF HashInv
    <3> HIDE DEF start
    <3>2. QED
      BY <3>1, ListShape
  <2> HIDE DEF list
  <2>4. list[i] \in Nodes
    BY <2>1
  <2>5. CASE i > 1
    <3>1. i - 1 \in 1 .. Len(list) - 1 /\ i - 1 \in 1 .. Len(list) /\ (i - 1) + 1 = i
      BY <2>1, <2>3, <2>5
    <3>2. list[(i - 1) + 1] = next[list[i - 1]] /\ list[i - 1] \in Nodes
      BY <2>1, <2>3, <3>1
    <3>3. list[i] = next[list[i - 1]]
      BY <3>1, <3>2
    <3>4. QED
      BY <1>2, <2>4, <2>5, <3>2, <3>3 DEF Shortens
  <2>6. CASE ~ (i > 1)
    BY <1>2, <2>4, <2>6 DEF Shortens
  <2>7. QED
    BY <2>5, <2>6
<1>3. QED
  BY <1>1, <1>2 DEF Unlink, removeFromHash, hashVars

(* Entering a node keeps the list sound: it takes the lowest rank. *)
LEMMA EntersHash ==
    ASSUME ClientInv, NEW t \in Threads, call[t].pc = "add", Enters(t)
    PROVE  HashInv'
<1> DEFINE new == Node(t)
<1>i. HashInv /\ NULL \notin Nodes
  BY Capi2032Assumption DEF ClientInv, Nodes
<1>n. new \in Nodes /\ new \notin Added /\ call[t].id \in Nat \ {0}
  BY NewNode
<1> HIDE DEF new
<1>1. /\ msgId' = [msgId EXCEPT ![new] = call[t].id] /\ allocated' = allocated \cup {new}
      /\ \/ next' = next /\ hash_start' \in {hash_start, new}
         \/ /\ \E last \in Added : next' = [next EXCEPT ![last] = new]
            /\ hash_start' = hash_start
  BY DEF Enters, new
<1>2. msgId' \in [Nodes -> Nat] /\ Added' = Added \cup {new}
  BY <1>i, <1>n, <1>1 DEF HashInv, Added
<1>3. allocated' \subseteq Added' /\ hash_start' \in Added' \cup {NULL}
  BY <1>i, <1>1, <1>2 DEF HashInv
<1>4. next \in Links /\ next[new] = NULL /\ \A n \in Nodes : next[n] # new
  BY <1>i, <1>n DEF HashInv, Chained
<1>5. /\ next' \in Links /\ next'[new] = NULL
      /\ \A n \in Nodes : next'[n] \in {next[n], new}
      /\ \A n \in Nodes : n \notin Added => next'[n] = next[n]
  BY <1>1, <1>4, <1>n DEF Links, Added
<1>6. PICK rank \in Ranks : Falls(next, rank)
  BY <1>i DEF HashInv, Chained
<1> DEFINE higher == [n \in Nodes |-> IF n = new THEN 0 ELSE rank[n] + 1]
<1>7. higher \in Ranks
  BY DEF Ranks
<1>8. Falls(next', higher)
  <2> SUFFICES ASSUME NEW n \in Nodes, next'[n] # NULL PROVE higher[next'[n]] < higher[n]
    BY DEF Falls
  <2>1. n # new /\ rank[n] \in Nat /\ next'[n] \in Nodes
    BY <1>5 DEF Ranks, Links
  <2>2. CASE next'[n] = new
    BY <2>1, <2>2
  <2>3. CASE next'[n] # new
    <3>1. next'[n] = next[n] /\ next[n] # NULL /\ rank[next[n]] < rank[n]
      BY <1>5, <1>6, <2>3 DEF Falls
    <3>2. rank[next[n]] \in Nat
      BY <2>1, <3>1 DEF Ranks
    <3>3. QED
      BY <2>1, <2>3, <3>1, <3>2
  <2>4. QED
    BY <2>2, <2>3
<1> HIDE DEF higher
<1>9. Chained'
  BY <1>5, <1>7, <1>8 DEF Chained
<1>10. /\ \A n \in Nodes : next'[n] \in Added' \cup {NULL}
       /\ \A n \in Nodes : n \notin Added' => next'[n] = NULL
  BY <1>i, <1>2, <1>5 DEF HashInv
<1>11. QED
  BY <1>2, <1>3, <1>9, <1>10 DEF HashInv

(* Leading a link past a node keeps the list sound, with the same ranks. *)
LEMMA ShortensHash ==
    ASSUME HashInv, Shortens
    PROVE  HashInv'
<1>n. NULL \notin Nodes
  BY Capi2032Assumption DEF Nodes
<1>1. Added' = Added /\ msgId' = msgId /\ allocated' \subseteq allocated
  BY DEF Shortens, Added
<1>2. PICK rank \in Ranks : Falls(next, rank)
  BY DEF HashInv, Chained
<1>3. /\ next \in Links /\ \A n \in Nodes : next[n] \in Added \cup {NULL}
      /\ \A n \in Nodes : n \notin Added => next[n] = NULL
      /\ Added \subseteq Nodes
  BY DEF HashInv, Chained, Added
<1>4. CASE next' = next /\ hash_start' \in {hash_start, NULL} \cup {next[n] : n \in Nodes}
  BY <1>1, <1>3, <1>4 DEF HashInv, Chained
<1>5. ASSUME NEW a \in Nodes, NEW b \in Nodes, b = next[a],
             next' = [next EXCEPT ![a] = next[b]], hash_start' = hash_start
      PROVE  HashInv'
  <2>1. next' \in Links
    BY <1>3, <1>5 DEF Links
  <2>2. \A n \in Nodes : next'[n] = IF n = a THEN next[b] ELSE next[n]
    BY <1>3, <1>5 DEF Links
  <2>3. Falls(next', rank)
    <3> SUFFICES ASSUME NEW n \in Nodes, next'[n] # NULL PROVE rank[next'[n]] < rank[n]
      BY DEF Falls
    <3>1. CASE n = a
      <4>1. next'[n] = next[b] /\ next[b] # NULL /\ next[a] = b /\ b # NULL
        BY <1>n, <1>5, <2>2, <3>1
      <4>2. rank[next[b]] < rank[b] /\ rank[b] < rank[a]
        BY <1>2, <1>5, <4>1 DEF Falls
      <4>3. rank[next[b]] \in Nat /\ rank[b] \in Nat /\ rank[a] \in Nat
        BY <1>3, <4>1 DEF Ranks, Links
      <4>4. QED
        BY <3>1, <4>1, <4>2, <4>3
    <3>2. CASE n # a
      BY <1>2, <2>2, <3>2 DEF Falls
    <3>3. QED
      BY <3>1, <3>2
  <2>4. Chained'
    BY <2>1, <2>3 DEF Chained
  <2>5. /\ \A n \in Nodes : next'[n] \in Added \cup {NULL}
        /\ \A n \in Nodes : n \notin Added => next'[n] = NULL
    <3>1. a \in Added
      BY <1>n, <1>3, <1>5
    <3>2. QED
      BY <1>3, <2>2, <3>1
  <2>6. QED
    BY <1>1, <1>5, <2>4, <2>5 DEF HashInv
<1>6. QED
  BY <1>4, <1>5 DEF Shortens

(* What a step does to the list. *)
LEMMA HashEffect ==
    ASSUME ClientInv, [Next]_vars
    PROVE  \/ Shortens
           \/ \E t \in Threads : Moves(t, "add", "send") /\ Enters(t)
<1>1. CASE UNCHANGED hashVars
  BY <1>1 DEF hashVars, Shortens
<1>2. ASSUME NEW t \in Threads, AddEntry(t)
      PROVE  Shortens \/ (Moves(t, "add", "send") /\ Enters(t))
  BY <1>2, AddEffect DEF AddEntry
<1>3. CASE Unlink
  BY <1>3, UnlinkEffect
<1>4. CASE MarkEntries
  BY <1>4 DEF MarkEntries, Shortens
<1>5. ASSUME NEW t \in Threads, CallerStep(t), ~ AddEntry(t) PROVE UNCHANGED hashVars
  BY <1>5 DEF CallerStep, IncrementMsgId, ReadStart, sendRequest, sendRequest_fails, Returns,
         CAPI_REGISTER, CAPI_RELEASE, CAPI_GET_MESSAGE, GetMessage_fails,
         GetMessage_malformed, GetMessage_copies, GetMessage_keeps, Ends, PlainCallReturns,
         CAPI_PUT_MESSAGE, CAPI_WAIT_FOR_SIGNAL, CAPI_GET_MANUFACTURER, CAPI_GET_VERSION,
         CAPI_GET_SERIAL_NUMBER, CAPI_GET_PROFILE, CAPI_INSTALLED
<1>6. ASSUME NEW t \in Threads, Call(t) PROVE UNCHANGED hashVars
  BY <1>6 DEF Call
<1>7. CASE ReceiverStep
  BY <1>1, <1>3, <1>7 DEF ReceiverStep, recv, recv_fails, Lookup, ReadStartToRemove, Store
<1>8. CASE \/ DLL_PROCESS_ATTACH \/ DLL_PROCESS_DETACH \/ FreeApps
           \/ ServerAnswers \/ ConnectionBreaks \/ UNCHANGED vars
  BY <1>8, <1>1 DEF DLL_PROCESS_ATTACH, DLL_PROCESS_DETACH, FreeApps, ServerAnswers,
                    ConnectionBreaks, vars
<1>9. QED
  BY <1>1, <1>2, <1>4, <1>5, <1>6, <1>7, <1>8 DEF Next

(* Every step keeps the list sound. *)
LEMMA HashStep ==
    ASSUME ClientInv, [Next]_vars
    PROVE  HashInv'
<1>1. HashInv
  BY DEF ClientInv
<1>2. ASSUME NEW t \in Threads, Moves(t, "add", "send"), Enters(t) PROVE HashInv'
  BY <1>2, EntersHash DEF Moves
<1>3. QED
  BY <1>1, <1>2, HashEffect, ShortensHash

(* How a step may change one call, as far as its node goes: it begins,     *)
(* it goes on, or it enters its node.                                      *)
Goes(c, d) ==
    \/ c.pc = "idle" /\ d.n = c.n + 1 /\ d.pc = "increment"
    \/ /\ d.n = c.n /\ d.id = c.id
       /\ c.pc \in {"send", "wait", "keep", "idle"} => d.pc \in {"send", "wait", "keep", "idle"}
       /\ c.pc = "idle" => d.pc = "idle"
       /\ c.pc = "keep" => d.pc \in {"keep", "idle"}

(* Every step changes a call in one of these ways. *)
LEMMA CallsGo ==
    ASSUME ClientInv, [Next]_vars, NEW t \in Threads
    PROVE  Goes(call[t], call'[t])
<1>i. /\ call = [u \in Threads |-> call[u]]
      /\ \A u \in Threads :
            call[u] \in [pc : CallStates, n : 0 .. MaxCalls, type : CapiTypes \cup {"none"},
              app_id : AppIds \cup {0}, id : Nat, queue : Nodes \cup {NULL},
              answer : GoodAnswers \cup {Waiting, ILLEGAL_ANSWER},
              result : CapiErrors \cup {"none"}]
  BY DEF ClientInv, CallInv, CallOK
<1>0. CASE call' = call
  BY <1>0 DEF Goes
<1>1. ASSUME NEW u \in Threads, Call(u) PROVE Goes(call[t], call'[t])
  BY <1>1, <1>i DEF Call, Goes
<1>2. ASSUME NEW u \in Threads, NEW from, NEW to, Moves(u, from, to),
             from \notin {"idle", "keep"}, from \in {"send", "wait"} => to \in {"send", "wait"}
      PROVE  Goes(call[t], call'[t])
  BY <1>2, <1>i DEF Moves, Goes
<1>3. ASSUME NEW u \in Threads, ReadStart(u) \/ sendRequest_fails(u)
      PROVE  Goes(call[t], call'[t])
  BY <1>3, <1>i DEF ReadStart, sendRequest_fails, Goes
<1>e. ASSUME NEW u \in Threads, NEW result, Ends(u, result)
      PROVE  Goes(call[t], call'[t])
  BY <1>e, <1>i DEF Ends, Goes
<1>4. ASSUME NEW u \in Threads, NEW type, NEW result, Returns(u, type, result)
      PROVE  Goes(call[t], call'[t])
  BY <1>4, <1>e DEF Returns
<1>g. ASSUME NEW u \in Threads, CAPI_GET_MESSAGE(u) PROVE Goes(call[t], call'[t])
  <2>1. CASE GetMessage_fails(u) \/ GetMessage_malformed(u) \/ GetMessage_keeps(u)
    BY <1>e, <2>1 DEF GetMessage_fails, GetMessage_malformed, GetMessage_keeps
  <2>2. CASE GetMessage_copies(u)
    <3>1. PICK queue : call' = [call EXCEPT ![u].pc = "keep", ![u].queue = queue]
      BY <2>2 DEF GetMessage_copies
    <3>2. call[u].pc = "wait"
      BY <2>2 DEF GetMessage_copies, Answered
    <3>3. QED
      BY <1>i, <3>1, <3>2 DEF Goes
  <2>3. QED
    BY <1>g, <2>1, <2>2 DEF CAPI_GET_MESSAGE
<1>5. CASE Store
  <2>1. ASSUME NEW d, call' = [call EXCEPT ![d] = Given(call[d], receiver.msg)]
        PROVE  Goes(call[t], call'[t])
    BY <1>i, <2>1 DEF Goes, Given
  <2>2. call' = call \/ \E d : call' = [call EXCEPT ![d] = Given(call[d], receiver.msg)]
    BY <1>5 DEF Store
  <2>3. QED
    BY <1>0, <2>1, <2>2
<1>6. CASE MarkEntries
  <2>1. call'[t] \in {call[t], Given(call[t], ILLEGAL_ANSWER)}
    BY <1>6 DEF MarkEntries
  <2>2. QED
    BY <1>i, <2>1 DEF Goes, Given
<1>7. ASSUME NEW u \in Threads, IncrementMsgId(u) \/ AddEntry(u) \/ sendRequest(u)
      PROVE  Goes(call[t], call'[t])
  BY <1>7, <1>2 DEF IncrementMsgId, AddEntry, sendRequest
<1>8. ASSUME NEW u \in Threads, CallerStep(u) PROVE Goes(call[t], call'[t])
  BY <1>8, <1>3, <1>4, <1>7, <1>g
     DEF CallerStep, CAPI_REGISTER, CAPI_RELEASE, PlainCallReturns,
         CAPI_PUT_MESSAGE, CAPI_WAIT_FOR_SIGNAL, CAPI_GET_MANUFACTURER, CAPI_GET_VERSION,
         CAPI_GET_SERIAL_NUMBER, CAPI_GET_PROFILE, CAPI_INSTALLED
<1>9. CASE ReceiverStep
  BY <1>9, <1>0, <1>5 DEF ReceiverStep, recv, recv_fails, Lookup, ReadStartToRemove, Unlink
<1>10. CASE \/ DLL_PROCESS_ATTACH \/ DLL_PROCESS_DETACH \/ FreeApps
            \/ ServerAnswers \/ ConnectionBreaks \/ UNCHANGED vars
  BY <1>10, <1>0 DEF DLL_PROCESS_ATTACH, DLL_PROCESS_DETACH, FreeApps, ServerAnswers,
                     ConnectionBreaks, vars
<1>11. QED
  BY <1>1, <1>6, <1>8, <1>9, <1>10 DEF Next

(* Every step keeps the names of the entered nodes right. *)
LEMMA AddedFirstStep ==
    ASSUME ClientInv, [Next]_vars
    PROVE  AddedFirst'
<1>i. AddedFirst /\ HashInv
  BY DEF ClientInv
<1> SUFFICES ASSUME NEW t \in Threads, NEW n \in 1 .. MaxCalls, msgId'[<<t, n>>] # 0
             PROVE  /\ n <= call'[t].n
                    /\ n = call'[t].n => /\ call'[t].pc \in {"send", "wait", "keep", "idle"}
                                         /\ msgId'[<<t, n>>] = call'[t].id
  BY DEF AddedFirst
<1>1. Goes(call[t], call'[t]) /\ call[t].n \in 0 .. MaxCalls
  BY CallsGo DEF ClientInv, CallInv, CallOK
<1>n. MaxCalls \in Nat /\ call[t].n \in Nat /\ n \in Nat
  BY <1>1, Capi2032Assumption
<1>2. CASE msgId'[<<t, n>>] = msgId[<<t, n>>]
  <2>1. n <= call[t].n
    BY <1>2, <1>i DEF AddedFirst
  <2>2. CASE call[t].pc = "idle" /\ call'[t].n = call[t].n + 1
    BY <1>n, <2>1, <2>2
  <2>3. CASE call'[t].n = call[t].n /\ call'[t].id = call[t].id
             /\ (call[t].pc \in {"send", "wait", "keep", "idle"} =>
                    call'[t].pc \in {"send", "wait", "keep", "idle"})
    BY <1>2, <1>i, <2>1, <2>3 DEF AddedFirst
  <2>4. QED
    BY <1>1, <2>2, <2>3 DEF Goes
<1>3. ASSUME NEW u \in Threads, Moves(u, "add", "send"), Enters(u),
             msgId'[<<t, n>>] # msgId[<<t, n>>]
      PROVE  /\ n = call'[t].n /\ call'[t].pc = "send"
             /\ msgId'[<<t, n>>] = call'[t].id
  <2>1. msgId \in [Nodes -> Nat] /\ <<t, n>> \in Nodes
    BY <1>i DEF HashInv, Nodes
  <2>2. <<t, n>> = Node(u) /\ msgId'[<<t, n>>] = call[u].id
    BY <1>3, <2>1 DEF Enters
  <2>3. t = u /\ n = call[t].n
    BY <2>2 DEF Node
  <2>4. call'[t].n = call[t].n /\ call'[t].id = call[t].id /\ call'[t].pc = "send"
    BY <1>3, <2>3 DEF Moves, ClientInv, CallInv, CallOK
  <2>5. QED
    BY <2>2, <2>3, <2>4
<1>4. QED
  <2>1. CASE Shortens
    BY <1>2, <2>1 DEF Shortens
  <2>2. ASSUME NEW u \in Threads, Moves(u, "add", "send"), Enters(u),
               msgId'[<<t, n>>] # msgId[<<t, n>>]
        PROVE  /\ n <= call'[t].n
               /\ n = call'[t].n => /\ call'[t].pc \in {"send", "wait", "keep", "idle"}
                                    /\ msgId'[<<t, n>>] = call'[t].id
    BY <1>n, <1>3, <2>2
  <2>3. QED
    BY <1>2, <2>1, <2>2, HashEffect

-----------------------------------------------------------------------------
(* The entry that is looked up is in the list and has the id. *)
LEMMA LookupRight ==
    ASSUME HashInv, NEW id
    PROVE  \/ getDataPtrFromMsgId(id) = NULL
           \/ getDataPtrFromMsgId(id) \in Nodes /\ msgId[getDataPtrFromMsgId(id)] = id
<1> DEFINE M == Matches(hash_start, id)
           first == CHOOSE i \in M : \A j \in M : i <= j
<1>1. CASE M = {}
  BY <1>1 DEF getDataPtrFromMsgId
<1>2. CASE M # {}
  <2>1. ListFrom(hash_start) \in Seq(Nodes)
    <3>1. Chained /\ hash_start \in Nodes \cup {NULL}
      BY DEF HashInv, Added
    <3>2. QED
      BY <3>1, ListFacts
  <2>2. M \subseteq Nat
    BY DEF Matches
  <2>3. \E i \in M : \A j \in M : i <= j
    BY <1>2, <2>2, LeastNat
  <2>4. first \in M
    BY <2>3
  <2>5. first \in 1 .. Len(ListFrom(hash_start)) /\ msgId[ListFrom(hash_start)[first]] = id
    <3> HIDE DEF first
    <3>1. QED
      BY <2>4 DEF Matches
  <2>6. getDataPtrFromMsgId(id) = ListFrom(hash_start)[first]
    BY <1>2 DEF getDataPtrFromMsgId
  <2> HIDE DEF first
  <2>7. ListFrom(hash_start)[first] \in Nodes
    BY <2>1, <2>5
  <2>8. QED
    BY <2>5, <2>6, <2>7
<1>3. QED
  BY <1>1, <1>2

(* Every step keeps the pointer of the receiver right. *)
LEMMA ReceiverInvStep ==
    ASSUME ClientInv, [Next]_vars
    PROVE  ReceiverInv'
<1>i. ReceiverInv /\ HashInv /\ ServerInv
  BY DEF ClientInv
<1>0. receiver.data # NULL => msgId'[receiver.data] = msgId[receiver.data]
  <2>1. CASE Shortens
    BY <2>1 DEF Shortens
  <2>2. ASSUME NEW t \in Threads, Moves(t, "add", "send"), Enters(t), receiver.data # NULL
        PROVE  msgId'[receiver.data] = msgId[receiver.data]
    <3>1. Node(t) \in Nodes \ Added
      BY <2>2, NewNode DEF Moves
    <3>2. receiver.data \in Added
      BY <1>i, <2>2 DEF ReceiverInv, Added, GoodAnswers
    <3>3. QED
      BY <1>i, <2>2, <3>1, <3>2 DEF Enters, HashInv, Added
  <2>3. QED
    BY <2>1, <2>2, HashEffect
<1>1. CASE receiver' = receiver
  BY <1>0, <1>1, <1>i DEF ReceiverInv
<1>3. CASE recv
  <2>1. Head(wire) \in GoodAnswers
    BY <1>3, <1>i DEF recv, ServerInv
  <2>2. receiver' = [receiver EXCEPT !.pc = "lookup", !.msg = Head(wire)] /\ receiver.pc = "recv"
    BY <1>3 DEF recv
  <2>3. QED
    BY <1>i, <2>1, <2>2 DEF ReceiverInv
<1>4. CASE recv_fails
  BY <1>4, <1>i DEF recv_fails, ReceiverInv
<1>5. CASE Lookup
  <2>1. PICK d : d = getDataPtrFromMsgId(receiver.msg.message_id)
    OBVIOUS
  <2>2. d = NULL \/ (d \in Nodes /\ msgId[d] = receiver.msg.message_id)
    BY <1>i, <2>1, LookupRight
  <2>3. receiver' = [receiver EXCEPT !.pc = "read_start", !.data = d] /\ receiver.pc = "lookup"
    BY <1>5, <2>1 DEF Lookup
  <2>4. msgId' = msgId
    BY <1>5 DEF Lookup, hashVars
  <2>5. QED
    BY <1>i, <2>2, <2>3, <2>4 DEF ReceiverInv
<1>6. CASE ReadStartToRemove
  BY <1>6, <1>0, <1>i DEF ReadStartToRemove, ReceiverInv, HashInv, Added
<1>7. CASE Unlink
  BY <1>7, <1>0, <1>i DEF Unlink, ReceiverInv
<1>8. CASE Store
  BY <1>8, <1>i DEF Store, ReceiverInv
<1>9. ASSUME NEW t \in Threads, CallerStep(t) PROVE receiver' = receiver
  BY <1>9 DEF CallerStep, IncrementMsgId, ReadStart, AddEntry, sendRequest, sendRequest_fails,
         Returns, CAPI_REGISTER, CAPI_RELEASE, CAPI_GET_MESSAGE, GetMessage_fails,
         GetMessage_malformed, GetMessage_copies, GetMessage_keeps, Ends, PlainCallReturns,
         CAPI_PUT_MESSAGE, CAPI_WAIT_FOR_SIGNAL, CAPI_GET_MANUFACTURER, CAPI_GET_VERSION,
         CAPI_GET_SERIAL_NUMBER, CAPI_GET_PROFILE, CAPI_INSTALLED
<1>10. ASSUME NEW t \in Threads, Call(t) PROVE receiver' = receiver
  BY <1>10 DEF Call
<1>11. CASE DLL_PROCESS_ATTACH
  <2>1. receiver' = [receiver EXCEPT !.pc = "recv"] /\ receiver.pc = "none"
    BY <1>11 DEF DLL_PROCESS_ATTACH, ClientInv, Unloaded
  <2>2. QED
    BY <1>i, <2>1 DEF ReceiverInv
<1>12. CASE \/ DLL_PROCESS_DETACH \/ FreeApps \/ MarkEntries
            \/ ServerAnswers \/ ConnectionBreaks \/ UNCHANGED vars
  BY <1>12, <1>1 DEF DLL_PROCESS_DETACH, FreeApps, MarkEntries, ServerAnswers,
                     ConnectionBreaks, vars
<1>13. QED
  BY <1>1, <1>3, <1>4, <1>5, <1>6, <1>7, <1>8, <1>9, <1>10, <1>11, <1>12
     DEF Next, ReceiverStep

-----------------------------------------------------------------------------
(* Whatever the server makes of a request is a good answer. *)
LEMMA EffectsGood ==
    ASSUME serverApps \subseteq AppIds, NEW r \in PendingRequests,
           NEW effect \in Effects(r) \cup {Refusal(r)}
    PROVE  effect.answer \in GoodAnswers /\ effect.apps \subseteq AppIds
<1>n. /\ r.message_id \in Nat \ {0} /\ r.type \in CapiTypes
      /\ r.app_id \in AppIds \cup {0} /\ r.from \in Nodes
  BY DEF PendingRequests
<1>1. ASSUME NEW app \in AppIds \cup {0}, NEW p \in ProxyErrors, NEW c \in CapiErrors,
             NEW len \in Nat,
             (r.type = "CAPI_REGISTER" /\ p = "NONE" /\ c = "0x0000") => app \in AppIds
      PROVE  AnswerTo(r, app, p, c, len) \in GoodAnswers
  BY <1>n, <1>1 DEF AnswerTo, GoodAnswers, WireAnswers
<1>2. /\ "NONE" \in ProxyErrors /\ "WRONG_SESSION" \in ProxyErrors
      /\ {"0x0000", "0x1101", "0x1104", "0x1108"} \subseteq CapiErrors
      /\ "CAPI_REGISTER" \notin AppTypes
  BY DEF ProxyErrors, CapiErrors, AppTypes
<1>3. CASE effect = Refusal(r)
  <2>1. AnswerTo(r, r.app_id, "WRONG_SESSION", "0x0000", 0) \in GoodAnswers
    BY <1>n, <1>1, <1>2
  <2>2. QED
    BY <1>3, <2>1 DEF Refusal
<1>4. CASE effect \in Effects(r)
  <2>1. CASE r.type = "CAPI_REGISTER"
    <3>1. \/ \E a \in AppIds : /\ effect.apps = serverApps \cup {a}
                               /\ effect.answer = AnswerTo(r, a, "NONE", "0x0000", 0)
          \/ /\ effect.apps = serverApps
             /\ effect.answer = AnswerTo(r, 0, "NONE", "0x1108", 0)
      <4>1. Effects(r) =
              {[apps |-> serverApps \cup {a}, answer |-> AnswerTo(r, a, "NONE", "0x0000", 0)] :
                   a \in AppIds \ serverApps}
              \cup {[apps |-> serverApps, answer |-> AnswerTo(r, 0, "NONE", "0x1108", 0)]}
        BY <2>1 DEF Effects, AppTypes
      <4>2. QED
        BY <1>4, <4>1
    <3>2. \A a \in AppIds : AnswerTo(r, a, "NONE", "0x0000", 0) \in GoodAnswers
      BY <1>1, <1>2
    <3>3. AnswerTo(r, 0, "NONE", "0x1108", 0) \in GoodAnswers
      BY <1>1, <1>2
    <3>4. QED
      BY <3>1, <3>2, <3>3
  <2>2. CASE r.type # "CAPI_REGISTER"
    <3>1. /\ effect.apps \subseteq serverApps
          /\ \E c \in {"0x0000", "0x1101", "0x1104"}, len \in {0, 8} :
                effect.answer = AnswerTo(r, r.app_id, "NONE", c, len)
      BY <1>4, <2>2 DEF Effects, AppTypes
    <3>2. \A c \in {"0x0000", "0x1101", "0x1104"}, len \in {0, 8} :
             AnswerTo(r, r.app_id, "NONE", c, len) \in GoodAnswers
      BY <1>n, <1>1, <1>2, <2>2
    <3>3. QED
      BY <3>1, <3>2
  <2>3. QED
    BY <2>1, <2>2
<1>5. QED
  BY <1>3, <1>4

(* Every step keeps requests and answers on their way good. *)
LEMMA ServerInvStep ==
    ASSUME ClientInv, [Next]_vars
    PROVE  ServerInv'
<1>i. ServerInv /\ CallInv
  BY DEF ClientInv
<1>0. CASE UNCHANGED serverVars
  BY <1>0, <1>i DEF ServerInv, serverVars
<1>1. ASSUME NEW t \in Threads, sendRequest(t) PROVE ServerInv'
  <2>1. call[t].pc = "send" /\ wire' = wire /\ serverApps' = serverApps
    BY <1>1 DEF sendRequest, Moves
  <2>2. Node(t) \in Nodes
    BY <1>i, <2>1, NodeType
  <2>3. /\ call[t].id \in Nat \ {0} /\ call[t].type \in CapiTypes
        /\ call[t].app_id \in AppIds \cup {0}
    BY <1>i, <2>1 DEF CallInv, CallOK
  <2>4. [message_id |-> call[t].id, type |-> call[t].type,
         app_id |-> call[t].app_id, from |-> Node(t)] \in PendingRequests
    BY <2>2, <2>3 DEF PendingRequests
  <2>5. pending' \subseteq PendingRequests
    BY <1>1, <1>i, <2>4 DEF sendRequest, ServerInv
  <2>6. QED
    BY <1>i, <2>1, <2>5 DEF ServerInv
<1>2. CASE recv
  <2>1. PICK k \in 1 .. Len(wire) : wire' = SubSeq(wire, k + 1, Len(wire))
    BY <1>2, <1>i DEF recv, ServerInv
  <2>2. wire' \in Seq(GoodAnswers)
    BY <1>i, <2>1, SubSeqProperties DEF ServerInv
  <2>3. QED
    BY <1>2, <1>i, <2>2 DEF recv, ServerInv
<1>3. CASE ServerAnswers
  <2>1. PICK r \in pending : \E effect \in Effects(r) \cup {Refusal(r)} :
          /\ pending' = pending \ {r}
          /\ wire' = Append(wire, effect.answer)
          /\ serverApps' = effect.apps
    BY <1>3 DEF ServerAnswers
  <2>2. PICK effect \in Effects(r) \cup {Refusal(r)} :
          /\ pending' = pending \ {r}
          /\ wire' = Append(wire, effect.answer)
          /\ serverApps' = effect.apps
    BY <2>1
  <2>3. effect.answer \in GoodAnswers /\ effect.apps \subseteq AppIds
    BY <1>i, EffectsGood DEF ServerInv
  <2>4. QED
    BY <1>i, <2>2, <2>3 DEF ServerInv
<1>4. CASE DLL_PROCESS_DETACH \/ ConnectionBreaks
  <2>1. <<>> \in Seq(GoodAnswers)
    OBVIOUS
  <2>2. QED
    BY <1>4, <1>i, <2>1 DEF DLL_PROCESS_DETACH, ConnectionBreaks, ServerInv
<1>5. ASSUME NEW t \in Threads, CallerStep(t), ~ sendRequest(t) PROVE UNCHANGED serverVars
  BY <1>5 DEF CallerStep, IncrementMsgId, ReadStart, AddEntry, sendRequest_fails,
         Returns, CAPI_REGISTER, CAPI_RELEASE, CAPI_GET_MESSAGE, GetMessage_fails,
         GetMessage_malformed, GetMessage_copies, GetMessage_keeps, Ends, PlainCallReturns,
         CAPI_PUT_MESSAGE, CAPI_WAIT_FOR_SIGNAL, CAPI_GET_MANUFACTURER, CAPI_GET_VERSION,
         CAPI_GET_SERIAL_NUMBER, CAPI_GET_PROFILE, CAPI_INSTALLED
<1>6. ASSUME NEW t \in Threads, Call(t) PROVE UNCHANGED serverVars
  BY <1>6 DEF Call
<1>7. CASE recv_fails \/ Lookup \/ ReadStartToRemove \/ Unlink \/ Store
  BY <1>7, <1>0 DEF recv_fails, Lookup, ReadStartToRemove, Unlink, Store
<1>8. CASE DLL_PROCESS_ATTACH \/ FreeApps \/ MarkEntries \/ UNCHANGED vars
  BY <1>8, <1>0 DEF DLL_PROCESS_ATTACH, FreeApps, MarkEntries, vars
<1>9. QED
  BY <1>0, <1>1, <1>2, <1>3, <1>4, <1>5, <1>6, <1>7, <1>8 DEF Next, ReceiverStep

(* Every step keeps the types of the plain variables. *)
LEMMA FlagStep ==
    ASSUME ClientInv, [Next]_vars
    PROVE  FlagTypes' /\ Unloaded'
<1>i. FlagTypes /\ CallInv /\ Unloaded
  BY DEF ClientInv
<1>0. CASE UNCHANGED <<dll, socke, msg_id, wild, receiver>>
  BY <1>0, <1>i DEF FlagTypes, Unloaded
<1>1. CASE DLL_PROCESS_ATTACH
  BY <1>1, <1>i DEF DLL_PROCESS_ATTACH, initConnection, FlagTypes, Unloaded
<1>2. CASE DLL_PROCESS_DETACH \/ FreeApps \/ ConnectionBreaks
  BY <1>2, <1>i DEF DLL_PROCESS_DETACH, FreeApps, ConnectionBreaks, FlagTypes, Unloaded
<1>3. CASE MarkEntries
  BY <1>3, <1>i DEF MarkEntries, FlagTypes, Unloaded
<1>4. ASSUME NEW t \in Threads, IncrementMsgId(t) PROVE FlagTypes' /\ Unloaded'
  <2>1. call[t].id \in Nat
    BY <1>i DEF CallInv, CallOK
  <2>2. QED
    BY <1>4, <1>i, <2>1 DEF IncrementMsgId, FlagTypes, Unloaded
<1>5. ASSUME NEW t \in Threads, AddEntry(t) PROVE FlagTypes' /\ Unloaded'
  <2>1. wild' \in BOOLEAN
    BY <1>5, <1>i DEF AddEntry, addToHash, addToHash_fails, FlagTypes
  <2>2. UNCHANGED <<dll, socke, msg_id, receiver>>
    BY <1>5 DEF AddEntry
  <2>3. QED
    BY <1>i, <2>1, <2>2 DEF FlagTypes, Unloaded
<1>r. ASSUME NEW t \in Threads, CAPI_REGISTER(t) \/ CAPI_GET_MESSAGE(t)
      PROVE  FlagTypes' /\ Unloaded'
  <2>1. UNCHANGED <<dll, socke, msg_id, receiver>>
    BY <1>r DEF CAPI_REGISTER, CAPI_GET_MESSAGE, GetMessage_fails, GetMessage_malformed,
                GetMessage_copies, GetMessage_keeps, Returns, Ends
  <2>2. wild' \in BOOLEAN
    BY <1>r, <1>i DEF CAPI_REGISTER, add_app, CAPI_GET_MESSAGE, GetMessage_fails,
                GetMessage_malformed, GetMessage_copies, GetMessage_keeps, setdata_app, FlagTypes
  <2>3. QED
    BY <1>i, <2>1, <2>2 DEF FlagTypes, Unloaded
<1>6. ASSUME NEW t \in Threads, CallerStep(t), ~ AddEntry(t), ~ IncrementMsgId(t),
             ~ CAPI_REGISTER(t), ~ CAPI_GET_MESSAGE(t)
      PROVE  UNCHANGED <<dll, socke, msg_id, wild, receiver>>
  BY <1>6 DEF CallerStep, ReadStart, sendRequest, sendRequest_fails,
         Returns, Ends, CAPI_RELEASE, PlainCallReturns,
         CAPI_PUT_MESSAGE, CAPI_WAIT_FOR_SIGNAL, CAPI_GET_MANUFACTURER, CAPI_GET_VERSION,
         CAPI_GET_SERIAL_NUMBER, CAPI_GET_PROFILE, CAPI_INSTALLED
<1>7. ASSUME NEW t \in Threads, Call(t) PROVE UNCHANGED <<dll, socke, msg_id, wild, receiver>>
  BY <1>7 DEF Call
<1>8. CASE ReceiverStep
  <2>1. receiver.pc # "none" /\ dll' = dll /\ socke' = socke /\ msg_id' = msg_id
    BY <1>8 DEF ReceiverStep, recv, recv_fails, Lookup, ReadStartToRemove, Unlink, Store
  <2>2. wild' \in BOOLEAN
    BY <1>8, <1>i DEF ReceiverStep, recv, recv_fails, Lookup, ReadStartToRemove, Unlink, Store,
                      FlagTypes
  <2>3. QED
    BY <1>i, <2>1, <2>2 DEF FlagTypes, Unloaded
<1>9. CASE ServerAnswers \/ UNCHANGED vars
  BY <1>9, <1>0 DEF ServerAnswers, vars
<1>10. QED
  BY <1>0, <1>1, <1>2, <1>3, <1>4, <1>5, <1>6, <1>7, <1>8, <1>9, <1>r DEF Next

(* The invariant holds at the start: no node is linked. *)
LEMMA ClientInvInit ==
    ASSUME Init
    PROVE  ClientInv
<1>n. 0 \in 0 .. MaxCalls /\ NULL \notin Nodes
  BY Capi2032Assumption DEF Nodes
<1>1. ServerInv
  BY DEF Init, ServerInv
<1>2. CallInv
  BY <1>n, NoAnswers DEF Init, CallInv, CallOK, CallStates
<1>3. ReceiverInv
  BY DEF Init, ReceiverInv
<1>4. Chained
  <2>1. next \in Links
    BY DEF Init, Links
  <2>2. [n \in Nodes |-> 0] \in Ranks
    BY DEF Ranks
  <2>3. Falls(next, [n \in Nodes |-> 0])
    BY DEF Init, Falls
  <2>4. QED
    BY <2>1, <2>2, <2>3 DEF Chained
<1>5. HashInv
  BY <1>4 DEF Init, HashInv, Added
<1>6. AddedFirst
  BY DEF Init, AddedFirst, Nodes
<1>7. FlagTypes /\ Unloaded
  BY DEF Init, FlagTypes, Unloaded
<1>8. QED
  BY <1>1, <1>2, <1>3, <1>5, <1>6, <1>7 DEF ClientInv

(* Every step keeps every part of the invariant. *)
LEMMA ClientInvStep ==
    ASSUME ClientInv, ListType, [Next]_vars
    PROVE  ClientInv'
BY ServerInvStep, CallStep, ReceiverInvStep, HashStep, AddedFirstStep, FlagStep DEF ClientInv

-----------------------------------------------------------------------------
(* The messages of the application list and of the calls.                   *)
(* Messages b are allocated; K of them belong to calls that are about to   *)
(* keep them, and every entry with a message has one of the others, of its *)
(* own.                                                                    *)
Kept(apps, b, K) ==
    /\ K \subseteq b
    /\ \A i \in 1 .. Len(apps) : apps[i].data # NULL => apps[i].data \in b \ K
    /\ \A i, j \in 1 .. Len(apps) : apps[i].data = apps[j].data /\ i # j => apps[i].data = NULL

Keepers == {Node(t) : t \in {u \in Threads : call[u].pc = "keep"}}

(* A message is allocated by a call that keeps it or has returned, so that *)
(* no message is allocated twice.                                          *)
BuffersOld ==
    /\ buffers \subseteq Nodes
    /\ \A t \in Threads, n \in 1 .. MaxCalls :
          <<t, n>> \in buffers => /\ n <= call[t].n
                                  /\ n = call[t].n => call[t].pc \in {"keep", "idle"}

AppsInv == ListType /\ Kept(registered_apps, buffers, Keepers) /\ BuffersOld

(* A call that no longer keeps its message leaves the rest as it is. *)
LEMMA KeptFewer ==
    ASSUME NEW apps, NEW b, NEW K, NEW L, Kept(apps, b, K), L \subseteq K
    PROVE  Kept(apps, b, L)
BY DEF Kept

(* A message is allocated. *)
LEMMA KeptCopy ==
    ASSUME NEW apps, NEW b, NEW K, Kept(apps, b, K), NEW d, d \notin b
    PROVE  Kept(apps, b \cup {d}, K \cup {d})
BY DEF Kept

(* A message that no entry keeps is freed. *)
LEMMA KeptFree ==
    ASSUME NEW apps, NEW b, NEW K, Kept(apps, b, K), NEW d \in K
    PROVE  Kept(apps, b \ {d}, K \ {d})
BY DEF Kept

(* An application without a message is appended. *)
LEMMA KeptAppend ==
    ASSUME NEW apps \in AppList, NEW b, NEW K, Kept(apps, b, K), NEW app \in AppIds,
           NEW node \in Nodes,
           NEW new, new = Append(apps, [entry |-> node, ApplID |-> app, data |-> NULL])
    PROVE  new \in AppList /\ Kept(new, b, K)
<1> DEFINE e == [entry |-> node, ApplID |-> app, data |-> NULL]
<1>0. e \in AppEntries /\ e.data = NULL
  BY DEF AppEntries
<1> HIDE DEF e
<1>1. new \in AppList /\ Len(new) = Len(apps) + 1 /\ Len(apps) \in Nat
  BY <1>0 DEF AppList, e
<1>2. /\ \A i \in 1 .. Len(apps) : new[i] = apps[i]
      /\ new[Len(apps) + 1].data = NULL
  BY <1>0 DEF AppList, e
<1>3. \A i \in 1 .. Len(new) : i \in 1 .. Len(apps) \/ i = Len(apps) + 1
  BY <1>1
<1>4. \A i \in 1 .. Len(new) : new[i].data # NULL => new[i].data \in b \ K
  BY <1>2, <1>3 DEF Kept
<1>5. \A i, j \in 1 .. Len(new) : new[i].data = new[j].data /\ i # j => new[i].data = NULL
  BY <1>2, <1>3 DEF Kept
<1>6. QED
  BY <1>1, <1>4, <1>5 DEF Kept

(* The entry after the i-th and those behind it move up by one. *)
Old(i, j) == IF j < i THEN j ELSE j + 1

(* A list without its i-th entry holds each of the others, once. *)
Remains(apps, i, new) ==
    /\ new \in AppList
    /\ \A j \in 1 .. Len(new) : /\ Old(i, j) \in 1 .. Len(apps) /\ Old(i, j) # i
                                /\ new[j] = apps[Old(i, j)]
    /\ \A j, k \in 1 .. Len(new) : j # k => Old(i, j) # Old(i, k)
    /\ \A k \in 1 .. Len(apps) : k # i => \E j \in 1 .. Len(new) : k = Old(i, j)

(* What del_app leaves of the list. *)
LEMMA Deleted ==
    ASSUME NEW apps \in AppList, NEW i \in 1 .. Len(apps),
           NEW new, new = SubSeq(apps, 1, i - 1) \o SubSeq(apps, i + 1, Len(apps))
    PROVE  Remains(apps, i, new)
<1> DEFINE left == SubSeq(apps, 1, i - 1)
           right == SubSeq(apps, i + 1, Len(apps))
<1>0. Len(apps) \in Nat /\ i \in Nat /\ 1 <= i /\ i <= Len(apps)
  BY DEF AppList
<1>1. /\ left \in AppList /\ Len(left) = i - 1
      /\ \A j \in 1 .. i - 1 : left[j] = apps[j]
  <2>1. \A j \in 1 .. i - 1 : j \in 1 .. Len(apps) /\ 1 + j - 1 = j
    BY <1>0
  <2>2. \A j \in 1 .. i - 1 : apps[j] \in AppEntries
    BY <2>1, ElementOfSeq DEF AppList
  <2>3. i - 1 \in Int /\ 1 \in Int /\ (i - 1) - 1 + 1 = i - 1 /\ (~ (1 <= i - 1) => i - 1 = 0)
    BY <1>0
  <2>4. /\ left \in Seq(AppEntries)
        /\ Len(left) = IF 1 <= i - 1 THEN (i - 1) - 1 + 1 ELSE 0
        /\ \A j \in 1 .. (i - 1) - 1 + 1 : left[j] = apps[1 + j - 1]
    BY <2>2, <2>3, SubSeqProperties
  <2> HIDE DEF left
  <2>5. QED
    BY <2>1, <2>3, <2>4 DEF AppList
<1>2. /\ right \in AppList /\ Len(right) = Len(apps) - i
      /\ \A j \in 1 .. Len(apps) - i : right[j] = apps[i + j]
  <2>1. \A j \in i + 1 .. Len(apps) : j \in 1 .. Len(apps)
    BY <1>0
  <2>2. \A j \in i + 1 .. Len(apps) : apps[j] \in AppEntries
    BY <2>1, ElementOfSeq DEF AppList
  <2>3. /\ i + 1 \in Int /\ Len(apps) \in Int
        /\ Len(apps) - (i + 1) + 1 = Len(apps) - i
        /\ ~ (i + 1 <= Len(apps)) => Len(apps) - i = 0
        /\ \A j \in 1 .. Len(apps) - i : (i + 1) + j - 1 = i + j
    BY <1>0
  <2>4. /\ right \in Seq(AppEntries)
        /\ Len(right) = IF i + 1 <= Len(apps) THEN Len(apps) - (i + 1) + 1 ELSE 0
        /\ \A j \in 1 .. Len(apps) - (i + 1) + 1 : right[j] = apps[(i + 1) + j - 1]
    <3>1. PICK m \in Int, n \in Int : m = i + 1 /\ n = Len(apps)
      BY <2>3
    <3>2. /\ SubSeq(apps, m, n) \in Seq(AppEntries)
          /\ Len(SubSeq(apps, m, n)) = IF m <= n THEN n - m + 1 ELSE 0
          /\ \A j \in 1 .. n - m + 1 : SubSeq(apps, m, n)[j] = apps[m + j - 1]
      <4>1. \A j \in m .. n : apps[j] \in AppEntries
        BY <2>2, <3>1
      <4>2. QED
        BY <4>1, SubSeqProperties
    <3>3. QED
      BY <3>1, <3>2, Zenon
  <2> HIDE DEF right
  <2>5. QED
    BY <2>3, <2>4 DEF AppList
<1> HIDE DEF left, right
<1>3. /\ new \in AppList /\ Len(new) = Len(apps) - 1
      /\ \A j \in 1 .. Len(new) : new[j] = IF j < i THEN apps[j] ELSE apps[j + 1]
  <2>1. new = left \o right
    BY DEF left, right
  <2>2. /\ left \o right \in AppList /\ Len(left \o right) = Len(left) + Len(right)
        /\ \A j \in 1 .. Len(left) + Len(right) :
              (left \o right)[j] = IF j <= Len(left) THEN left[j] ELSE right[j - Len(left)]
    BY <1>1, <1>2, ConcatProperties DEF AppList
  <2>3. /\ new \in AppList /\ Len(new) = (i - 1) + (Len(apps) - i)
        /\ \A j \in 1 .. (i - 1) + (Len(apps) - i) :
              new[j] = IF j <= i - 1 THEN left[j] ELSE right[j - (i - 1)]
    BY <1>1, <1>2, <2>1, <2>2
  <2>4. (i - 1) + (Len(apps) - i) = Len(apps) - 1
    BY <1>0
  <2>5. ASSUME NEW j \in 1 .. Len(apps) - 1
        PROVE  new[j] = IF j < i THEN apps[j] ELSE apps[j + 1]
    <3>1. CASE j < i
      <4>1. j \in 1 .. i - 1 /\ j <= i - 1
        BY <1>0, <3>1
      <4>2. QED
        BY <1>1, <2>3, <2>4, <3>1, <4>1
    <3>2. CASE ~ (j < i)
      <4>1. /\ j - (i - 1) \in 1 .. Len(apps) - i /\ ~ (j <= i - 1)
            /\ i + (j - (i - 1)) = j + 1
        BY <1>0, <3>2
      <4>2. new[j] = right[j - (i - 1)]
        BY <2>3, <2>4, <4>1
      <4>3. right[j - (i - 1)] = apps[i + (j - (i - 1))]
        BY <1>2, <4>1
      <4>4. QED
        BY <3>2, <4>1, <4>2, <4>3
    <3>3. QED
      BY <3>1, <3>2
  <2>6. QED
    BY <2>3, <2>4, <2>5
<1>l. PICK len \in Nat : len = Len(apps) /\ len - 1 = Len(new)
  BY <1>0, <1>3
<1>4. \A j \in 1 .. Len(new) : /\ Old(i, j) \in 1 .. Len(apps) /\ Old(i, j) # i
                               /\ new[j] = apps[Old(i, j)]
  <2>1. \A j \in 1 .. len - 1 : Old(i, j) \in 1 .. len /\ Old(i, j) # i
    BY <1>0, <1>l DEF Old
  <2>2. \A j \in 1 .. Len(new) : new[j] = apps[Old(i, j)]
    BY <1>3 DEF Old
  <2>3. QED
    BY <1>l, <2>1, <2>2
<1>5. \A j, k \in 1 .. Len(new) : j # k => Old(i, j) # Old(i, k)
  <2>1. \A j, k \in 1 .. len - 1 : j # k => Old(i, j) # Old(i, k)
    BY <1>0, <1>l DEF Old
  <2>2. QED
    BY <1>l, <2>1
<1>6. \A k \in 1 .. Len(apps) : k # i => \E j \in 1 .. Len(new) : k = Old(i, j)
  <2>1. ASSUME NEW k \in 1 .. len, k # i PROVE \E j \in 1 .. len - 1 : k = Old(i, j)
    <3>1. CASE k < i
      <4>1. k \in 1 .. len - 1 /\ k = Old(i, k)
        BY <1>0, <1>l, <3>1 DEF Old
      <4>2. QED
        BY <4>1
    <3>2. CASE k > i
      <4>1. k - 1 \in 1 .. len - 1 /\ k = Old(i, k - 1)
        BY <1>0, <1>l, <3>2 DEF Old
      <4>2. QED
        BY <4>1
    <3>3. QED
      BY <1>0, <1>l, <2>1, <3>1, <3>2
  <2>2. QED
    BY <1>l, <2>1
<1>7. QED
  BY <1>3, <1>4, <1>5, <1>6 DEF Remains

(* An application is removed and its message freed. *)
LEMMA KeptDelete ==
    ASSUME NEW apps \in AppList, NEW b, NEW K, Kept(apps, b, K), NULL \notin K,
           NEW i \in 1 .. Len(apps), NEW new, Remains(apps, i, new)
    PROVE  new \in AppList /\ Kept(new, b \ {apps[i].data}, K)
<1>0. Remains(apps, i, new)
  OBVIOUS
<1>1. new \in AppList
  BY <1>0 DEF Remains
<1>2. \A j \in 1 .. Len(new) : /\ Old(i, j) \in 1 .. Len(apps) /\ Old(i, j) # i
                               /\ new[j] = apps[Old(i, j)]
  BY <1>0 DEF Remains
<1>3. \A j, k \in 1 .. Len(new) : j # k => Old(i, j) # Old(i, k)
  BY <1>0 DEF Remains
<1>4. K \subseteq b \ {apps[i].data}
  BY DEF Kept
<1>5. ASSUME NEW j \in 1 .. Len(new), new[j].data # NULL
      PROVE  new[j].data \in (b \ {apps[i].data}) \ K
  BY <1>2, <1>5 DEF Kept
<1>6. ASSUME NEW j \in 1 .. Len(new), NEW k \in 1 .. Len(new),
             new[j].data = new[k].data, j # k
      PROVE  new[j].data = NULL
  <2>1. /\ Old(i, j) \in 1 .. Len(apps) /\ Old(i, k) \in 1 .. Len(apps) /\ Old(i, j) # Old(i, k)
        /\ apps[Old(i, j)].data = apps[Old(i, k)].data /\ new[j].data = apps[Old(i, j)].data
    BY <1>2, <1>3, <1>6
  <2>2. QED
    BY <2>1 DEF Kept
<1>7. QED
  BY <1>1, <1>4, <1>5, <1>6 DEF Kept

(* The message of a call that keeps it replaces that of an application. *)
LEMMA KeptReplace ==
    ASSUME NEW apps \in AppList, NEW b, NEW K, Kept(apps, b, K), K \subseteq Nodes,
           NEW i \in 1 .. Len(apps),
           NEW d \in K, NEW new, new = [apps EXCEPT ![i].data = d]
    PROVE  new \in AppList /\ Kept(new, b \ {apps[i].data}, K \ {d})
<1>n. d # NULL /\ d \in Nodes /\ NULL \notin K
  BY Capi2032Assumption DEF Nodes
<1>1. apps[i] \in AppEntries
  BY ElementOfSeq DEF AppList
<1>2. PICK r \in AppEntries :
        r = [apps[i] EXCEPT !.data = d]
  BY <1>1, <1>n DEF AppEntries
<1>3. new = [apps EXCEPT ![i] = r] /\ r.data = d
  BY <1>1, <1>2 DEF AppEntries
<1>4. new \in AppList /\ Len(new) = Len(apps)
  BY <1>3 DEF AppList
<1>5. \A j \in 1 .. Len(apps) : new[j].data = IF j = i THEN d ELSE apps[j].data
  BY <1>3 DEF AppList
<1>6. (\A j \in 1 .. Len(apps) : apps[j].data # d) /\ d \in b
  BY <1>n DEF Kept
<1>7. K \ {d} \subseteq b \ {apps[i].data}
  BY <1>n DEF Kept
<1>8. ASSUME NEW j \in 1 .. Len(apps), new[j].data # NULL
      PROVE  new[j].data \in (b \ {apps[i].data}) \ (K \ {d})
  <2>1. CASE j = i
    BY <1>5, <1>6, <2>1
  <2>2. CASE j # i
    BY <1>5, <1>8, <2>2 DEF Kept
  <2>3. QED
    BY <2>1, <2>2
<1>9. \A j, k \in 1 .. Len(apps) : new[j].data = new[k].data /\ j # k => new[j].data = NULL
  BY <1>5, <1>6 DEF Kept
<1>10. QED
  BY <1>4, <1>7, <1>8, <1>9 DEF Kept

-----------------------------------------------------------------------------
(* A call begins to keep a message only when it has copied it. *)
LEMMA NewKeeper ==
    ASSUME ClientInv, [Next]_vars, NEW t \in Threads, call'[t].pc = "keep",
           ~ GetMessage_copies(t)
    PROVE  call[t].pc = "keep"
<1>i. /\ call = [u \in Threads |-> call[u]]
      /\ \A u \in Threads :
            call[u] \in [pc : CallStates, n : 0 .. MaxCalls, type : CapiTypes \cup {"none"},
              app_id : AppIds \cup {0}, id : Nat, queue : Nodes \cup {NULL},
              answer : GoodAnswers \cup {Waiting, ILLEGAL_ANSWER},
              result : CapiErrors \cup {"none"}]
  BY DEF ClientInv, CallInv, CallOK
<1> DEFINE Same == call'[t].pc = call[t].pc
<1>0. CASE call' = call
  BY <1>0
<1>1. ASSUME NEW u \in Threads, Call(u) PROVE Same
  BY <1>1, <1>i DEF Call
<1>2. ASSUME NEW u \in Threads, NEW from, NEW to, Moves(u, from, to), to # "keep" PROVE Same
  BY <1>2, <1>i DEF Moves
<1>3. ASSUME NEW u \in Threads, ReadStart(u) \/ sendRequest_fails(u) PROVE Same
  BY <1>3, <1>i DEF ReadStart, sendRequest_fails
<1>4. ASSUME NEW u \in Threads, NEW result, Ends(u, result) PROVE Same
  BY <1>4, <1>i DEF Ends
<1>5. ASSUME NEW u \in Threads, GetMessage_copies(u) PROVE Same
  <2>1. PICK queue : call' = [call EXCEPT ![u].pc = "keep", ![u].queue = queue]
    BY <1>5 DEF GetMessage_copies
  <2>2. u # t
    BY <1>5
  <2>3. QED
    BY <1>i, <2>1, <2>2
<1>6. CASE Store
  <2>1. ASSUME NEW d, call' = [call EXCEPT ![d] = Given(call[d], receiver.msg)] PROVE Same
    BY <1>i, <2>1 DEF Given
  <2>2. call' = call \/ \E d : call' = [call EXCEPT ![d] = Given(call[d], receiver.msg)]
    BY <1>6 DEF Store
  <2>3. QED
    BY <1>0, <2>1, <2>2
<1>7. CASE MarkEntries
  <2>1. call'[t] \in {call[t], Given(call[t], ILLEGAL_ANSWER)}
    BY <1>7 DEF MarkEntries
  <2>2. QED
    BY <1>i, <2>1 DEF Given
<1>8. ASSUME NEW u \in Threads, CallerStep(u) PROVE Same
  BY <1>8, <1>2, <1>3, <1>4, <1>5
     DEF CallerStep, IncrementMsgId, AddEntry, sendRequest, Returns,
         CAPI_REGISTER, CAPI_RELEASE, CAPI_GET_MESSAGE, GetMessage_fails,
         GetMessage_malformed, GetMessage_keeps, PlainCallReturns,
         CAPI_PUT_MESSAGE, CAPI_WAIT_FOR_SIGNAL, CAPI_GET_MANUFACTURER, CAPI_GET_VERSION,
         CAPI_GET_SERIAL_NUMBER, CAPI_GET_PROFILE, CAPI_INSTALLED
<1>9. CASE ReceiverStep
  BY <1>9, <1>0, <1>6 DEF ReceiverStep, recv, recv_fails, Lookup, ReadStartToRemove, Unlink
<1>10. CASE \/ DLL_PROCESS_ATTACH \/ DLL_PROCESS_DETACH \/ FreeApps
            \/ ServerAnswers \/ ConnectionBreaks \/ UNCHANGED vars
  BY <1>10, <1>0 DEF DLL_PROCESS_ATTACH, DLL_PROCESS_DETACH, FreeApps, ServerAnswers,
                     ConnectionBreaks, vars
<1>11. QED
  BY <1>1, <1>7, <1>8, <1>9, <1>10 DEF Next

(* The calls that keep a message after a step kept it before, but for one  *)
(* that has just copied it.                                                *)
LEMMA KeepersStep ==
    ASSUME ClientInv, [Next]_vars, NEW K,
           \A t \in Threads : GetMessage_copies(t) => Node(t) \in K
    PROVE  Keepers' \subseteq Keepers \cup K
<1>1. ASSUME NEW t \in Threads, call'[t].pc = "keep"
      PROVE  <<t, call'[t].n>> \in Keepers \cup K
  <2>1. call'[t].n = call[t].n
    BY <1>1, CallsGo DEF Goes
  <2>2. CASE GetMessage_copies(t)
    BY <2>1, <2>2 DEF Node
  <2>3. CASE ~ GetMessage_copies(t)
    BY <1>1, <2>1, <2>3, NewKeeper DEF Keepers, Node
  <2>4. QED
    BY <2>2, <2>3
<1>2. Keepers' = {<<t, call'[t].n>> : t \in {u \in Threads : call'[u].pc = "keep"}}
  BY DEF Keepers, Node
<1>3. QED
  BY <1>1, <1>2

(* What a step does to the application list and the messages: an entry is  *)
(* appended or removed, a message is copied, kept or freed, or everything  *)
(* is freed.                                                               *)
Copies(t) ==
    /\ call[t].pc = "wait" /\ call'[t].n = call[t].n /\ call'[t].pc \in {"keep", "idle"}
    /\ buffers' = buffers \cup {Node(t)} /\ registered_apps' = registered_apps
    /\ Keepers' \subseteq Keepers \cup {Node(t)}

Disposes(t) ==
    /\ call[t].pc = "keep" /\ call'[t].n = call[t].n /\ call'[t].pc = "idle"
    /\ Keepers' \subseteq Keepers
    /\ \/ UNCHANGED appVars
       \/ buffers' = buffers \ {Node(t)} /\ registered_apps' = registered_apps
       \/ \E i \in 1 .. Len(registered_apps) : Replaces(i, Node(t))

(* Every step does one of these, or nothing. *)
LEMMA AppsEffect ==
    ASSUME ClientInv, [Next]_vars
    PROVE  \/ UNCHANGED appVars /\ Keepers' \subseteq Keepers
           \/ FreeApps
           \/ /\ Keepers' \subseteq Keepers
              /\ \E t \in Threads, app \in AppIds :
                    Node(t) \in Nodes /\ call[t].pc = "wait" /\ add_app(t, app)
           \/ /\ Keepers' \subseteq Keepers
              /\ \E app \in AppIds \cup {0} : del_app(app)
           \/ \E t \in Threads : Copies(t) \/ Disposes(t)
<1>i. CallInv
  BY DEF ClientInv
<1>k. ASSUME \A t \in Threads : ~ GetMessage_copies(t) PROVE Keepers' \subseteq Keepers
  BY <1>k, KeepersStep
<1>p. ASSUME NEW t \in Threads, NEW u \in Threads, GetMessage_copies(u), call'[t].pc = "idle",
             call[t].pc # "idle"
      PROVE  FALSE
  <2>1. PICK queue : call' = [call EXCEPT ![u].pc = "keep", ![u].queue = queue]
    BY <1>p DEF GetMessage_copies
  <2>2. QED
    BY <1>i, <1>p, <2>1 DEF CallInv, CallOK
<1>q. ASSUME NEW t \in Threads, NEW result, Ends(t, result), call[t].pc # "idle"
      PROVE  /\ call'[t].n = call[t].n /\ call'[t].pc = "idle"
             /\ Keepers' \subseteq Keepers
  <2>1. call'[t].n = call[t].n /\ call'[t].pc = "idle"
    BY <1>i, <1>q DEF Ends, CallInv, CallOK
  <2>2. QED
    BY <1>k, <1>p, <1>q, <2>1
<1>1. ASSUME NEW t \in Threads, CAPI_REGISTER(t)
      PROVE  /\ Keepers' \subseteq Keepers
             /\ \/ UNCHANGED appVars
                \/ \E app \in AppIds :
                      Node(t) \in Nodes /\ call[t].pc = "wait" /\ add_app(t, app)
  <2>1. PICK result \in CapiErrors :
          /\ Returns(t, "CAPI_REGISTER", result)
          /\ IF result = "0x0000" THEN add_app(t, call[t].answer.app_id)
                                  ELSE UNCHANGED <<appVars, wild>>
    BY <1>1 DEF CAPI_REGISTER
  <2>0. call[t].pc = "wait" /\ Ends(t, result)
    BY <2>1 DEF Returns, Answered
  <2>2. CASE result = "0x0000"
    <3>1. /\ CallOK(call[t]) /\ call[t].answer # Waiting
          /\ Result(call[t].answer, call[t].type) = "0x0000"
          /\ call[t].type = "CAPI_REGISTER"
      BY <1>i, <2>1, <2>2 DEF CallInv, Returns, Answered
    <3>2. /\ call[t].answer \in GoodAnswers /\ call[t].answer.message_type = call[t].type
          /\ call[t].answer.proxy_error = "NONE" /\ call[t].answer.capi_error = "0x0000"
      BY <3>1, ResultOK
    <3>3. call[t].answer.app_id \in AppIds
      BY <3>1, <3>2 DEF GoodAnswers
    <3>4. Node(t) \in Nodes
      BY <1>i, <2>0, NodeType
    <3>5. QED
      BY <1>q, <2>0, <2>1, <2>2, <3>3, <3>4
  <2>3. QED
    BY <1>q, <2>0, <2>1, <2>2
<1>2. ASSUME NEW t \in Threads, CAPI_RELEASE(t)
      PROVE  /\ Keepers' \subseteq Keepers
             /\ UNCHANGED appVars \/ \E app \in AppIds \cup {0} : del_app(app)
  <2>1. PICK result \in CapiErrors :
          /\ Returns(t, "CAPI_RELEASE", result)
          /\ IF result = "0x0000" THEN del_app(call[t].app_id) ELSE UNCHANGED appVars
    BY <1>2 DEF CAPI_RELEASE
  <2>2. call[t].pc = "wait" /\ Ends(t, result)
    BY <2>1 DEF Returns, Answered
  <2>3. call[t].app_id \in AppIds \cup {0}
    BY <1>i DEF CallInv, CallOK
  <2>4. QED
    BY <1>q, <2>1, <2>2, <2>3
<1>3. ASSUME NEW t \in Threads, CAPI_GET_MESSAGE(t)
      PROVE  (UNCHANGED appVars /\ Keepers' \subseteq Keepers) \/ Copies(t) \/ Disposes(t)
  <2>1. CASE GetMessage_fails(t)
    BY <1>q, <2>1 DEF GetMessage_fails, Answered
  <2>2. CASE GetMessage_malformed(t)
    <3>1. call[t].pc = "wait" /\ Ends(t, "0x1108")
          /\ buffers' = buffers \cup {Node(t)} /\ registered_apps' = registered_apps
      BY <2>2 DEF GetMessage_malformed, Answered
    <3>2. call'[t].n = call[t].n /\ call'[t].pc = "idle" /\ Keepers' \subseteq Keepers
      BY <1>q, <3>1
    <3>3. QED
      BY <3>1, <3>2 DEF Copies
  <2>3. CASE GetMessage_copies(t)
    <3>1. PICK queue : call' = [call EXCEPT ![t].pc = "keep", ![t].queue = queue]
      BY <2>3 DEF GetMessage_copies
    <3>2. call[t].pc = "wait"
          /\ buffers' = buffers \cup {Node(t)} /\ registered_apps' = registered_apps
      BY <2>3 DEF GetMessage_copies, Answered
    <3>3. call'[t].n = call[t].n /\ call'[t].pc = "keep"
      BY <1>i, <3>1 DEF CallInv, CallOK
    <3>4. ASSUME NEW u \in Threads, GetMessage_copies(u) PROVE Node(u) \in {Node(t)}
      <4>1. PICK q : call' = [call EXCEPT ![u].pc = "keep", ![u].queue = q]
        BY <3>4 DEF GetMessage_copies
      <4>2. call[u].pc = "wait"
        BY <3>4 DEF GetMessage_copies, Answered
      <4>3. call'[u].pc = "keep"
        BY <1>i, <4>1 DEF CallInv, CallOK
      <4>4. u = t
        BY <1>i, <3>1, <4>2, <4>3 DEF CallInv, CallOK
      <4>5. QED
        BY <4>4
    <3>5. Keepers' \subseteq Keepers \cup {Node(t)}
      BY <3>4, KeepersStep
    <3>6. QED
      BY <3>2, <3>3, <3>5 DEF Copies
  <2>4. CASE GetMessage_keeps(t)
    <3>1. call[t].pc = "keep" /\ Ends(t, call[t].answer.capi_error)
          /\ setdata_app(call[t].app_id, call[t].queue, Node(t))
      BY <2>4 DEF GetMessage_keeps
    <3>2. call'[t].n = call[t].n /\ call'[t].pc = "idle" /\ Keepers' \subseteq Keepers
      BY <1>q, <3>1
    <3>3. \/ UNCHANGED appVars
          \/ buffers' = buffers \ {Node(t)} /\ registered_apps' = registered_apps
          \/ \E i \in 1 .. Len(registered_apps) : Replaces(i, Node(t))
      BY <3>1 DEF setdata_app, Entries, appVars
    <3>4. QED
      BY <3>1, <3>2, <3>3 DEF Disposes
  <2>5. QED
    BY <1>3, <2>1, <2>2, <2>3, <2>4 DEF CAPI_GET_MESSAGE
<1>c. ASSUME NEW t \in Threads, GetMessage_copies(t) 
      PROVE  (UNCHANGED appVars /\ Keepers' \subseteq Keepers) \/ Copies(t) \/ Disposes(t)
  BY <1>3, <1>c DEF CAPI_GET_MESSAGE
<1>4. ASSUME NEW t \in Threads, CallerStep(t),
             ~ CAPI_REGISTER(t), ~ CAPI_RELEASE(t), ~ CAPI_GET_MESSAGE(t)
      PROVE  UNCHANGED appVars
  BY <1>4 DEF CallerStep, IncrementMsgId, ReadStart, AddEntry, sendRequest, sendRequest_fails,
         PlainCallReturns,
         CAPI_PUT_MESSAGE, CAPI_WAIT_FOR_SIGNAL, CAPI_GET_MANUFACTURER, CAPI_GET_VERSION,
         CAPI_GET_SERIAL_NUMBER, CAPI_GET_PROFILE, CAPI_INSTALLED
<1>5. ASSUME NEW t \in Threads, Call(t) PROVE UNCHANGED appVars
  BY <1>5 DEF Call
<1>6. ASSUME ReceiverStep PROVE UNCHANGED appVars
  BY <1>6 DEF ReceiverStep, recv, recv_fails, Lookup, ReadStartToRemove, Unlink, Store
<1>7. ASSUME \/ DLL_PROCESS_ATTACH \/ DLL_PROCESS_DETACH \/ MarkEntries
             \/ ServerAnswers \/ ConnectionBreaks \/ UNCHANGED vars
      PROVE  UNCHANGED appVars
  BY <1>7 DEF DLL_PROCESS_ATTACH, DLL_PROCESS_DETACH, MarkEntries, ServerAnswers,
              ConnectionBreaks, vars
<1>8. QED
  <2>1. CASE \E t \in Threads : GetMessage_copies(t)
    BY <1>c, <2>1
  <2>2. CASE \A t \in Threads : ~ GetMessage_copies(t)
    <3>1. Keepers' \subseteq Keepers
      BY <1>k, <2>2
    <3>2. QED
      BY <1>1, <1>2, <1>3, <1>4, <1>5, <1>6, <1>7, <3>1 DEF Next
  <2>3. QED
    BY <2>1, <2>2

(* The call a message belongs to keeps it or has returned, also after the  *)
(* step.                                                                   *)
LEMMA OldStays ==
    ASSUME ClientInv, BuffersOld, [Next]_vars, NEW t \in Threads, NEW n \in 1 .. MaxCalls,
           <<t, n>> \in buffers
    PROVE  n <= call'[t].n /\ (n = call'[t].n => call'[t].pc \in {"keep", "idle"})
<1>1. Goes(call[t], call'[t])
  BY CallsGo
<1>2. call[t].n \in Nat /\ n \in Nat
  BY Capi2032Assumption DEF ClientInv, CallInv, CallOK
<1>3. n <= call[t].n /\ (n = call[t].n => call[t].pc \in {"keep", "idle"})
  BY DEF BuffersOld
<1>4. QED
  BY <1>1, <1>2, <1>3 DEF Goes

(* Every step keeps the application list and its messages in agreement. *)
LEMMA AppsInvStep ==
    ASSUME ClientInv, AppsInv, [Next]_vars
    PROVE  AppsInv'
<1>n. /\ NULL \notin Nodes /\ registered_apps \in AppList
      /\ Kept(registered_apps, buffers, Keepers) /\ buffers \subseteq Nodes
  BY Capi2032Assumption DEF AppsInv, Nodes, ListType, BuffersOld
<1>k. Keepers \subseteq Nodes
  BY <1>n DEF Kept
<1>o. ASSUME buffers' \subseteq buffers PROVE BuffersOld'
  BY <1>n, <1>o, OldStays DEF AppsInv, BuffersOld
<1>x. ASSUME NEW apps \in AppList, NEW b, NEW K, Kept(apps, b, K),
             registered_apps' = apps, buffers' = b, Keepers' \subseteq K, BuffersOld'
      PROVE  AppsInv'
  <2>1. Kept(apps, b, Keepers')
    BY <1>x, KeptFewer
  <2>2. ListType' /\ Kept(registered_apps, buffers, Keepers)'
    BY <1>x, <2>1 DEF ListType, Kept
  <2>3. QED
    BY <1>x, <2>2 DEF AppsInv
<1>1. CASE UNCHANGED appVars /\ Keepers' \subseteq Keepers
  BY <1>1, <1>n, <1>o, <1>x DEF appVars
<1>2. CASE FreeApps
  <2>1. registered_apps' = <<>> /\ buffers' \subseteq buffers
        /\ \A t \in Threads : call'[t].pc # "keep"
    BY <1>2 DEF FreeApps
  <2>2. Keepers' \subseteq {}
    BY <2>1 DEF Keepers
  <2>3. PICK b : b = buffers'
    OBVIOUS
  <2>4. <<>> \in AppList /\ Kept(<<>>, b, {})
    BY DEF AppList, Kept
  <2>5. QED
    BY <1>o, <1>x, <2>1, <2>2, <2>3, <2>4
<1>3. ASSUME NEW t \in Threads, NEW app \in AppIds, Node(t) \in Nodes, add_app(t, app),
             Keepers' \subseteq Keepers
      PROVE AppsInv'
  <2>1. CASE UNCHANGED appVars
    BY <1>1, <1>3, <2>1
  <2>2. CASE /\ registered_apps' = Append(registered_apps,
                                    [entry |-> Node(t), ApplID |-> app, data |-> NULL])
             /\ buffers' = buffers
    <3>1. PICK apps : apps = Append(registered_apps,
                                    [entry |-> Node(t), ApplID |-> app, data |-> NULL])
      OBVIOUS
    <3>2. apps \in AppList /\ Kept(apps, buffers, Keepers)
      BY <1>3, <1>n, <3>1, KeptAppend
    <3>3. QED
      BY <1>3, <1>o, <1>x, <2>2, <3>1, <3>2
  <2>3. QED
    BY <1>3, <2>1, <2>2 DEF add_app
<1>4. ASSUME NEW app, del_app(app), Keepers' \subseteq Keepers PROVE AppsInv'
  <2>1. ASSUME NEW i \in Entries(app),
               registered_apps' = SubSeq(registered_apps, 1, i - 1)
                                  \o SubSeq(registered_apps, i + 1, Len(registered_apps)),
               buffers' = buffers \ {registered_apps[i].data}
        PROVE  AppsInv'
    <3>1. i \in 1 .. Len(registered_apps) /\ NULL \notin Keepers
      BY <1>n, <1>k DEF Entries
    <3>2. PICK apps : apps = SubSeq(registered_apps, 1, i - 1)
                             \o SubSeq(registered_apps, i + 1, Len(registered_apps))
      OBVIOUS
    <3>3. apps \in AppList /\ Kept(apps, buffers \ {registered_apps[i].data}, Keepers)
      <4>1. PICK K, b, old : K = Keepers /\ b = buffers /\ old = registered_apps
        OBVIOUS
      <4>2. /\ old \in AppList /\ Kept(old, b, K) /\ NULL \notin K /\ i \in 1 .. Len(old)
            /\ apps = SubSeq(old, 1, i - 1) \o SubSeq(old, i + 1, Len(old))
        BY <1>n, <3>1, <3>2, <4>1
      <4>3. Remains(old, i, apps)
        BY <4>2, Deleted
      <4>4. apps \in AppList /\ Kept(apps, b \ {old[i].data}, K)
        <5>1. /\ old \in AppList /\ Kept(old, b, K) /\ NULL \notin K
              /\ i \in 1 .. Len(old)
          BY <4>2
        <5>2. QED
          BY <4>3, <5>1, KeptDelete
      <4>5. QED
        BY <4>1, <4>4
    <3>4. QED
      BY <1>4, <1>o, <1>x, <2>1, <3>2, <3>3
  <2>2. QED
    BY <1>1, <1>4, <2>1 DEF del_app
<1>5. ASSUME NEW t \in Threads, Copies(t) PROVE AppsInv'
  <2>1. Node(t) \in Nodes /\ call[t].n \in 1 .. MaxCalls
    BY <1>5, NodeType DEF ClientInv, Copies
  <2>2. Node(t) \notin buffers
    BY <1>5, <2>1 DEF AppsInv, BuffersOld, Node, Copies
  <2>3. PICK d : d = Node(t)
    OBVIOUS
  <2>4. Kept(registered_apps, buffers \cup {d}, Keepers \cup {d})
    BY <1>n, <2>2, <2>3, KeptCopy
  <2>5. BuffersOld'
    <3>1. buffers' = buffers \cup {Node(t)} /\ buffers' \subseteq Nodes
      BY <1>5, <1>n, <2>1 DEF Copies
    <3>2. ASSUME NEW u \in Threads, NEW n \in 1 .. MaxCalls, <<u, n>> \in buffers'
          PROVE  n <= call'[u].n /\ (n = call'[u].n => call'[u].pc \in {"keep", "idle"})
      <4>1. CASE <<u, n>> \in buffers
        BY <4>1, OldStays DEF AppsInv
      <4>2. CASE <<u, n>> = Node(t)
        BY <1>5, <2>1, <4>2 DEF Node, Copies
      <4>3. QED
        BY <3>1, <3>2, <4>1, <4>2
    <3>3. QED
      BY <3>1, <3>2 DEF BuffersOld
  <2>6. QED
    BY <1>5, <1>n, <1>x, <2>3, <2>4, <2>5 DEF Copies
<1>6. ASSUME NEW t \in Threads, Disposes(t) PROVE AppsInv'
  <2>1. PICK d : d = Node(t)
    OBVIOUS
  <2>2. d \in Keepers
    BY <1>6, <2>1 DEF Disposes, Keepers
  <2>3. Keepers' \subseteq Keepers \ {d}
    <3>1. \A u \in Threads : call'[u].pc = "keep" => u # t
      BY <1>6 DEF Disposes
    <3>2. ASSUME NEW k \in Keepers' PROVE k # d
      <4>1. PICK u \in Threads : call'[u].pc = "keep" /\ k = <<u, call'[u].n>>
        BY <3>2 DEF Keepers, Node
      <4>2. QED
        BY <2>1, <3>1, <4>1 DEF Node
    <3>3. QED
      BY <1>6, <3>2 DEF Disposes
  <2>4. CASE UNCHANGED appVars
    BY <1>1, <1>6, <2>4 DEF Disposes
  <2>5. CASE buffers' = buffers \ {Node(t)} /\ registered_apps' = registered_apps
    <3>1. Kept(registered_apps, buffers \ {d}, Keepers \ {d})
      BY <1>n, <2>2, KeptFree
    <3>2. QED
      BY <1>n, <1>o, <1>x, <2>1, <2>3, <2>5, <3>1
  <2>6. ASSUME NEW i \in 1 .. Len(registered_apps), Replaces(i, d) PROVE AppsInv'
    <3>1. /\ registered_apps' = [registered_apps EXCEPT ![i].data = d]
          /\ buffers' = buffers \ {registered_apps[i].data}
      BY <2>6 DEF Replaces
    <3>2. PICK apps : apps = [registered_apps EXCEPT ![i].data = d]
      OBVIOUS
    <3>3. /\ apps \in AppList
          /\ Kept(apps, buffers \ {registered_apps[i].data}, Keepers \ {d})
      BY <1>n, <1>k, <2>2, <3>2, KeptReplace
    <3>4. QED
      BY <1>o, <1>x, <2>3, <3>1, <3>2, <3>3
  <2>7. QED
    BY <1>6, <2>1, <2>4, <2>5, <2>6 DEF Disposes
<1>7. QED
  BY <1>1, <1>2, <1>3, <1>4, <1>5, <1>6, AppsEffect

(* Every state of the client satisfies both parts of the invariant. *)
LEMMA AppsInvCorrect == Spec => [](ClientInv /\ AppsInv)
<1>1. Init => ClientInv /\ AppsInv
  <2>1. ASSUME Init PROVE AppsInv
    <3>1. registered_apps = <<>> /\ buffers = {} /\ Keepers = {}
      BY <2>1 DEF Init, Keepers
    <3>2. <<>> \in AppList /\ Kept(<<>>, {}, {})
      BY DEF AppList, Kept
    <3>3. QED
      BY <3>1, <3>2 DEF AppsInv, BuffersOld, ListType
  <2>2. QED
    BY <2>1, ClientInvInit
<1>2. ClientInv /\ AppsInv /\ [Next]_vars => (ClientInv /\ AppsInv)'
  BY ClientInvStep, AppsInvStep DEF AppsInv
<1>3. QED
  BY <1>1, <1>2, PTL DEF Spec

(* The first part on its own. *)
LEMMA ClientCorrect == Spec => []ClientInv
BY AppsInvCorrect, PTL

(* A call reports success only on an answer of its own type and id that    *)
(* says so (the checks of verifyMessage, after dispatchMessage has stored  *)
(* the answer through the pointer found by its id), whatever the threads   *)
(* do to msg_id and to the list.                                           *)
THEOREM SuccessCorrect == Spec => []SuccessIsAnswered
<1>1. ClientInv => SuccessIsAnswered
  BY DEF ClientInv, CallInv, CallOK, SuccessIsAnswered
<1>2. QED
  BY <1>1, ClientCorrect, PTL

(* Every variable of the library keeps its type: no step of any thread     *)
(* leads a pointer of the list, an answer variable or an application entry *)
(* outside its domain.                                                     *)
THEOREM TypeCorrect == Spec => []TypeOK
<1>1. ASSUME ClientInv, AppsInv PROVE TypeOK
  <2>1. GoodAnswers \subseteq WireAnswers /\ Added \subseteq Nodes
    BY DEF GoodAnswers, Added
  <2>2. /\ hash_start \in Nodes \cup {NULL} /\ next \in [Nodes -> Nodes \cup {NULL}]
        /\ msgId \in [Nodes -> Nat] /\ allocated \subseteq Nodes
    BY <1>1, <2>1 DEF ClientInv, HashInv, Chained, Links
  <2>3. registered_apps \in Seq([entry : Nodes, ApplID : AppIds, data : Nodes \cup {NULL}])
    BY <1>1 DEF AppsInv, ListType, AppList, AppEntries
  <2>4. buffers \subseteq Nodes
    BY <1>1 DEF AppsInv, BuffersOld
  <2>5. call \in [Threads ->
          [pc : CallStates, n : 0 .. MaxCalls, type : CapiTypes \cup {"none"},
           app_id : AppIds \cup {0}, id : Nat, queue : Nodes \cup {NULL},
           answer : WireAnswers \cup {Waiting, ILLEGAL_ANSWER},
           result : CapiErrors \cup {"none"}]]
    <3>1. call = [t \in Threads |-> call[t]]
      BY <1>1 DEF ClientInv, CallInv
    <3>2. ASSUME NEW t \in Threads
          PROVE  call[t] \in [pc : CallStates, n : 0 .. MaxCalls, type : CapiTypes \cup {"none"},
                     app_id : AppIds \cup {0}, id : Nat, queue : Nodes \cup {NULL},
                     answer : WireAnswers \cup {Waiting, ILLEGAL_ANSWER},
                     result : CapiErrors \cup {"none"}]
      BY <1>1, <2>1 DEF ClientInv, CallInv, CallOK
    <3>3. QED
      BY <3>1, <3>2
  <2>6. receiver \in [pc : {"none", "recv", "lookup", "read_start", "unlink", "store", "quit"},
                      msg : WireAnswers \cup {Waiting},
                      data : Nodes \cup {NULL}, queue : Nodes \cup {NULL}]
    BY <1>1, <2>1 DEF ClientInv, ReceiverInv
  <2>7. /\ pending \subseteq [message_id : Nat, type : CapiTypes,
                              app_id : AppIds \cup {0}, from : Nodes]
        /\ serverApps \subseteq AppIds
    BY <1>1 DEF ClientInv, ServerInv, PendingRequests
  <2>8. wire \in Seq(WireAnswers)
    <3>1. wire \in Seq(GoodAnswers)
      BY <1>1 DEF ClientInv, ServerInv
    <3>2. QED
      BY <2>1, <3>1
  <2>9. FlagTypes
    BY <1>1 DEF ClientInv
  <2>10. QED
    BY <2>2, <2>3, <2>4, <2>5, <2>6, <2>7, <2>8, <2>9 DEF TypeOK, FlagTypes
<1>2. QED
  BY <1>1, AppsInvCorrect, PTL

(* No message is freed twice, whatever the threads do: what an entry of    *)
(* the application list keeps is allocated and its own, although           *)
(* setdata_app walks from a start of the list that was read before its     *)
(* lock and may have been freed since.                                     *)
THEOREM BuffersCorrect == Spec => []BuffersOwned
<1>1. AppsInv => BuffersOwned
  BY DEF AppsInv, Kept, Keepers, BuffersOwned
<1>2. QED
  BY <1>1, AppsInvCorrect, PTL
=============================================================================
