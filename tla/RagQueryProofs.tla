---------------------------- MODULE RagQueryProofs ----------------------------
(***************************************************************************)
(* Theorems about RagQuery, for any documents and texts, any docstore, any *)
(* top k and any section, offset and length of a node.                     *)
(***************************************************************************)
EXTENDS RagQuery, SequenceTheorems, FiniteSetTheorems, WellFoundedInduction, TLAPS

-----------------------------------------------------------------------------
(***************************************************************************)
(* What one step of a loop does with the nodes of a list.                  *)
(***************************************************************************)
IdsDiffer(s) == \A i, j \in DOMAIN s : s[i].node = s[j].node => i = j

HashesDiffer(s) ==
  \A i, j \in DOMAIN s : Hash(s[i].node) = Hash(s[j].node) => i = j

LEMMA HashesAreIds ==
  ASSUME NEW s, HashesDiffer(s)
  PROVE  IdsDiffer(s)
  BY DEF HashesDiffer, IdsDiffer

LEMMA EmptyList ==
  /\ <<>> \in Seq(Scored) /\ NodesOf(<<>>) = {}
  /\ IdsDiffer(<<>>) /\ HashesDiffer(<<>>)
  BY EmptySeq DEF NodesOf, IdsDiffer, HashesDiffer

LEMMA NodesAreNodes ==
  ASSUME NEW s \in Seq(Scored)
  PROVE  /\ NodesOf(s) \subseteq Node
         /\ \A i \in DOMAIN s : s[i].node \in NodesOf(s) /\ s[i] \in Scored
         /\ \A n \in NodesOf(s) : \E i \in DOMAIN s : s[i].node = n
<1>1. \A i \in DOMAIN s : s[i] \in Scored
  BY LenProperties, ElementOfSeq
<1> QED
  BY <1>1 DEF NodesOf, Scored

LEMMA Appended ==
  ASSUME NEW s \in Seq(Scored), NEW x \in Scored
  PROVE  /\ Append(s, x) \in Seq(Scored)
         /\ DOMAIN Append(s, x) = DOMAIN s \cup {Len(s) + 1}
         /\ Len(s) + 1 \notin DOMAIN s
         /\ \A i \in DOMAIN s : Append(s, x)[i] = s[i]
         /\ Append(s, x)[Len(s) + 1] = x
         /\ NodesOf(Append(s, x)) = NodesOf(s) \cup {x.node}
<1> DEFINE t == Append(s, x)
<1>1. /\ t \in Seq(Scored) /\ Len(t) = Len(s) + 1
      /\ \A i \in 1 .. Len(s) : t[i] = s[i]
      /\ t[Len(s) + 1] = x
  BY AppendProperties
<1>2. DOMAIN s = 1 .. Len(s) /\ DOMAIN t = 1 .. Len(t) /\ Len(s) \in Nat
  BY <1>1, LenProperties
<1> HIDE DEF t
<1>3. DOMAIN t = DOMAIN s \cup {Len(s) + 1} /\ Len(s) + 1 \notin DOMAIN s
  BY <1>1, <1>2
<1>4. NodesOf(t) = NodesOf(s) \cup {x.node}
  BY <1>1, <1>2, <1>3 DEF NodesOf
<1> QED
  BY <1>1, <1>2, <1>3, <1>4 DEF t

LEMMA Taken ==
  ASSUME NEW s \in Seq(Scored), s # <<>>
  PROVE  /\ Head(s) \in Scored /\ Tail(s) \in Seq(Scored)
         /\ NodesOf(s) = {Head(s).node} \cup NodesOf(Tail(s))
         /\ IdsDiffer(s) => /\ IdsDiffer(Tail(s))
                            /\ Head(s).node \notin NodesOf(Tail(s))
<1> DEFINE t == Tail(s)
<1>1. /\ Head(s) \in Scored /\ t \in Seq(Scored) /\ Len(t) = Len(s) - 1
      /\ \A i \in 1 .. Len(t) : t[i] = s[i + 1]
  BY HeadTailProperties
<1>9. Head(s) = s[1]
  OBVIOUS
<1>2. DOMAIN s = 1 .. Len(s) /\ DOMAIN t = 1 .. Len(t) /\ Len(s) \in Nat \ {0}
  BY <1>1, LenProperties, EmptySeq
<1> HIDE DEF t
<1>3. \A i \in DOMAIN t : i + 1 \in DOMAIN s /\ t[i] = s[i + 1]
  BY <1>1, <1>2
<1>4. \A i \in DOMAIN s : i = 1 \/ (i - 1 \in DOMAIN t /\ t[i - 1] = s[i])
  BY <1>1, <1>2
<1>5. 1 \in DOMAIN s
  BY <1>2
<1>6. NodesOf(s) = {s[1].node} \cup NodesOf(t)
  BY <1>3, <1>4, <1>5 DEF NodesOf
<1>7. IdsDiffer(s) => IdsDiffer(t)
  BY <1>2, <1>3 DEF IdsDiffer
<1>8. ASSUME IdsDiffer(s), s[1].node \in NodesOf(t)
      PROVE  FALSE
  <2>1. PICK i \in DOMAIN t : t[i].node = s[1].node
    BY <1>8 DEF NodesOf
  <2>2. i + 1 = 1
    BY <1>3, <1>5, <1>8, <2>1 DEF IdsDiffer
  <2> QED
    BY <1>2, <2>2
<1> QED
  BY <1>1, <1>6, <1>7, <1>8, <1>9 DEF t

LEMMA Joined ==
  ASSUME NEW s \in Seq(Scored), NEW t \in Seq(Scored)
  PROVE  /\ s \o t \in Seq(Scored)
         /\ NodesOf(s \o t) = NodesOf(s) \cup NodesOf(t)
<1> DEFINE u == s \o t
<1>1. /\ u \in Seq(Scored) /\ Len(u) = Len(s) + Len(t)
      /\ \A i \in 1 .. Len(s) + Len(t) :
           u[i] = IF i <= Len(s) THEN s[i] ELSE t[i - Len(s)]
  BY ConcatProperties
<1>2. /\ DOMAIN s = 1 .. Len(s) /\ DOMAIN t = 1 .. Len(t) /\ DOMAIN u = 1 .. Len(u)
      /\ Len(s) \in Nat /\ Len(t) \in Nat
  BY <1>1, LenProperties
<1> HIDE DEF u
<1>3. \A i \in DOMAIN s : i \in DOMAIN u /\ u[i] = s[i]
  BY <1>1, <1>2
<1>4. \A i \in DOMAIN t : i + Len(s) \in DOMAIN u /\ u[i + Len(s)] = t[i]
  BY <1>1, <1>2
<1>5. \A i \in DOMAIN u : \/ i \in DOMAIN s /\ u[i] = s[i]
                          \/ i - Len(s) \in DOMAIN t /\ u[i] = t[i - Len(s)]
  BY <1>1, <1>2
<1>6. NodesOf(u) = NodesOf(s) \cup NodesOf(t)
  BY <1>3, <1>4, <1>5 DEF NodesOf
<1> QED
  BY <1>1, <1>6 DEF u

LEMMA Inserted ==
  ASSUME NEW s \in Seq(Scored), NEW x \in Scored, NEW k \in 1 .. Len(s) + 1
  PROVE  /\ InsertAt(s, k, x) \in Seq(Scored)
         /\ NodesOf(InsertAt(s, k, x)) = NodesOf(s) \cup {x.node}
         /\ IdsDiffer(s) /\ x.node \notin NodesOf(s) => IdsDiffer(InsertAt(s, k, x))
<1> DEFINE front == SubSeq(s, 1, k - 1)
           back == SubSeq(s, k, Len(s))
           t == InsertAt(s, k, x)
<1>1. Len(s) \in Nat /\ DOMAIN s = 1 .. Len(s) /\ \A i \in 1 .. Len(s) : s[i] \in Scored
  BY LenProperties, ElementOfSeq
<1>2. /\ front \in Seq(Scored) /\ Len(front) = k - 1
      /\ \A i \in 1 .. k - 1 : front[i] = s[i]
  <2>1. /\ SubSeq(s, 1, k - 1) \in Seq(Scored)
        /\ Len(SubSeq(s, 1, k - 1)) = IF 1 <= k - 1 THEN k - 1 - 1 + 1 ELSE 0
        /\ \A i \in 1 .. k - 1 - 1 + 1 : SubSeq(s, 1, k - 1)[i] = s[1 + i - 1]
    <3>1. 1 \in Int /\ k - 1 \in Int /\ \A i \in 1 .. k - 1 : s[i] \in Scored
      BY <1>1
    <3> QED
      BY <3>1, SubSeqProperties
  <2> QED
    BY <2>1
<1>3. /\ back \in Seq(Scored) /\ Len(back) = Len(s) - k + 1
      /\ \A i \in 1 .. Len(s) - k + 1 : back[i] = s[k + i - 1]
  <2>1. /\ SubSeq(s, k, Len(s)) \in Seq(Scored)
        /\ Len(SubSeq(s, k, Len(s))) = IF k <= Len(s) THEN Len(s) - k + 1 ELSE 0
        /\ \A i \in 1 .. Len(s) - k + 1 : SubSeq(s, k, Len(s))[i] = s[k + i - 1]
    <3>1. k \in Int /\ Len(s) \in Int /\ \A i \in k .. Len(s) : s[i] \in Scored
      BY <1>1
    <3> QED
      BY <3>1, SubSeqProperties
  <2> QED
    BY <1>1, <2>1
<1>4. /\ Append(front, x) \in Seq(Scored) /\ Len(Append(front, x)) = k
      /\ \A i \in 1 .. k - 1 : Append(front, x)[i] = s[i]
      /\ Append(front, x)[k] = x
  BY <1>2, AppendProperties
<1>5. t = Append(front, x) \o back
  BY <1>2, AppendIsConcat DEF InsertAt
<1>6. /\ t \in Seq(Scored) /\ Len(t) = Len(s) + 1
      /\ \A i \in 1 .. Len(s) + 1 :
           t[i] = IF i <= k THEN Append(front, x)[i] ELSE back[i - k]
  <2> HIDE DEF front, back, t
  <2> QED
    BY <1>1, <1>3, <1>4, <1>5, ConcatProperties
<1>7. DOMAIN t = 1 .. Len(s) + 1
  BY <1>6, LenProperties
<1> HIDE DEF front, back, t
<1>8. \A i \in 1 .. Len(s) + 1 :
        t[i] = IF i < k THEN s[i] ELSE IF i = k THEN x ELSE s[i - 1]
  <2> SUFFICES ASSUME NEW i \in 1 .. Len(s) + 1
               PROVE  t[i] = IF i < k THEN s[i] ELSE IF i = k THEN x ELSE s[i - 1]
    OBVIOUS
  <2>1. CASE i <= k
    <3>1. t[i] = Append(front, x)[i]
      BY <1>6, <2>1
    <3>2. i = k \/ i \in 1 .. k - 1
      BY <2>1
    <3> QED
      BY <1>4, <3>1, <3>2
  <2>2. CASE i > k
    <3>1. i - k \in 1 .. Len(s) - k + 1 /\ k + (i - k) - 1 = i - 1
      BY <1>1, <2>2
    <3>2. back[i - k] = s[i - 1]
      BY <1>3, <3>1
    <3> QED
      BY <1>1, <1>6, <2>2, <3>2
  <2> QED
    BY <1>1, <2>1, <2>2
<1>9. NodesOf(t) = NodesOf(s) \cup {x.node}
  <2>1. ASSUME NEW i \in DOMAIN t
        PROVE  t[i].node \in NodesOf(s) \cup {x.node}
    <3>1. \/ i \in DOMAIN s /\ t[i] = s[i]
          \/ t[i] = x
          \/ i - 1 \in DOMAIN s /\ t[i] = s[i - 1]
      BY <1>1, <1>7, <1>8
    <3> QED
      BY <3>1 DEF NodesOf
  <2>2. ASSUME NEW i \in DOMAIN s
        PROVE  \E j \in DOMAIN t : t[j] = s[i]
    <3>1. CASE i < k
      BY <1>1, <1>7, <1>8, <3>1
    <3>2. CASE i >= k
      <4>1. i + 1 \in DOMAIN t /\ t[i + 1] = s[i]
        BY <1>1, <1>7, <1>8, <3>2
      <4> QED
        BY <4>1
    <3> QED
      BY <1>1, <3>1, <3>2
  <2>3. k \in DOMAIN t /\ t[k] = x
    BY <1>7, <1>8
  <2> QED
    BY <2>1, <2>2, <2>3 DEF NodesOf
<1>10. ASSUME IdsDiffer(s), x.node \notin NodesOf(s),
              NEW i \in DOMAIN t, NEW j \in DOMAIN t, t[i].node = t[j].node
       PROVE  i = j
  <2> DEFINE old(m) == IF m < k THEN m ELSE m - 1
  <2>1. \A m \in DOMAIN t : m # k => old(m) \in DOMAIN s /\ t[m] = s[old(m)]
    BY <1>1, <1>7, <1>8
  <2>2. t[k] = x
    BY <1>8
  <2>3. \A m \in DOMAIN t : t[m].node = x.node => m = k
    BY <1>10, <2>1 DEF NodesOf
  <2>4. CASE i = k \/ j = k
    BY <1>10, <2>2, <2>3, <2>4
  <2>5. CASE i # k /\ j # k
    <3>1. old(i) = old(j)
      BY <1>10, <2>1, <2>5 DEF IdsDiffer
    <3> QED
      BY <1>7, <2>5, <3>1
  <2> QED
    BY <2>4, <2>5
<1> QED
  BY <1>6, <1>9, <1>10 DEF t, IdsDiffer

(* Put adds an entry where there was none, or takes the place of one.      *)
LEMMA PutCases ==
  ASSUME NEW s \in Seq(Scored), NEW at \in SUBSET DOMAIN s, NEW x \in Scored
  PROVE  /\ Put(s, at, x) \in Seq(Scored)
         /\ at = {} => Put(s, at, x) = Append(s, x)
         /\ at # {} => \E i \in at :
              /\ DOMAIN Put(s, at, x) = DOMAIN s
              /\ \A j \in DOMAIN s : Put(s, at, x)[j] = IF j = i THEN x ELSE s[j]
<1>1. CASE at = {}
  BY <1>1, AppendProperties DEF Put
<1>2. CASE at # {}
  <2> DEFINE i == CHOOSE i \in at : TRUE
  <2>1. i \in at
    BY <1>2
  <2>2. Put(s, at, x) = [s EXCEPT ![i] = x]
    BY <1>2 DEF Put
  <2> HIDE DEF i
  <2>3. i \in 1 .. Len(s) /\ DOMAIN s = 1 .. Len(s)
    BY <2>1, LenProperties
  <2>4. /\ [s EXCEPT ![i] = x] \in Seq(Scored)
        /\ Len([s EXCEPT ![i] = x]) = Len(s)
        /\ \A j \in 1 .. Len(s) : [s EXCEPT ![i] = x][j] = IF j = i THEN x ELSE s[j]
    BY <2>3, ExceptSeq
  <2> QED
    BY <1>2, <2>1, <2>2, <2>3, <2>4
<1> QED
  BY <1>1, <1>2

(* all_nodes[node_id] = ...: a dictionary by node.                         *)
LEMMA SetById ==
  ASSUME NEW s \in Seq(Scored), NEW x \in Scored, IdsDiffer(s)
  PROVE  /\ Set(s, x) \in Seq(Scored) /\ IdsDiffer(Set(s, x))
         /\ NodesOf(Set(s, x)) = NodesOf(s) \cup {x.node}
<1> DEFINE at == WithId(s, x.node)
           t == Set(s, x)
<1>1. at \in SUBSET DOMAIN s /\ \A i \in DOMAIN s : i \in at <=> s[i].node = x.node
  BY DEF WithId
<1>2. /\ t \in Seq(Scored)
      /\ at = {} => t = Append(s, x)
      /\ at # {} => \E i \in at :
           /\ DOMAIN t = DOMAIN s
           /\ \A j \in DOMAIN s : t[j] = IF j = i THEN x ELSE s[j]
  <2>1. t = Put(s, at, x)
    BY DEF Set
  <2> HIDE DEF at, t
  <2>2. /\ Put(s, at, x) \in Seq(Scored)
        /\ at = {} => Put(s, at, x) = Append(s, x)
        /\ at # {} => \E i \in at :
             /\ DOMAIN Put(s, at, x) = DOMAIN s
             /\ \A j \in DOMAIN s : Put(s, at, x)[j] = IF j = i THEN x ELSE s[j]
    BY <1>1, PutCases, ZenonT(30)
  <2> QED
    BY <2>1, <2>2
<1> HIDE DEF at, t
<1>3. CASE at = {}
  BY <1>1, <1>2, <1>3, Appended DEF IdsDiffer, NodesOf, t
<1>4. CASE at # {}
  <2>1. PICK i \in at : /\ DOMAIN t = DOMAIN s
                        /\ \A j \in DOMAIN s : t[j] = IF j = i THEN x ELSE s[j]
    BY <1>2, <1>4
  <2>2. \A j \in DOMAIN s : t[j].node = s[j].node
    BY <1>1, <2>1
  <2>3. NodesOf(t) = NodesOf(s) /\ x.node \in NodesOf(s)
    BY <1>1, <2>1, <2>2 DEF NodesOf
  <2> QED
    BY <1>2, <2>1, <2>2, <2>3 DEF IdsDiffer, t
<1> QED
  BY <1>3, <1>4

(* hash_dict[hash] = ...: a dictionary by hash.                            *)
LEMMA PutByHash ==
  ASSUME NEW s \in Seq(Scored), NEW x \in Scored, HashesDiffer(s)
  PROVE  LET t == Put(s, WithHash(s, x.node), x)
         IN  /\ t \in Seq(Scored) /\ HashesDiffer(t)
             /\ NodesOf(t) \subseteq NodesOf(s) \cup {x.node}
             /\ Hashes(NodesOf(t)) = Hashes(NodesOf(s)) \cup {Hash(x.node)}
<1> DEFINE at == WithHash(s, x.node)
           t == Put(s, at, x)
<1>1. at \in SUBSET DOMAIN s /\ \A i \in DOMAIN s : i \in at <=> Hash(s[i].node) = Hash(x.node)
  BY DEF WithHash
<1> HIDE DEF at
<1>2. /\ t \in Seq(Scored)
      /\ at = {} => t = Append(s, x)
      /\ at # {} => \E i \in at :
           /\ DOMAIN t = DOMAIN s
           /\ \A j \in DOMAIN s : t[j] = IF j = i THEN x ELSE s[j]
  BY <1>1, PutCases
<1>3. CASE at = {}
  <2>0. NodesOf(Append(s, x)) = NodesOf(s) \cup {x.node}
    BY Appended
  <2>1. NodesOf(t) = NodesOf(s) \cup {x.node}
    BY <1>2, <1>3, <2>0
  <2>2. HashesDiffer(t)
    BY <1>1, <1>2, <1>3, Appended DEF HashesDiffer
  <2>3. Hashes(NodesOf(t)) = Hashes(NodesOf(s)) \cup {Hash(x.node)}
    BY <2>1 DEF Hashes
  <2> QED
    BY <1>2, <2>1, <2>2, <2>3 DEF at, t
<1>4. CASE at # {}
  <2>1. PICK i \in at : /\ DOMAIN t = DOMAIN s
                        /\ \A j \in DOMAIN s : t[j] = IF j = i THEN x ELSE s[j]
    BY <1>2, <1>4
  <2> HIDE DEF t
  <2>2. \A j \in DOMAIN s : Hash(t[j].node) = Hash(s[j].node)
    BY <1>1, <2>1
  <2>3. HashesDiffer(t)
    BY <2>1, <2>2 DEF HashesDiffer
  <2>4. NodesOf(t) \subseteq NodesOf(s) \cup {x.node}
    BY <2>1 DEF NodesOf
  <2>5. Hashes(NodesOf(t)) = {Hash(t[j].node) : j \in DOMAIN t}
    BY DEF Hashes, NodesOf
  <2>6. Hashes(NodesOf(s)) = {Hash(s[j].node) : j \in DOMAIN s}
    BY DEF Hashes, NodesOf
  <2>7. Hash(x.node) \in {Hash(s[j].node) : j \in DOMAIN s}
    BY <1>1, <2>1
  <2>8. Hashes(NodesOf(t)) = Hashes(NodesOf(s)) \cup {Hash(x.node)}
    BY <2>1, <2>2, <2>5, <2>6, <2>7
  <2> QED
    BY <1>2, <2>3, <2>4, <2>8 DEF at, t
<1> QED
  BY <1>3, <1>4 DEF at

LEMMA NodePairs ==
  /\ \A n \in Node : /\ n = <<n[1], n[2]>> /\ n[1] \in Docs
                     /\ Size[n[1]] \in Nat /\ n[2] \in 1 .. Size[n[1]]
  /\ \A d \in Docs, k \in Nat : 1 <= k /\ k <= Size[d] => <<d, k>> \in Node
  BY SizesAssumption DEF Node

LEMMA FetchedNode ==
  ASSUME NEW s \in Seq(Scored), NEW m \in Node, IdsDiffer(s)
  PROVE  /\ Fetched(s, m) \in Seq(Scored) /\ IdsDiffer(Fetched(s, m))
         /\ NodesOf(Fetched(s, m)) = NodesOf(s) \cup ({m} \cap stored)
<1>1. [node |-> m, score |-> 0] \in Scored
  BY DEF Scored
<1> QED
  BY <1>1, SetById DEF Fetched

LEMMA BothNeighbours ==
  ASSUME NEW s \in Seq(Scored), NEW n \in Node,
         IdsDiffer(s), n \in NodesOf(s), n \in stored, stored \subseteq Node
  PROVE  LET t == WithPrev(WithNext(s, n), n)
         IN  /\ t \in Seq(Scored) /\ IdsDiffer(t)
             /\ NodesOf(t) = NodesOf(s) \cup Neighbourhood(n)
<1> DEFINE u == WithNext(s, n)
           t == WithPrev(u, n)
<1>1. /\ n = <<n[1], n[2]>> /\ n[1] \in Docs
      /\ Size[n[1]] \in Nat /\ n[2] \in 1 .. Size[n[1]]
  BY NodePairs
<1>2. HasNext(n) => NextOf(n) \in Node
  BY <1>1, NodePairs DEF HasNext, NextOf
<1>3. HasPrev(n) => Prev(n) \in Node
  BY <1>1, NodePairs DEF HasPrev, Prev
<1>4. /\ u \in Seq(Scored) /\ IdsDiffer(u)
      /\ NodesOf(u) = NodesOf(s) \cup (IF HasNext(n) THEN {NextOf(n)} \cap stored ELSE {})
  BY <1>2, FetchedNode DEF WithNext
<1> HIDE DEF u
<1>5. /\ t \in Seq(Scored) /\ IdsDiffer(t)
      /\ NodesOf(t) = NodesOf(u) \cup
           (IF HasPrev(n) /\ HasNext(n) THEN {Prev(n)} \cap stored ELSE {})
  BY <1>3, <1>4, FetchedNode DEF WithPrev
<1> HIDE DEF t
<1>6. CASE n[2] = Size[n[1]]
  BY <1>1, <1>4, <1>5, <1>6 DEF HasNext, Neighbourhood, t, u
<1>7. CASE n[2] # Size[n[1]]
  <2>1. HasNext(n)
    BY <1>1, <1>7 DEF HasNext
  <2>2. ASSUME NEW m \in stored
        PROVE  m \in Neighbourhood(n) <=>
                 \/ m = n \/ m = NextOf(n) \/ (HasPrev(n) /\ m = Prev(n))
    <3>1. m = <<m[1], m[2]>> /\ m[2] \in Nat \ {0}
      BY NodePairs
    <3>2. m \in Neighbourhood(n) <=> m[1] = n[1] /\ m[2] - n[2] \in {-1, 0, 1}
      BY <1>7 DEF Neighbourhood
    <3>3. m = n <=> m[1] = n[1] /\ m[2] - n[2] = 0
      BY <1>1, <3>1
    <3>4. m = NextOf(n) <=> m[1] = n[1] /\ m[2] - n[2] = 1
      BY <1>1, <3>1 DEF NextOf
    <3>5. HasPrev(n) /\ m = Prev(n) <=> m[1] = n[1] /\ m[2] - n[2] = -1
      BY <1>1, <3>1 DEF HasPrev, Prev
    <3> QED
      BY <3>2, <3>3, <3>4, <3>5
  <2>3. Neighbourhood(n) \subseteq stored
    BY <1>7 DEF Neighbourhood
  <2>4. NodesOf(t) = NodesOf(s) \cup ({NextOf(n)} \cap stored)
          \cup (IF HasPrev(n) THEN {Prev(n)} \cap stored ELSE {})
    BY <1>4, <1>5, <2>1
  <2>5. NodesOf(t) = NodesOf(s) \cup Neighbourhood(n)
    BY <2>2, <2>3, <2>4
  <2> QED
    BY <1>5, <2>5 DEF t, u
<1> QED
  BY <1>6, <1>7

(* dedup_nodes_with_score, one node.                                       *)
LEMMA KeptByHash ==
  ASSUME NEW s \in Seq(Scored), NEW x \in Scored, HashesDiffer(s)
  PROVE  LET t == Kept(s, x)
         IN  /\ t \in Seq(Scored) /\ HashesDiffer(t)
             /\ NodesOf(t) \subseteq NodesOf(s) \cup {x.node}
             /\ Hashes(NodesOf(t)) = Hashes(NodesOf(s)) \cup {Hash(x.node)}
<1> DEFINE at == WithHash(s, x.node)
<1>1. CASE at # {} /\ Score(s, at) > x.score
  <2>1. Kept(s, x) = s
    BY <1>1 DEF Kept
  <2>2. PICK i \in DOMAIN s : Hash(s[i].node) = Hash(x.node)
    BY <1>1 DEF WithHash
  <2>3. s[i].node \in NodesOf(s)
    BY NodesAreNodes
  <2>4. Hash(x.node) \in Hashes(NodesOf(s))
    BY <2>2, <2>3 DEF Hashes
  <2> QED
    BY <2>1, <2>4
<1>2. CASE ~ (at # {} /\ Score(s, at) > x.score)
  <2>1. Kept(s, x) = Put(s, at, x)
    BY <1>2 DEF Kept
  <2> HIDE DEF at
  <2> QED
    BY <2>1, PutByHash DEF at
<1> QED
  BY <1>1, <1>2

(* reciprocal_rerank_fusion, one hit.                                      *)
LEMMA CountedByHash ==
  ASSUME NEW s \in Seq(Scored), NEW x \in Scored, HashesDiffer(s)
  PROVE  LET t == Counted(s, x)
         IN  /\ t \in Seq(Scored) /\ HashesDiffer(t)
             /\ NodesOf(t) \subseteq NodesOf(s) \cup {x.node}
             /\ Hashes(NodesOf(t)) = Hashes(NodesOf(s)) \cup {Hash(x.node)}
<1> DEFINE at == WithHash(s, x.node)
           y == [node |-> x.node, score |-> Score(s, at) + x.score]
<1>1. Score(s, at) \in Int
  <2>1. at \subseteq DOMAIN s
    BY DEF WithHash
  <2> HIDE DEF at
  <2>2. \A i \in at : s[i].score \in Int
    BY <2>1, NodesAreNodes DEF Scored
  <2> QED
    BY <2>2 DEF Score
<1>2. y \in Scored /\ y.node = x.node
  BY <1>1 DEF Scored
<1>3. Counted(s, x) = Put(s, WithHash(s, y.node), y)
  BY <1>2 DEF Counted
<1> HIDE DEF y
<1>4. /\ Put(s, WithHash(s, y.node), y) \in Seq(Scored)
      /\ HashesDiffer(Put(s, WithHash(s, y.node), y))
      /\ NodesOf(Put(s, WithHash(s, y.node), y)) \subseteq NodesOf(s) \cup {y.node}
      /\ Hashes(NodesOf(Put(s, WithHash(s, y.node), y)))
           = Hashes(NodesOf(s)) \cup {Hash(y.node)}
  BY <1>2, PutByHash
<1> QED
  BY <1>2, <1>3, <1>4

-----------------------------------------------------------------------------
(***************************************************************************)
(* The lists.  What the loop has made and what it has still to take are    *)
(* together always the same nodes: those the hits bring with them; or,     *)
(* where a node may take another one's place, nodes with the same texts.   *)
(***************************************************************************)
Steps == {"new", "failed", "nothing", "found", "counting", "fused", "reranked",
          "extending", "arranging", "deduping", "merging", "joining", "answered"}

Nearby(S) == UNION {Neighbourhood(n) : n \in S}

Held(s) == s \in Seq(Scored) /\ NodesOf(s) \subseteq stored

ListsTyped ==
  /\ stored \in Docstores
  /\ pc \in Steps
  /\ hits \in Results \X Results
  /\ pc = "found" => Found \subseteq stored
  /\ Held(todo) /\ Held(list) /\ Held(fused)

ListsDiffer ==
  /\ IdsDiffer(list) /\ IdsDiffer(fused)
  /\ pc \in {"new", "found", "fused", "reranked"} => list = <<>>
  /\ pc \in {"counting", "deduping"} => HashesDiffer(list)
  /\ pc = "arranging" => IdsDiffer(todo) /\ NodesOf(list) \cap NodesOf(todo) = {}

NothingLost ==
  /\ pc = "counting" => Hashes(NodesOf(list) \cup NodesOf(todo)) = Hashes(Found)
  /\ pc \in {"fused", "reranked"} => Hashes(NodesOf(fused)) = Hashes(Found)
  /\ pc = "extending" => NodesOf(list) \cup Nearby(NodesOf(todo)) = Nearby(NodesOf(fused))
  /\ pc = "arranging" => NodesOf(list) \cup NodesOf(todo) = Nearby(NodesOf(fused))
  /\ pc = "deduping" => Hashes(NodesOf(fused)) \subseteq Hashes(NodesOf(list) \cup NodesOf(todo))
  /\ pc \in {"merging", "joining", "answered"} => Hashes(NodesOf(fused)) \subseteq Hashes(kept)

ListsInv == ListsTyped /\ ListsDiffer /\ NothingLost

LEMMA StoredNodes == ListsTyped => stored \subseteq Node
  BY StoresAssumption DEF ListsTyped

LEMMA EmptyResult == <<>> \in Results
<1>1. <<>> \in [1 .. 0 -> Node] /\ 0 \in 0 .. TopK
  BY SizesAssumption
<1>2. IsInjective(<<>>)
  BY DEF IsInjective
<1> QED
  BY <1>1, <1>2 DEF Results

LEMMA ListsInit == Init => ListsInv
  BY EmptyResult, EmptyList
     DEF Init, ListsInv, ListsTyped, ListsDiffer, NothingLost, Held, Steps

(* Both fusions make a list of the hits.                                   *)
LEMMA HitsAreFinite ==
  ASSUME NEW s \in Results
  PROVE  IsFiniteSet(Range(s)) /\ Range(s) \subseteq Node /\ s \in Seq(Node)
<1>1. PICK k \in 0 .. TopK : s \in [1 .. k -> Node]
  BY DEF Results
<1>2. k \in Nat
  BY SizesAssumption
<1>3. IsFiniteSet(1 .. k)
  BY <1>2, FS_Interval
<1>4. s \in Surjection(1 .. k, Range(s))
  BY <1>1 DEF Surjection, Range
<1>5. IsFiniteSet(Range(s))
  BY <1>3, <1>4, FS_Surjection
<1>6. Range(s) \subseteq Node
  BY <1>1 DEF Range
<1> QED
  BY <1>1, <1>2, <1>5, <1>6

(* Each rank has its share of Unit, which gets smaller with the rank.      *)
LEMMA Shares ==
  ASSUME NEW r \in 1 .. TopK
  PROVE  /\ Reciprocal(r) \in Nat /\ Reciprocal(r) * (59 + r) = Unit
         /\ Unit \in Nat \ {0} /\ TopK \in Nat
<1>1. /\ Unit \in Nat \ {0} /\ TopK \in Nat /\ Unit % (59 + r) = 0
      /\ r \in Nat /\ 59 + r \in Nat \ {0}
  BY SizesAssumption, UnitAssumption
<1>2. \A u \in Nat, k \in Nat \ {0} : u % k = 0 => u \div k \in Nat /\ (u \div k) * k = u
  OBVIOUS
<1> QED
  BY <1>1, <1>2 DEF Reciprocal

LEMMA RankedHits ==
  ASSUME NEW s \in Results
  PROVE  /\ Ranked(s) \in Seq(Scored) /\ NodesOf(Ranked(s)) = Range(s)
         /\ Len(Ranked(s)) = Len(s) /\ Len(s) \in 0 .. TopK /\ DOMAIN s = 1 .. Len(s)
         /\ \A r \in 1 .. Len(s) : Ranked(s)[r] = [node |-> s[r], score |-> Reciprocal(r)]
<1>1. s \in Seq(Node)
  BY HitsAreFinite
<1>2. DOMAIN s = 1 .. Len(s) /\ Len(s) \in Nat /\ \A r \in 1 .. Len(s) : s[r] \in Node
  BY <1>1, LenProperties, ElementOfSeq
<1>3. Len(s) \in 0 .. TopK
  <2>1. PICK k \in 0 .. TopK : s \in [1 .. k -> Node]
    BY DEF Results
  <2>2. k \in Nat /\ DOMAIN s = 1 .. k
    BY <2>1, SizesAssumption
  <2>3. \A i \in Nat : i \in 1 .. k <=> i \in 1 .. Len(s)
    BY <1>2, <2>2
  <2>4. Len(s) = k
    <3>1. k <= Len(s)
      BY <1>2, <2>2, <2>3
    <3>2. Len(s) <= k
      BY <1>2, <2>2, <2>3
    <3>3. Len(s) \in Int /\ k \in Int
      BY <1>2, <2>2
    <3> QED
      BY <3>1, <3>2, <3>3
  <2> QED
    BY <2>4
<1>4. \A r \in 1 .. Len(s) : Reciprocal(r) \in Int
  <2>1. \A r \in 1 .. Len(s) : r \in 1 .. TopK
    BY <1>2, <1>3, SizesAssumption
  <2> QED
    BY <2>1, Shares
<1>5. \A r \in 1 .. Len(s) : [node |-> s[r], score |-> Reciprocal(r)] \in Scored
  BY <1>2, <1>4 DEF Scored
<1>6. Ranked(s) = [r \in 1 .. Len(s) |-> [node |-> s[r], score |-> Reciprocal(r)]]
  BY <1>2 DEF Ranked
<1>7. Ranked(s) \in Seq(Scored) /\ Len(Ranked(s)) = Len(s)
  BY <1>2, <1>5, <1>6
<1>8. NodesOf(Ranked(s)) = Range(s)
  BY <1>2, <1>6 DEF NodesOf, Range
<1> QED
  BY <1>2, <1>3, <1>6, <1>7, <1>8

LEMMA SearchStep == ListsInv /\ Search => ListsInv'
<1> SUFFICES ASSUME ListsInv, Search
             PROVE  ListsInv'
  OBVIOUS
<1> USE DEF Found
<1>1. PICK es \in Results, qdrant \in Results :
        /\ hits' = <<es, qdrant>>
        /\ pc' = CASE ~ (Range(es) \cup Range(qdrant) \subseteq stored) -> "failed"
                   [] es = <<>> /\ qdrant = <<>> -> "nothing"
                   [] OTHER -> "found"
  BY DEF Search
<1>2. pc = "new" /\ stored' = stored /\ todo' = todo /\ list' = list /\ fused' = fused
  BY DEF Search
<1>3. pc' \in {"failed", "nothing", "found"}
  BY <1>1
<1>4. pc' = "found" => Found' \subseteq stored'
  BY <1>1, <1>2
<1>5. ListsTyped'
  BY <1>1, <1>2, <1>3, <1>4 DEF ListsInv, ListsTyped, Held, Steps
<1>6. ListsDiffer' /\ NothingLost'
  BY <1>2, <1>3 DEF ListsInv, ListsDiffer, NothingLost
<1> QED
  BY <1>5, <1>6 DEF ListsInv

LEMMA FuseByRankStep == ListsInv /\ FuseByRank => ListsInv'
<1> SUFFICES ASSUME ListsInv, FuseByRank
             PROVE  ListsInv'
  OBVIOUS
<1>1. /\ pc = "found" /\ pc' = "counting"
      /\ todo' = Ranked(hits[1]) \o Ranked(hits[2])
      /\ stored' = stored /\ hits' = hits /\ list' = list /\ fused' = fused
  BY DEF FuseByRank
<1>2. /\ hits[1] \in Results /\ hits[2] \in Results
      /\ Found \subseteq stored
      /\ list = <<>>
  BY <1>1 DEF ListsInv, ListsTyped, ListsDiffer
<1>3. /\ todo' \in Seq(Scored)
      /\ NodesOf(todo') = Found
  BY <1>1, <1>2, RankedHits, Joined DEF Found
<1>4. ListsTyped'
  BY <1>1, <1>2, <1>3 DEF ListsInv, ListsTyped, Held, Steps
<1>5. ListsDiffer'
  BY <1>1, <1>2, EmptyList DEF ListsInv, ListsDiffer
<1>6. NothingLost'
  BY <1>1, <1>2, <1>3, EmptyList DEF NothingLost, Found, Hashes
<1> QED
  BY <1>4, <1>5, <1>6 DEF ListsInv

(* Taking the head of todo leaves nodes of the docstore on both sides.     *)
LEMMA TakenHeld ==
  ASSUME Held(todo), todo # <<>>
  PROVE  /\ Head(todo) \in Scored /\ Head(todo).node \in stored /\ Held(Tail(todo))
         /\ NodesOf(todo) = {Head(todo).node} \cup NodesOf(Tail(todo))
  BY Taken DEF Held

LEMMA HashesOfUnion ==
  ASSUME NEW S, NEW T
  PROVE  Hashes(S \cup T) = Hashes(S) \cup Hashes(T)
  BY DEF Hashes

(* What the head adds to the one side is no longer on the other.           *)
LEMMA HashesMove ==
  ASSUME NEW s \in Seq(Scored), s # <<>>, NEW A, NEW B,
         Hashes(B) = Hashes(A) \cup {Hash(Head(s).node)}
  PROVE  Hashes(A \cup NodesOf(s)) = Hashes(B \cup NodesOf(Tail(s)))
<1>1. NodesOf(s) = {Head(s).node} \cup NodesOf(Tail(s))
  BY Taken
<1>2. Hashes(NodesOf(s)) = {Hash(Head(s).node)} \cup Hashes(NodesOf(Tail(s)))
  BY <1>1 DEF Hashes
<1>3. Hashes(A \cup NodesOf(s)) = Hashes(A) \cup Hashes(NodesOf(s))
  BY HashesOfUnion
<1>4. Hashes(B \cup NodesOf(Tail(s))) = Hashes(B) \cup Hashes(NodesOf(Tail(s)))
  BY HashesOfUnion
<1> QED
  BY <1>2, <1>3, <1>4

LEMMA CountStep == ListsInv /\ Count => ListsInv'
<1> SUFFICES ASSUME ListsInv, Count
             PROVE  ListsInv'
  OBVIOUS
<1>1. /\ pc = "counting" /\ todo # <<>> /\ pc' = pc
      /\ list' = Counted(list, Head(todo)) /\ todo' = Tail(todo)
      /\ stored' = stored /\ hits' = hits /\ fused' = fused
  BY DEF Count
<1>2. Held(todo) /\ Held(list) /\ HashesDiffer(list)
  BY <1>1 DEF ListsInv, ListsTyped, ListsDiffer
<1>3. /\ Head(todo) \in Scored /\ Head(todo).node \in stored /\ Held(Tail(todo))
      /\ NodesOf(todo) = {Head(todo).node} \cup NodesOf(Tail(todo))
  BY <1>1, <1>2, TakenHeld
<1>4. /\ list' \in Seq(Scored) /\ HashesDiffer(list')
      /\ NodesOf(list') \subseteq NodesOf(list) \cup {Head(todo).node}
      /\ Hashes(NodesOf(list')) = Hashes(NodesOf(list)) \cup {Hash(Head(todo).node)}
  BY <1>1, <1>2, <1>3, CountedByHash DEF Held
<1>5. ListsTyped'
  BY <1>1, <1>2, <1>3, <1>4 DEF ListsInv, ListsTyped, Held, Steps
<1>6. ListsDiffer'
  BY <1>1, <1>4, HashesAreIds DEF ListsInv, ListsDiffer
<1>7. Hashes(NodesOf(list) \cup NodesOf(todo)) = Hashes(NodesOf(list') \cup NodesOf(Tail(todo)))
  BY <1>1, <1>2, <1>4, HashesMove DEF Held
<1>8. NothingLost'
  BY <1>1, <1>7 DEF ListsInv, NothingLost, Found, Hashes
<1> QED
  BY <1>5, <1>6, <1>8 DEF ListsInv

LEMMA SortByScoreStep == ListsInv /\ SortByScore => ListsInv'
<1> SUFFICES ASSUME ListsInv, SortByScore
             PROVE  ListsInv'
  OBVIOUS
<1>1. PICK p \in Bijection(DOMAIN list, DOMAIN list) :
        fused' = [i \in DOMAIN list |-> list[p[i]]]
  BY DEF SortByScore
<1>2. /\ pc = "counting" /\ todo = <<>> /\ pc' = "fused"
      /\ list' = <<>> /\ stored' = stored /\ hits' = hits /\ todo' = todo
  BY DEF SortByScore
<1>3. Held(list) /\ IdsDiffer(list)
  BY DEF ListsInv, ListsTyped, ListsDiffer
<1>4. /\ p \in [DOMAIN list -> DOMAIN list]
      /\ \A i, j \in DOMAIN list : p[i] = p[j] => i = j
      /\ \A j \in DOMAIN list : \E i \in DOMAIN list : p[i] = j
  BY <1>1 DEF Bijection, Injection, Surjection, IsInjective
<1>5. DOMAIN list = 1 .. Len(list) /\ Len(list) \in Nat /\ \A i \in DOMAIN list : list[i] \in Scored
  BY <1>3, LenProperties, ElementOfSeq DEF Held
<1>6. fused' \in Seq(Scored)
  <2>1. \A i \in 1 .. Len(list) : list[p[i]] \in Scored
    BY <1>4, <1>5
  <2>2. fused' = [i \in 1 .. Len(list) |-> list[p[i]]]
    BY <1>1, <1>5
  <2> QED
    BY <1>5, <2>1, <2>2
<1>7. NodesOf(fused') = NodesOf(list)
  BY <1>1, <1>4 DEF NodesOf
<1>8. IdsDiffer(fused')
  BY <1>1, <1>3, <1>4 DEF IdsDiffer
<1>9. ListsTyped'
  BY <1>2, <1>3, <1>6, <1>7, EmptyList DEF ListsInv, ListsTyped, Held, Steps
<1>10. ListsDiffer'
  BY <1>2, <1>8, EmptyList DEF ListsInv, ListsDiffer
<1>11. Hashes(NodesOf(fused')) = Hashes(Found)
  <2>1. NodesOf(list) \cup NodesOf(todo) = NodesOf(fused')
    BY <1>2, <1>7, EmptyList
  <2> QED
    BY <1>2, <2>1 DEF ListsInv, NothingLost
<1>12. NothingLost'
  BY <1>2, <1>11 DEF NothingLost, Found, Hashes
<1> QED
  BY <1>9, <1>10, <1>12 DEF ListsInv

LEMMA FuseByModelStep == ListsInv /\ FuseByModel => ListsInv'
<1> SUFFICES ASSUME ListsInv, FuseByModel
             PROVE  ListsInv'
  OBVIOUS
<1>1. PICK chosen \in SUBSET Found :
        /\ Hashes(chosen) = Hashes(Found)
        /\ \E order \in SetToSeqs(chosen), top \in 0 .. Cardinality(chosen) :
             fused' = [i \in DOMAIN order |-> [node |-> order[i], score |-> top - i]]
  BY DEF FuseByModel
<1>2. PICK order \in SetToSeqs(chosen), top \in 0 .. Cardinality(chosen) :
        fused' = [i \in DOMAIN order |-> [node |-> order[i], score |-> top - i]]
  BY <1>1
<1>3. /\ pc = "found" /\ pc' = "reranked"
      /\ stored' = stored /\ hits' = hits /\ todo' = todo /\ list' = list
  BY DEF FuseByModel
<1>4. /\ hits[1] \in Results /\ hits[2] \in Results
      /\ Found \subseteq stored /\ list = <<>>
  BY <1>3 DEF ListsInv, ListsTyped, ListsDiffer
<1>5. chosen \subseteq stored /\ chosen \subseteq Node /\ Cardinality(chosen) \in Nat
      /\ IsFiniteSet(chosen)
  <2>1. IsFiniteSet(Found) /\ Found \subseteq Node
    BY <1>4, HitsAreFinite, FS_Union DEF Found
  <2>2. IsFiniteSet(chosen)
    BY <2>1, FS_Subset
  <2> QED
    BY <1>4, <2>1, <2>2, FS_CardinalityType
<1>6. /\ order \in [1 .. Cardinality(chosen) -> chosen]
      /\ \A i, j \in 1 .. Cardinality(chosen) : i # j => order[i] # order[j]
  BY DEF SetToSeqs
<1>7. fused' = [i \in 1 .. Cardinality(chosen) |-> [node |-> order[i], score |-> top - i]]
  BY <1>2, <1>6
<1>8. \A i \in 1 .. Cardinality(chosen) : [node |-> order[i], score |-> top - i] \in Scored
  BY <1>5, <1>6 DEF Scored
<1>9. fused' \in Seq(Scored)
  BY <1>5, <1>7, <1>8
<1>10. NodesOf(fused') = chosen
  <2>1. order \in Injection(1 .. Cardinality(chosen), chosen)
    BY <1>6 DEF Injection, IsInjective
  <2>2. IsFiniteSet(1 .. Cardinality(chosen)) /\ Cardinality(1 .. Cardinality(chosen)) = Cardinality(chosen)
    BY <1>5, FS_Interval
  <2>3. order \in Surjection(1 .. Cardinality(chosen), chosen)
    BY <1>5, <2>1, <2>2, FS_Injection
  <2>4. \A n \in chosen : \E i \in 1 .. Cardinality(chosen) : order[i] = n
    BY <2>3 DEF Surjection
  <2> QED
    BY <1>6, <1>7, <2>4 DEF NodesOf
<1>11. IdsDiffer(fused')
  BY <1>6, <1>7 DEF IdsDiffer
<1>12. ListsTyped'
  BY <1>3, <1>5, <1>9, <1>10 DEF ListsInv, ListsTyped, Held, Steps
<1>13. ListsDiffer'
  BY <1>3, <1>4, <1>11 DEF ListsInv, ListsDiffer
<1>14. NothingLost'
  BY <1>1, <1>3, <1>10 DEF NothingLost, Found, Hashes
<1> QED
  BY <1>12, <1>13, <1>14 DEF ListsInv

LEMMA ExtendStep == ListsInv /\ Extend => ListsInv'
<1> SUFFICES ASSUME ListsInv, Extend
             PROVE  ListsInv'
  OBVIOUS
<1>1. /\ pc \in {"fused", "reranked"} /\ pc' = "extending"
      /\ todo' = fused /\ hits' = <<<<>>, <<>>>>
      /\ stored' = stored /\ list' = list /\ fused' = fused
  BY DEF Extend
<1>2. Held(fused) /\ list = <<>> /\ IdsDiffer(fused)
  BY <1>1 DEF ListsInv, ListsTyped, ListsDiffer
<1>3. <<>> \in Results
  BY EmptyResult
<1>4. ListsTyped'
  BY <1>1, <1>2, <1>3, EmptyList DEF ListsInv, ListsTyped, Held, Steps
<1>5. ListsDiffer'
  BY <1>1, <1>2 DEF ListsInv, ListsDiffer
<1>6. NothingLost'
  BY <1>1, <1>2, EmptyList DEF NothingLost
<1> QED
  BY <1>4, <1>5, <1>6 DEF ListsInv

(* What the head's neighbourhood adds is no longer to be expected of todo. *)
LEMMA FetchNeighboursStep == ListsInv /\ FetchNeighbours => ListsInv'
<1> SUFFICES ASSUME ListsInv, FetchNeighbours
             PROVE  ListsInv'
  OBVIOUS
<1> DEFINE x == Head(todo)
           s == Set(list, x)
<1>1. /\ pc = "extending" /\ todo # <<>> /\ pc' = pc
      /\ list' = WithPrev(WithNext(s, x.node), x.node) /\ todo' = Tail(todo)
      /\ stored' = stored /\ hits' = hits /\ fused' = fused
  BY DEF FetchNeighbours
<1>2. Held(todo) /\ Held(list) /\ IdsDiffer(list) /\ stored \subseteq Node
  BY StoredNodes DEF ListsInv, ListsTyped, ListsDiffer
<1>3. /\ x \in Scored /\ x.node \in stored /\ Held(Tail(todo))
      /\ NodesOf(todo) = {x.node} \cup NodesOf(Tail(todo))
  BY <1>1, <1>2, TakenHeld
<1> HIDE DEF x
<1>4. /\ s \in Seq(Scored) /\ IdsDiffer(s)
      /\ NodesOf(s) = NodesOf(list) \cup {x.node}
  BY <1>2, <1>3, SetById DEF Held
<1> HIDE DEF s
<1>5. /\ list' \in Seq(Scored) /\ IdsDiffer(list')
      /\ NodesOf(list') = NodesOf(s) \cup Neighbourhood(x.node)
  BY <1>1, <1>2, <1>3, <1>4, BothNeighbours
<1>6. x.node \in Neighbourhood(x.node) /\ Neighbourhood(x.node) \subseteq stored
  BY <1>2, <1>3, NodePairs DEF Neighbourhood
<1>7. NodesOf(list') = NodesOf(list) \cup Neighbourhood(x.node)
  BY <1>4, <1>5, <1>6
<1>8. ListsTyped'
  BY <1>1, <1>2, <1>3, <1>5, <1>6, <1>7 DEF ListsInv, ListsTyped, Held, Steps
<1>9. ListsDiffer'
  BY <1>1, <1>5 DEF ListsInv, ListsDiffer
<1>10. Nearby(NodesOf(todo)) = Neighbourhood(x.node) \cup Nearby(NodesOf(Tail(todo)))
  BY <1>3 DEF Nearby
<1>11. NodesOf(list') \cup Nearby(NodesOf(Tail(todo))) = Nearby(NodesOf(fused))
  BY <1>1, <1>7, <1>10 DEF ListsInv, NothingLost
<1>12. /\ Nearby(NodesOf(todo))' = Nearby(NodesOf(Tail(todo)))
       /\ Nearby(NodesOf(fused))' = Nearby(NodesOf(fused))
  BY <1>1 DEF Nearby, Neighbourhood
<1>13. NothingLost'
  BY <1>1, <1>11, <1>12 DEF NothingLost
<1> QED
  BY <1>8, <1>9, <1>13 DEF ListsInv

LEMMA ArrangeStep == ListsInv /\ Arrange => ListsInv'
<1> SUFFICES ASSUME ListsInv, Arrange
             PROVE  ListsInv'
  OBVIOUS
<1>1. /\ pc = "extending" /\ todo = <<>> /\ pc' = "arranging"
      /\ todo' = list /\ list' = <<>>
      /\ stored' = stored /\ hits' = hits /\ fused' = fused
  BY DEF Arrange
<1>2. ListsTyped'
  BY <1>1, EmptyList DEF ListsInv, ListsTyped, Held, Steps
<1>3. ListsDiffer'
  BY <1>1, EmptyList DEF ListsInv, ListsDiffer
<1>4. NodesOf(list) \cup Nearby({}) = Nearby(NodesOf(fused)) /\ Nearby({}) = {}
  BY <1>1, EmptyList DEF ListsInv, NothingLost, Nearby
<1>5. Nearby(NodesOf(fused))' = Nearby(NodesOf(fused))
  BY <1>1 DEF Nearby, Neighbourhood
<1>6. NothingLost'
  BY <1>1, <1>4, <1>5, EmptyList DEF NothingLost
<1> QED
  BY <1>2, <1>3, <1>6 DEF ListsInv

(* Wherever the node is put, the list has it and what it had.              *)
LEMMA PlaceStep == ListsInv /\ Place => ListsInv'
<1> SUFFICES ASSUME ListsInv, Place
             PROVE  ListsInv'
  OBVIOUS
<1> DEFINE x == Head(todo)
           before == {i \in DOMAIN list : HasPrev(list[i].node) /\ Prev(list[i].node) = x.node}
           behind == {i \in DOMAIN list : HasNext(list[i].node) /\ NextOf(list[i].node) = x.node}
<1>1. /\ pc = "arranging" /\ todo # <<>> /\ pc' = pc
      /\ todo' = Tail(todo)
      /\ stored' = stored /\ hits' = hits /\ fused' = fused
  BY DEF Place
<1>2. \/ list' = Append(list, x)
      \/ \E i \in before \cup behind :
           list' = InsertAt(list, IF i \in before THEN i ELSE i + 1, x)
  BY DEF Place
<1>3. /\ Held(todo) /\ Held(list) /\ IdsDiffer(list) /\ IdsDiffer(todo)
      /\ NodesOf(list) \cap NodesOf(todo) = {}
  BY <1>1 DEF ListsInv, ListsTyped, ListsDiffer
<1>4. /\ x \in Scored /\ x.node \in stored /\ Held(Tail(todo))
      /\ NodesOf(todo) = {x.node} \cup NodesOf(Tail(todo))
      /\ IdsDiffer(Tail(todo)) /\ x.node \notin NodesOf(Tail(todo))
  BY <1>1, <1>3, TakenHeld, Taken DEF Held
<1>5. DOMAIN list = 1 .. Len(list) /\ Len(list) \in Nat
  BY <1>3, LenProperties DEF Held
<1>6. before \cup behind \subseteq DOMAIN list
  OBVIOUS
<1> HIDE DEF x, before, behind
<1>7. \/ list' = Append(list, x)
      \/ \E k \in 1 .. Len(list) + 1 : list' = InsertAt(list, k, x)
  BY <1>2, <1>5, <1>6
<1>8. \/ list' = InsertAt(list, Len(list) + 1, x)
      \/ \E k \in 1 .. Len(list) + 1 : list' = InsertAt(list, k, x)
  <2>1. Append(list, x) = InsertAt(list, Len(list) + 1, x)
    <3>1. SubSeq(list, 1, Len(list)) = list
      BY <1>3, SubSeqFull DEF Held
    <3>2. SubSeq(list, Len(list) + 1, Len(list)) = <<>>
      BY <1>5, SubSeqEmpty
    <3>3. /\ Append(list, x) \in Seq(Scored)
          /\ Append(list, x) = list \o <<x>>
      BY <1>3, <1>4, AppendProperties, AppendIsConcat DEF Held
    <3>4. Append(list, x) \o <<>> = Append(list, x)
      BY <3>3, ConcatEmptySeq
    <3>5. Len(list) + 1 - 1 = Len(list)
      BY <1>5
    <3> QED
      BY <3>1, <3>2, <3>3, <3>4, <3>5 DEF InsertAt
  <2> QED
    BY <1>7, <2>1
<1>9. PICK k \in 1 .. Len(list) + 1 : list' = InsertAt(list, k, x)
  BY <1>5, <1>8
<1>10. x.node \notin NodesOf(list)
  BY <1>3, <1>4
<1>11. /\ list' \in Seq(Scored) /\ IdsDiffer(list')
       /\ NodesOf(list') = NodesOf(list) \cup {x.node}
  BY <1>3, <1>4, <1>9, <1>10, Inserted DEF Held
<1>12. ListsTyped'
  BY <1>1, <1>3, <1>4, <1>11 DEF ListsInv, ListsTyped, Held, Steps, x
<1>13. ListsDiffer'
  BY <1>1, <1>3, <1>4, <1>11 DEF ListsInv, ListsDiffer, x
<1>14. NodesOf(list') \cup NodesOf(Tail(todo)) = Nearby(NodesOf(fused))
  BY <1>1, <1>4, <1>11 DEF ListsInv, NothingLost
<1>15. Nearby(NodesOf(fused))' = Nearby(NodesOf(fused))
  BY <1>1 DEF Nearby, Neighbourhood
<1>16. NothingLost'
  BY <1>1, <1>14, <1>15 DEF NothingLost
<1> QED
  BY <1>12, <1>13, <1>16 DEF ListsInv

(* A hit is one of its own neighbours, so that no hit's text is missing.   *)
LEMMA DeduplicateStep == ListsInv /\ Deduplicate => ListsInv'
<1> SUFFICES ASSUME ListsInv, Deduplicate
             PROVE  ListsInv'
  OBVIOUS
<1>1. /\ pc = "arranging" /\ todo = <<>> /\ pc' = "deduping"
      /\ todo' = list /\ list' = <<>>
      /\ stored' = stored /\ hits' = hits /\ fused' = fused
  BY DEF Deduplicate
<1>2. ListsTyped'
  BY <1>1, EmptyList DEF ListsInv, ListsTyped, Held, Steps
<1>3. ListsDiffer'
  BY <1>1, EmptyList DEF ListsInv, ListsDiffer
<1>4. NodesOf(list) = Nearby(NodesOf(fused))
  BY <1>1, EmptyList DEF ListsInv, NothingLost
<1>5. NodesOf(fused) \subseteq stored /\ stored \subseteq Node
  BY StoredNodes DEF ListsInv, ListsTyped, Held
<1>6. \A n \in NodesOf(fused) : n \in Neighbourhood(n)
  BY <1>5, NodePairs DEF Neighbourhood
<1>7. NodesOf(fused) \subseteq NodesOf(list)
  BY <1>4, <1>6 DEF Nearby
<1>8. NothingLost'
  BY <1>1, <1>7, EmptyList DEF NothingLost, Hashes
<1> QED
  BY <1>2, <1>3, <1>8 DEF ListsInv

LEMMA KeepStep == ListsInv /\ Keep => ListsInv'
<1> SUFFICES ASSUME ListsInv, Keep
             PROVE  ListsInv'
  OBVIOUS
<1>1. /\ pc = "deduping" /\ todo # <<>> /\ pc' = pc
      /\ list' = Kept(list, Head(todo)) /\ todo' = Tail(todo)
      /\ stored' = stored /\ hits' = hits /\ fused' = fused
  BY DEF Keep
<1>2. Held(todo) /\ Held(list) /\ HashesDiffer(list)
  BY <1>1 DEF ListsInv, ListsTyped, ListsDiffer
<1>3. /\ Head(todo) \in Scored /\ Head(todo).node \in stored /\ Held(Tail(todo))
      /\ NodesOf(todo) = {Head(todo).node} \cup NodesOf(Tail(todo))
  BY <1>1, <1>2, TakenHeld
<1>4. /\ list' \in Seq(Scored) /\ HashesDiffer(list')
      /\ NodesOf(list') \subseteq NodesOf(list) \cup {Head(todo).node}
      /\ Hashes(NodesOf(list')) = Hashes(NodesOf(list)) \cup {Hash(Head(todo).node)}
  BY <1>1, <1>2, <1>3, KeptByHash DEF Held
<1>5. ListsTyped'
  BY <1>1, <1>2, <1>3, <1>4 DEF ListsInv, ListsTyped, Held, Steps
<1>6. ListsDiffer'
  BY <1>1, <1>4, HashesAreIds DEF ListsInv, ListsDiffer
<1>8. Hashes(NodesOf(list) \cup NodesOf(todo)) = Hashes(NodesOf(list') \cup NodesOf(Tail(todo)))
  BY <1>1, <1>2, <1>4, HashesMove DEF Held
<1>9. Hashes(NodesOf(fused)) \subseteq Hashes(NodesOf(list') \cup NodesOf(Tail(todo)))
  BY <1>1, <1>8 DEF ListsInv, NothingLost
<1>10. NothingLost'
  BY <1>1, <1>9 DEF NothingLost, Hashes
<1> QED
  BY <1>5, <1>6, <1>10 DEF ListsInv

LEMMA StartMergeStep == ListsInv /\ StartMerge => ListsInv'
<1> SUFFICES ASSUME ListsInv, StartMerge
             PROVE  ListsInv'
  OBVIOUS
<1>1. /\ pc = "deduping" /\ todo = <<>> /\ pc' \in {"answered", "merging"}
      /\ kept' = NodesOf(list) /\ todo' = todo /\ list' = <<>>
      /\ stored' = stored /\ hits' = hits /\ fused' = fused
  BY DEF StartMerge
<1>2. ListsTyped'
  BY <1>1, EmptyList DEF ListsInv, ListsTyped, Held, Steps
<1>3. ListsDiffer'
  BY <1>1, EmptyList DEF ListsInv, ListsDiffer
<1>4. Hashes(NodesOf(fused)) \subseteq Hashes(kept')
  <2>1. Hashes(NodesOf(fused)) \subseteq Hashes(NodesOf(list) \cup {})
    BY <1>1, EmptyList DEF ListsInv, NothingLost
  <2> QED
    BY <1>1, <2>1 DEF Hashes
<1>5. NothingLost'
  BY <1>1, <1>4 DEF NothingLost, Hashes
<1> QED
  BY <1>2, <1>3, <1>5 DEF ListsInv

(* The merge leaves the lists alone.                                       *)
LEMMA MergeKeepsLists == ListsInv /\ (Pop \/ JoinPrev \/ JoinNext \/ Emit) => ListsInv'
<1> SUFFICES ASSUME ListsInv, Pop \/ JoinPrev \/ JoinNext \/ Emit
             PROVE  ListsInv'
  OBVIOUS
<1>1. /\ pc \in {"merging", "joining"} /\ pc' \in {"merging", "joining", "answered"}
      /\ kept' = kept /\ todo' = todo /\ list' = list
      /\ stored' = stored /\ hits' = hits /\ fused' = fused
  BY DEF Pop, JoinPrev, JoinNext, Emit
<1>2. ListsTyped'
  BY <1>1 DEF ListsInv, ListsTyped, Held, Steps
<1>3. ListsDiffer' /\ NothingLost'
  BY <1>1 DEF ListsInv, ListsDiffer, NothingLost
<1> QED
  BY <1>2, <1>3 DEF ListsInv

LEMMA FailsStep == ListsInv /\ Fails => ListsInv'
<1> SUFFICES ASSUME ListsInv, Fails
             PROVE  ListsInv'
  OBVIOUS
<1>1. /\ pc' = "failed" /\ todo' = todo /\ list' = list
      /\ stored' = stored /\ hits' = hits /\ fused' = fused
  BY DEF Fails
<1> QED
  BY <1>1 DEF ListsInv, ListsTyped, ListsDiffer, NothingLost, Held, Steps

LEMMA AgainStep == ListsInv /\ Again => ListsInv'
<1> SUFFICES ASSUME ListsInv, Again
             PROVE  ListsInv'
  OBVIOUS
<1>1. /\ pc' = "new" /\ todo' = <<>> /\ list' = <<>> /\ fused' = <<>>
      /\ stored' = stored /\ hits' = <<<<>>, <<>>>>
  BY DEF Again
<1>2. <<>> \in Results
  BY EmptyResult
<1> QED
  BY <1>1, <1>2, EmptyList DEF ListsInv, ListsTyped, ListsDiffer, NothingLost, Held, Steps

LEMMA ListsStep == ListsInv /\ [Next]_vars => ListsInv'
<1> SUFFICES ASSUME ListsInv, [Next]_vars
             PROVE  ListsInv'
  OBVIOUS
<1>1. CASE UNCHANGED vars
  <2>1. /\ pc' = pc /\ todo' = todo /\ list' = list /\ kept' = kept
        /\ stored' = stored /\ hits' = hits /\ fused' = fused
    BY <1>1 DEF vars, merged
  <2>2. Nearby(NodesOf(todo))' = Nearby(NodesOf(todo)) /\ Nearby(NodesOf(fused))' = Nearby(NodesOf(fused))
    BY <2>1 DEF Nearby, Neighbourhood
  <2>3. Found' = Found
    BY <2>1 DEF Found
  <2>4. NothingLost'
    BY <2>1, <2>2, <2>3 DEF ListsInv, NothingLost, Hashes
  <2>5. ListsTyped'
    BY <2>1, <2>3 DEF ListsInv, ListsTyped, Held
  <2>6. ListsDiffer'
    BY <2>1 DEF ListsInv, ListsDiffer
  <2> QED
    BY <2>4, <2>5, <2>6 DEF ListsInv
<1>2. CASE Next
  BY <1>2, SearchStep, FuseByRankStep, CountStep, SortByScoreStep, FuseByModelStep,
     ExtendStep, FetchNeighboursStep, ArrangeStep, PlaceStep, DeduplicateStep, KeepStep,
     StartMergeStep, MergeKeepsLists, FailsStep, AgainStep DEF Next
<1> QED
  BY <1>1, <1>2

-----------------------------------------------------------------------------
(***************************************************************************)
(* The merge.  Each piece is a run of kept nodes of one document, finished *)
(* ones as long as they can be; every kept node is in one of them, in the  *)
(* piece being joined, or left.  A node beside the piece is therefore left *)
(* or in it: a finished piece that had it would not have stopped before    *)
(* the piece's own nodes.                                                  *)
(***************************************************************************)
Char == ({Section(n) : n \in Node} \X Int) \cup {"newline"}

IsRun(p) ==
  /\ p.first \in kept /\ p.last \in kept
  /\ p.first[1] = p.last[1] /\ p.first[2] <= p.last[2]
  /\ Nodes(p) \subseteq kept

Longest(p) ==
  /\ HasPrev(p.first) => Prev(p.first) \notin kept
  /\ HasNext(p.last) => NextOf(p.last) \notin kept

Pieces == [first : Node, last : Node, end : Int, text : Seq(Char)]

(* The part of a section from one offset to another.                       *)
Portion(sec, from, to) == [k \in 1 .. to - from |-> <<sec, from + k - 1>>]

Within(n, p) ==
  Section(n) = Section(p.first) /\ Start(p.first) <= Start(n) /\ End(n) <= End(p.last)

IsWhole(p) ==
  /\ p.end = End(p.last)
  /\ Seamless(p) => /\ End(p.first) <= End(p.last)
                    /\ p.text = Portion(Section(p.first), Start(p.first), End(p.last))
                    /\ \A n \in Nodes(p) : Within(n, p)

Emitted == UNION {Nodes(answer[i]) : i \in DOMAIN answer}
Current == IF pc = "joining" THEN Nodes(piece) ELSE {}

PiecesInv ==
  /\ answer \in Seq(Pieces)
  /\ pc = "joining" => piece \in Pieces /\ IsRun(piece) /\ IsWhole(piece)
  /\ pc # "joining" => piece = NoPiece
  /\ \A i \in DOMAIN answer :
       IsRun(answer[i]) /\ IsWhole(answer[i]) /\ Longest(answer[i])

PartitionInv ==
  /\ kept \subseteq stored
  /\ \A m, n \in kept : Hash(m) = Hash(n) => m = n
  /\ Emitted \cup Current \cup left = kept
  /\ Emitted \cap Current = {} /\ (Emitted \cup Current) \cap left = {}
  /\ \A i, j \in DOMAIN answer : i # j => Nodes(answer[i]) \cap Nodes(answer[j]) = {}
  /\ pc \notin {"merging", "joining", "answered"} => kept = {} /\ answer = <<>>
  /\ pc = "answered" => left = {}

MergeInv == PiecesInv /\ PartitionInv

LEMMA Offsets ==
  ASSUME NEW n \in Node
  PROVE  Start(n) \in Int /\ End(n) \in Int /\ Length(n) \in Nat /\ Start(n) <= End(n)
  BY NodesAssumption DEF End

LEMMA TextOfNode ==
  ASSUME NEW n \in Node
  PROVE  Text(n) \in Seq(Char) /\ Text(n) = Portion(Section(n), Start(n), End(n))
<1>1. Start(n) \in Int /\ Length(n) \in Nat /\ End(n) - Start(n) = Length(n)
  BY NodesAssumption DEF End
<1>2. Text(n) = [i \in 1 .. Length(n) |-> <<Section(n), Start(n) + i - 1>>]
  BY DEF Text
<1>3. \A i \in 1 .. Length(n) : <<Section(n), Start(n) + i - 1>> \in Char
  BY <1>1 DEF Char
<1>4. Text(n) \in Seq(Char)
  BY <1>1, <1>2, <1>3
<1>5. Text(n) = Portion(Section(n), Start(n), End(n))
  BY <1>1, <1>2 DEF Portion
<1> QED
  BY <1>4, <1>5

LEMMA RestOfText ==
  ASSUME NEW t \in Seq(Char), NEW k \in Int
  PROVE  From(t, k) \in Seq(Char)
<1> DEFINE skip == IF k >= 0 THEN k ELSE IF Len(t) + k < 0 THEN 0 ELSE Len(t) + k
<1>1. Len(t) \in Nat /\ \A i \in 1 .. Len(t) : t[i] \in Char
  BY LenProperties, ElementOfSeq
<1>2. skip \in Nat
  BY <1>1
<1> HIDE DEF skip
<1>3. skip + 1 \in Int /\ Len(t) \in Int /\ \A i \in skip + 1 .. Len(t) : t[i] \in Char
  BY <1>1, <1>2
<1>4. SubSeq(t, skip + 1, Len(t)) \in Seq(Char)
  BY <1>3, SubSeqProperties
<1> QED
  BY <1>4 DEF From, skip

(* Two parts that overlap make one, when the second is cut where the first *)
(* ends.                                                                   *)
LEMMA PortionsJoin ==
  ASSUME NEW sec, NEW a \in Int, NEW b \in Int, NEW c \in Int, NEW d \in Int,
         a <= b, c <= b, b <= d
  PROVE  Portion(sec, a, b) \o From(Portion(sec, c, d), b - c) = Portion(sec, a, d)
<1> DEFINE C == {sec} \X Int
           p == Portion(sec, a, b)
           q == Portion(sec, c, d)
           r == Portion(sec, a, d)
           e == SubSeq(q, b - c + 1, d - c)
<1>1. /\ p \in Seq(C) /\ Len(p) = b - a
      /\ \A k \in 1 .. b - a : p[k] = <<sec, a + k - 1>>
  BY DEF Portion
<1>2. /\ q \in Seq(C) /\ Len(q) = d - c
      /\ \A k \in 1 .. d - c : q[k] = <<sec, c + k - 1>>
  BY DEF Portion
<1>3. /\ r \in Seq(C) /\ Len(r) = d - a
      /\ \A k \in 1 .. d - a : r[k] = <<sec, a + k - 1>>
  BY DEF Portion
<1> HIDE DEF p, q, r
<1>4. /\ e \in Seq(C) /\ Len(e) = d - b
      /\ \A k \in 1 .. d - b : e[k] = <<sec, b + k - 1>>
  <2>1. \A k \in b - c + 1 .. d - c : q[k] \in C
    BY <1>2
  <2> HIDE DEF C
  <2>2. /\ e \in Seq(C)
        /\ Len(e) = IF b - c + 1 <= d - c THEN d - c - (b - c + 1) + 1 ELSE 0
        /\ \A k \in 1 .. d - c - (b - c + 1) + 1 : e[k] = q[b - c + 1 + k - 1]
    <3>1. b - c + 1 \in Int /\ d - c \in Int
      OBVIOUS
    <3> QED
      BY <2>1, <3>1, SubSeqProperties
  <2> HIDE DEF e
  <2>3. Len(e) = d - b
    BY <2>2
  <2>4. ASSUME NEW k \in 1 .. d - b
        PROVE  e[k] = <<sec, b + k - 1>>
    <3>1. e[k] = q[b - c + 1 + k - 1] /\ b - c + 1 + k - 1 \in 1 .. d - c
      BY <2>2
    <3>2. q[b - c + 1 + k - 1] = <<sec, c + (b - c + 1 + k - 1) - 1>>
      BY <1>2, <3>1
    <3>3. c + (b - c + 1 + k - 1) - 1 = b + k - 1
      OBVIOUS
    <3> QED
      BY <3>1, <3>2, <3>3
  <2> QED
    BY <2>2, <2>3, <2>4
<1> HIDE DEF C, e
<1>5. /\ p \o e \in Seq(C) /\ Len(p \o e) = b - a + (d - b)
      /\ \A k \in 1 .. b - a + (d - b) :
           (p \o e)[k] = IF k <= b - a THEN p[k] ELSE e[k - (b - a)]
  <2>1. /\ p \o e \in Seq(C) /\ Len(p \o e) = Len(p) + Len(e)
        /\ \A k \in 1 .. Len(p) + Len(e) :
             (p \o e)[k] = IF k <= Len(p) THEN p[k] ELSE e[k - Len(p)]
    BY <1>1, <1>4, ConcatProperties
  <2> QED
    BY <1>1, <1>4, <2>1
<1>6. ASSUME NEW k \in 1 .. d - a
      PROVE  (p \o e)[k] = r[k]
  <2>1. r[k] = <<sec, a + k - 1>>
    BY <1>3
  <2>2. (p \o e)[k] = IF k <= b - a THEN p[k] ELSE e[k - (b - a)]
    BY <1>5
  <2>3. CASE k <= b - a
    BY <1>1, <2>1, <2>2, <2>3
  <2>4. CASE k > b - a
    <3>1. k - (b - a) \in 1 .. d - b /\ b + (k - (b - a)) - 1 = a + k - 1
      BY <2>4
    <3>2. e[k - (b - a)] = <<sec, b + (k - (b - a)) - 1>>
      BY <1>4, <3>1
    <3> QED
      BY <2>1, <2>2, <2>4, <3>1, <3>2
  <2>5. k <= b - a \/ k > b - a
    OBVIOUS
  <2> QED
    BY <2>3, <2>4, <2>5
<1>7. p \o e = r
  <2>1. Len(p \o e) = Len(r) /\ Len(r) = d - a
    BY <1>3, <1>5
  <2>2. \A k \in 1 .. Len(p \o e) : (p \o e)[k] = r[k]
    BY <1>6, <2>1
  <2> QED
    BY <1>3, <1>5, <2>1, <2>2, SeqEqual
<1>8. From(q, b - c) = e
  <2>1. b - c >= 0 /\ Len(q) = d - c
    BY <1>2
  <2> QED
    BY <2>1 DEF From, e
<1> QED
  BY <1>7, <1>8 DEF p, q, r

LEMMA NodesOfRun ==
  ASSUME NEW p \in Pieces, p.first[1] = p.last[1], p.first[2] <= p.last[2]
  PROVE  /\ Nodes(p) \subseteq Node /\ p.first \in Nodes(p) /\ p.last \in Nodes(p)
         /\ \A n \in Nodes(p) : /\ n[1] = p.first[1] /\ n[2] \in Int
                                /\ p.first[2] <= n[2] /\ n[2] <= p.last[2]
  BY NodePairs DEF Nodes, Pieces

LEMMA OneNode ==
  ASSUME NEW n \in Node
  PROVE  /\ Piece(n) \in Pieces /\ Nodes(Piece(n)) = {n} /\ IsWhole(Piece(n))
         /\ n \in kept => IsRun(Piece(n))
<1>1. Piece(n) = [first |-> n, last |-> n, end |-> End(n), text |-> Text(n)]
  BY DEF Piece
<1>2. Piece(n) \in Pieces
  BY <1>1, Offsets, TextOfNode DEF Pieces
<1>3. Nodes(Piece(n)) = {n}
  BY <1>1, NodePairs DEF Nodes
<1>4. IsWhole(Piece(n))
  BY <1>1, <1>3, Offsets, TextOfNode DEF IsWhole, Within
<1>5. n \in kept => IsRun(Piece(n))
  BY <1>1, <1>3, NodePairs DEF IsRun
<1> QED
  BY <1>2, <1>3, <1>4, <1>5

(* Joining two runs where one ends and the other begins gives a run; its   *)
(* text is whole where it is seamless, for then so are both, and the first *)
(* one's text ends within the second one's first node.                     *)
LEMMA JoinedRun ==
  ASSUME NEW p \in Pieces, NEW q \in Pieces,
         IsRun(p), IsRun(q), kept \subseteq Node,
         HasNext(p.last), NextOf(p.last) = q.first
  PROVE  /\ Join(p, q).first = p.first /\ Join(p, q).last = q.last
         /\ Nodes(Join(p, q)) = Nodes(p) \cup Nodes(q)
         /\ IsRun(Join(p, q))
<1> DEFINE j == Join(p, q)
<1>1. j.first = p.first /\ j.last = q.last
  BY DEF Join
<1> HIDE DEF j
<1>2. /\ p.first \in Node /\ p.last \in Node /\ q.first \in Node /\ q.last \in Node
      /\ p.first[1] = p.last[1] /\ q.first[1] = q.last[1]
      /\ p.first[2] <= p.last[2] /\ q.first[2] <= q.last[2]
  BY DEF IsRun
<1>3. /\ p.first[2] \in Int /\ p.last[2] \in Int /\ q.first[2] \in Int /\ q.last[2] \in Int
      /\ \A n \in Node : n[2] \in Int
  BY <1>2, NodePairs
<1>4. q.first[1] = p.last[1] /\ q.first[2] = p.last[2] + 1
  <2>1. q.first = <<p.last[1], p.last[2] + 1>>
    BY DEF NextOf
  <2> QED
    BY <2>1
<1>5. Nodes(j) = Nodes(p) \cup Nodes(q)
  <2> SUFFICES ASSUME NEW n \in Node
               PROVE  n \in Nodes(j) <=> n \in Nodes(p) \/ n \in Nodes(q)
    BY DEF Nodes
  <2>1. n \in Nodes(j) <=> n[1] = p.first[1] /\ n[2] \in p.first[2] .. q.last[2]
    BY <1>1 DEF Nodes
  <2>2. n \in Nodes(p) <=> n[1] = p.first[1] /\ n[2] \in p.first[2] .. p.last[2]
    BY DEF Nodes
  <2>3. n \in Nodes(q) <=> n[1] = p.first[1] /\ n[2] \in p.last[2] + 1 .. q.last[2]
    BY <1>2, <1>4 DEF Nodes
  <2> QED
    BY <1>2, <1>3, <1>4, <2>1, <2>2, <2>3
<1>6. IsRun(j)
  <2>1. j.first[1] = j.last[1] /\ j.first[2] <= j.last[2]
    BY <1>1, <1>2, <1>3, <1>4
  <2> QED
    BY <1>1, <1>5, <2>1 DEF IsRun
<1> QED
  BY <1>1, <1>5, <1>6 DEF j

LEMMA SeamlessParts ==
  ASSUME NEW p \in Pieces, NEW q \in Pieces,
         IsRun(p), IsRun(q), kept \subseteq Node,
         HasNext(p.last), NextOf(p.last) = q.first, Seamless(Join(p, q))
  PROVE  /\ Seamless(p) /\ Seamless(q)
         /\ Located(p.last) /\ Located(q.first)
         /\ Section(q.first) = Section(p.first)
         /\ Start(p.last) <= Start(q.first)
         /\ Start(q.first) <= End(p.last) /\ End(p.last) <= End(q.first)
<1> DEFINE j == Join(p, q)
<1>1. j.first = p.first /\ j.last = q.last /\ Nodes(j) = Nodes(p) \cup Nodes(q)
  BY JoinedRun
<1>2. /\ \A n \in Nodes(j) : Located(n) /\ Section(n) = Section(p.first)
      /\ \A n \in Nodes(j) \ {q.last} : Start(n) <= Start(NextOf(n))
           /\ Start(NextOf(n)) <= End(n) /\ End(n) <= End(NextOf(n))
  BY <1>1 DEF Seamless
<1> HIDE DEF j
<1>3. /\ p.first \in Nodes(p) /\ p.last \in Nodes(p) /\ q.first \in Nodes(q)
      /\ \A n \in Nodes(p) : n[2] \in Int /\ n[2] <= p.last[2]
  BY NodesOfRun DEF IsRun
<1>4. \A n \in Nodes(p) : n # q.last
  <2>1. q.first[2] = p.last[2] + 1
    BY DEF NextOf
  <2>2. q.first[2] <= q.last[2] /\ p.last[2] \in Int /\ q.last[2] \in Int
    BY NodePairs DEF IsRun
  <2> QED
    BY <1>3, <2>1, <2>2
<1>5. Section(q.first) = Section(p.first) /\ Located(p.last) /\ Located(q.first)
  BY <1>1, <1>2, <1>3
<1>6. /\ Start(p.last) <= Start(q.first)
      /\ Start(q.first) <= End(p.last) /\ End(p.last) <= End(q.first)
  BY <1>1, <1>2, <1>3, <1>4
<1>7. Seamless(p)
  BY <1>1, <1>2, <1>4 DEF Seamless
<1>8. Seamless(q)
  BY <1>1, <1>2, <1>5 DEF Seamless
<1> QED
  BY <1>5, <1>6, <1>7, <1>8

LEMMA JoinedText ==
  ASSUME NEW p \in Pieces, NEW q \in Pieces,
         IsRun(p), IsRun(q), IsWhole(p), IsWhole(q), kept \subseteq Node,
         HasNext(p.last), NextOf(p.last) = q.first
  PROVE  Join(p, q) \in Pieces /\ IsWhole(Join(p, q))
<1> DEFINE j == Join(p, q)
           k == p.end - Start(q.first)
<1>1. /\ p.first \in Node /\ p.last \in Node /\ q.first \in Node /\ q.last \in Node
      /\ p.text \in Seq(Char) /\ q.text \in Seq(Char) /\ p.end \in Int /\ q.end \in Int
  BY DEF Pieces
<1>2. p.end = End(p.last) /\ q.end = End(q.last) /\ k \in Int
  BY <1>1, Offsets DEF IsWhole
<1>3. /\ j.first = p.first /\ j.last = q.last /\ j.end = q.end
      /\ j.text = p.text \o IF Located(p.last) /\ Located(q.first)
                            THEN From(q.text, k) ELSE <<"newline">> \o q.text
      /\ j = [first |-> j.first, last |-> j.last, end |-> j.end, text |-> j.text]
  BY DEF Join
<1>4. j.text \in Seq(Char)
  <2>1. From(q.text, k) \in Seq(Char)
    BY <1>1, <1>2, RestOfText
  <2>2. <<"newline">> \in Seq(Char)
    BY DEF Char
  <2>3. <<"newline">> \o q.text \in Seq(Char)
    BY <1>1, <2>2, ConcatProperties
  <2> HIDE DEF j, k
  <2> QED
    BY <1>1, <1>3, <2>1, <2>3, ConcatProperties
<1>5. j \in Pieces
  <2> HIDE DEF j, k
  <2> QED
    BY <1>1, <1>3, <1>4 DEF Pieces
<1>6. ASSUME Seamless(j)
      PROVE  /\ End(p.first) <= End(q.last)
             /\ j.text = Portion(Section(p.first), Start(p.first), End(q.last))
             /\ \A n \in Nodes(j) : Within(n, j)
  <2>1. /\ Seamless(p) /\ Seamless(q)
        /\ Located(p.last) /\ Located(q.first)
        /\ Section(q.first) = Section(p.first)
        /\ Start(p.last) <= Start(q.first)
        /\ Start(q.first) <= End(p.last) /\ End(p.last) <= End(q.first)
    BY <1>6, SeamlessParts
  <2>2. PICK a \in Int, b \in Int, c \in Int, d \in Int :
          a = Start(p.first) /\ b = End(p.last) /\ c = Start(q.first) /\ d = End(q.last)
    BY <1>1, Offsets
  <2> DEFINE sec == Section(p.first)
  <2>3. /\ End(p.first) <= b /\ p.text = Portion(sec, a, b)
        /\ End(q.first) <= d /\ q.text = Portion(sec, c, d)
    BY <2>1, <2>2 DEF IsWhole
  <2>4. /\ a <= b /\ c <= b /\ b <= d /\ End(p.first) <= d
    <3>1. End(p.first) \in Int /\ End(q.first) \in Int /\ a <= End(p.first)
      BY <1>1, <2>2, Offsets
    <3> QED
      BY <2>1, <2>2, <2>3, <3>1
  <2>5. j.text = p.text \o From(q.text, k) /\ k = b - c
    BY <1>2, <1>3, <2>1, <2>2
  <2> HIDE DEF sec, j, k
  <2>6. Portion(sec, a, b) \o From(Portion(sec, c, d), b - c) = Portion(sec, a, d)
    BY <2>4, PortionsJoin
  <2>7. j.text = Portion(sec, a, d)
    BY <2>3, <2>5, <2>6
  <2>8. ASSUME NEW n \in Nodes(j)
        PROVE  Within(n, j)
    <3>1. n \in Nodes(p) \/ n \in Nodes(q)
      BY JoinedRun DEF j
    <3>2. n \in Node /\ p.last \in Nodes(p)
      BY NodesOfRun, <3>1 DEF IsRun
    <3>3. /\ \A m \in Nodes(p) : Within(m, p)
          /\ \A m \in Nodes(q) : Within(m, q)
      BY <2>1 DEF IsWhole
    <3>4. Start(n) \in Int /\ End(n) \in Int /\ Start(p.last) \in Int /\ End(q.first) \in Int
      BY <1>1, <3>2, Offsets
    <3>5. CASE n \in Nodes(p)
      <4>1. Section(n) = Section(p.first) /\ a <= Start(n) /\ End(n) <= b
        BY <2>2, <3>3, <3>5 DEF Within
      <4> QED
        BY <1>3, <2>2, <2>4, <3>4, <4>1 DEF Within
    <3>6. CASE n \in Nodes(q)
      <4>1. Section(n) = Section(q.first) /\ c <= Start(n) /\ End(n) <= d
        BY <2>2, <3>3, <3>6 DEF Within
      <4>2. a <= Start(p.last)
        BY <2>2, <3>2, <3>3 DEF Within
      <4> QED
        BY <1>3, <2>1, <2>2, <2>4, <3>4, <4>1, <4>2 DEF Within
    <3> QED
      BY <3>1, <3>5, <3>6
  <2> QED
    BY <2>2, <2>4, <2>7, <2>8 DEF sec
<1>7. IsWhole(j)
  <2> HIDE DEF j
  <2> QED
    BY <1>2, <1>3, <1>6 DEF IsWhole
<1> QED
  BY <1>5, <1>7

LEMMA MergeInit == Init => MergeInv
<1> SUFFICES ASSUME Init
             PROVE  MergeInv
  OBVIOUS
<1>1. /\ pc = "new" /\ kept = {} /\ left = {} /\ piece = NoPiece /\ answer = <<>>
  BY DEF Init
<1>2. <<>> \in Seq(Pieces) /\ DOMAIN <<>> = {}
  BY EmptySeq
<1>3. PiecesInv
  BY <1>1, <1>2 DEF PiecesInv
<1>4. PartitionInv
  BY <1>1, <1>2 DEF PartitionInv, Emitted, Current
<1> QED
  BY <1>3, <1>4 DEF MergeInv

(* Before the merge there are no pieces, and an answer stays as it is.     *)
LEMMA PiecesFrame ==
  ASSUME MergeInv, UNCHANGED <<merged, stored>>,
         \/ pc' = pc
         \/ pc \notin {"merging", "joining", "answered"} /\ pc' \notin {"merging", "joining", "answered"}
  PROVE  MergeInv'
<1>1. kept' = kept /\ left' = left /\ piece' = piece /\ answer' = answer /\ stored' = stored
  BY DEF merged
<1>2. PiecesInv'
  BY <1>1 DEF MergeInv, PiecesInv, IsRun, IsWhole, Within, Longest
<1>3. PartitionInv'
  BY <1>1 DEF MergeInv, PartitionInv, Emitted, Current
<1> QED
  BY <1>2, <1>3 DEF MergeInv

LEMMA StartMergePieces == ListsInv /\ MergeInv /\ StartMerge => MergeInv'
<1> SUFFICES ASSUME ListsInv, MergeInv, StartMerge
             PROVE  MergeInv'
  OBVIOUS
<1>1. /\ pc = "deduping" /\ kept' = NodesOf(list) /\ left' = kept'
      /\ pc' = (IF kept' = {} THEN "answered" ELSE "merging")
      /\ stored' = stored /\ piece' = piece /\ answer' = answer
  BY DEF StartMerge
<1>2. Held(list) /\ HashesDiffer(list)
  BY <1>1 DEF ListsInv, ListsTyped, ListsDiffer
<1>3. answer = <<>> /\ piece = NoPiece
  BY <1>1 DEF MergeInv, PiecesInv, PartitionInv
<1>4. <<>> \in Seq(Pieces) /\ DOMAIN <<>> = {}
  BY EmptySeq
<1>5. \A m, n \in NodesOf(list) : Hash(m) = Hash(n) => m = n
  BY <1>2 DEF NodesOf, HashesDiffer
<1>6. PiecesInv'
  BY <1>1, <1>3, <1>4 DEF PiecesInv
<1>7. Emitted' = {} /\ Current' = {}
  BY <1>1, <1>3, <1>4 DEF Emitted, Current
<1>8. PartitionInv'
  BY <1>1, <1>2, <1>3, <1>4, <1>5, <1>7 DEF PartitionInv, Held
<1> QED
  BY <1>6, <1>8 DEF MergeInv

LEMMA PopPieces == ListsInv /\ MergeInv /\ Pop => MergeInv'
<1> SUFFICES ASSUME ListsInv, MergeInv, Pop
             PROVE  MergeInv'
  OBVIOUS
<1>1. PICK n \in left : piece' = Piece(n) /\ left' = left \ {n}
  BY DEF Pop
<1>2. /\ pc = "merging" /\ pc' = "joining"
      /\ stored' = stored /\ kept' = kept /\ answer' = answer
  BY DEF Pop
<1>3. n \in kept /\ n \in Node
  BY <1>1, StoredNodes DEF MergeInv, PartitionInv, ListsInv
<1>4. /\ Piece(n) \in Pieces /\ Nodes(Piece(n)) = {n} /\ IsWhole(Piece(n))
      /\ IsRun(Piece(n))
  BY <1>3, OneNode
<1>5. IsRun(piece') /\ IsRun(Piece(n))' = IsRun(Piece(n))
  BY <1>1, <1>2, <1>4 DEF IsRun
<1>6. PiecesInv'
  BY <1>1, <1>2, <1>4 DEF MergeInv, PiecesInv, IsRun, IsWhole, Within, Longest
<1>7. Emitted' = Emitted /\ Current = {} /\ Current' = {n}
  BY <1>1, <1>2, <1>4 DEF Emitted, Current
<1>8. PartitionInv'
  BY <1>1, <1>2, <1>7 DEF MergeInv, PartitionInv
<1> QED
  BY <1>6, <1>8 DEF MergeInv

(* A kept node beside the piece is left: a finished piece that had it      *)
(* would also have the node it is beside, or not be the longest.           *)
LEMMA BesideIsLeft ==
  ASSUME ListsInv, MergeInv, pc = "joining",
         NEW m \in kept, NEW o \in Nodes(piece), m \notin Nodes(piece),
         (HasNext(m) /\ NextOf(m) = o) \/ (HasPrev(m) /\ Prev(m) = o)
  PROVE  m \in left
<1>1. Emitted \cup Nodes(piece) \cup left = kept /\ Emitted \cap Nodes(piece) = {}
  BY DEF MergeInv, PartitionInv, Current
<1>2. kept \subseteq Node
  BY StoredNodes DEF MergeInv, PartitionInv, ListsInv
<1>3. m \in Node /\ o \in Node /\ o \in kept
  BY <1>1, <1>2
<1>4. /\ m = <<m[1], m[2]>> /\ m[2] \in Int /\ o[1] = m[1]
      /\ \/ HasNext(m) /\ NextOf(m) = o /\ o[2] = m[2] + 1
         \/ HasPrev(m) /\ Prev(m) = o /\ o[2] = m[2] - 1
  BY <1>3, NodePairs DEF NextOf, Prev
<1>5. ASSUME m \in Emitted
      PROVE  FALSE
  <2>1. PICK i \in DOMAIN answer : m \in Nodes(answer[i])
    BY <1>5 DEF Emitted
  <2> DEFINE r == answer[i]
  <2>2. r \in Pieces /\ IsRun(r) /\ Longest(r)
    BY LenProperties, ElementOfSeq DEF MergeInv, PiecesInv
  <2>3. o \notin Nodes(r)
    BY <1>1, <2>1 DEF Emitted
  <2>4. m \in Nodes(r)
    BY <2>1
  <2> HIDE DEF r
  <2>5. /\ r.first \in Node /\ r.last \in Node /\ r.first[1] = r.last[1]
        /\ m[1] = r.first[1] /\ r.first[2] <= m[2] /\ m[2] <= r.last[2]
        /\ r.first[2] \in Int /\ r.last[2] \in Int
    BY <2>2, <2>4, NodesOfRun, NodePairs DEF IsRun, Pieces
  <2>6. ~ (r.first[2] <= o[2] /\ o[2] <= r.last[2])
    BY <1>3, <1>4, <2>3, <2>5 DEF Nodes
  <2>7. \/ HasNext(m) /\ NextOf(m) = o /\ m[2] = r.last[2]
        \/ HasPrev(m) /\ Prev(m) = o /\ m[2] = r.first[2]
    BY <1>4, <2>5, <2>6
  <2>8. r.first = <<r.first[1], r.first[2]>> /\ r.last = <<r.last[1], r.last[2]>>
    BY <2>5, NodePairs
  <2>9. \/ HasNext(m) /\ NextOf(m) = o /\ m = r.last
        \/ HasPrev(m) /\ Prev(m) = o /\ m = r.first
    BY <1>4, <2>5, <2>7, <2>8
  <2> QED
    BY <1>3, <2>2, <2>9 DEF Longest
<1> QED
  BY <1>1, <1>5

LEMMA PieceGrows ==
  ASSUME MergeInv, pc = "joining", pc' = pc,
         stored' = stored, kept' = kept, answer' = answer,
         NEW m \in left, left' = left \ {m},
         piece' \in Pieces, IsRun(piece'), IsWhole(piece'),
         Nodes(piece') = Nodes(piece) \cup {m}
  PROVE  MergeInv'
<1>1. IsRun(piece)' /\ IsWhole(piece)'
  BY DEF IsRun, IsWhole, Within
<1>2. PiecesInv'
  BY <1>1 DEF MergeInv, PiecesInv, IsRun, IsWhole, Within, Longest
<1>3. Emitted' = Emitted /\ Current = Nodes(piece) /\ Current' = Nodes(piece) \cup {m}
  BY DEF Emitted, Current
<1>4. PartitionInv'
  BY <1>3 DEF MergeInv, PartitionInv
<1> QED
  BY <1>2, <1>4 DEF MergeInv

LEMMA PieceFacts ==
  ASSUME ListsInv, MergeInv, pc = "joining"
  PROVE  /\ piece \in Pieces /\ IsRun(piece) /\ IsWhole(piece)
         /\ piece.first \in Nodes(piece) /\ piece.last \in Nodes(piece)
         /\ piece.first \in Node /\ piece.last \in Node
         /\ \A n \in Nodes(piece) : /\ n[2] \in Int
                                    /\ piece.first[2] <= n[2] /\ n[2] <= piece.last[2]
         /\ kept \subseteq Node
<1>1. piece \in Pieces /\ IsRun(piece) /\ IsWhole(piece)
  BY DEF MergeInv, PiecesInv
<1>2. kept \subseteq Node
  BY StoredNodes DEF MergeInv, PartitionInv, ListsInv
<1> QED
  BY <1>1, <1>2, NodesOfRun DEF IsRun

LEMMA JoinPrevPieces == ListsInv /\ MergeInv /\ JoinPrev => MergeInv'
<1> SUFFICES ASSUME ListsInv, MergeInv, JoinPrev
             PROVE  MergeInv'
  OBVIOUS
<1> DEFINE m == Prev(piece.first)
           p == Piece(m)
<1>1. /\ pc = "joining" /\ pc' = pc /\ HasPrev(piece.first) /\ m \in kept
      /\ piece' = Join(p, piece) /\ left' = left \ {m}
      /\ stored' = stored /\ kept' = kept /\ answer' = answer
  BY DEF JoinPrev, MorePrev
<1>2. /\ piece \in Pieces /\ IsRun(piece) /\ IsWhole(piece)
      /\ piece.first \in Nodes(piece)
      /\ piece.first \in Node
      /\ \A n \in Nodes(piece) : n[2] \in Int /\ piece.first[2] <= n[2]
      /\ kept \subseteq Node
  BY <1>1, PieceFacts
<1>3. /\ p \in Pieces /\ Nodes(p) = {m} /\ IsWhole(p) /\ IsRun(p)
      /\ p.first = m /\ p.last = m
  BY <1>1, <1>2, OneNode DEF Piece
<1>4. HasNext(m) /\ NextOf(m) = piece.first /\ m[2] = piece.first[2] - 1
  BY <1>1, <1>2, NodePairs DEF HasPrev, Prev, HasNext, NextOf
<1>5. m \notin Nodes(piece)
  BY <1>2, <1>4
<1>6. m \in left
  BY <1>1, <1>2, <1>4, <1>5, BesideIsLeft
<1> HIDE DEF m, p
<1>7. Nodes(piece') = Nodes(piece) \cup {m} /\ IsRun(piece')
  BY <1>1, <1>2, <1>3, <1>4, JoinedRun
<1>8. piece' \in Pieces /\ IsWhole(piece')
  BY <1>1, <1>2, <1>3, <1>4, JoinedText
<1> QED
  BY <1>1, <1>6, <1>7, <1>8, PieceGrows

LEMMA JoinNextPieces == ListsInv /\ MergeInv /\ JoinNext => MergeInv'
<1> SUFFICES ASSUME ListsInv, MergeInv, JoinNext
             PROVE  MergeInv'
  OBVIOUS
<1> DEFINE m == NextOf(piece.last)
           q == Piece(m)
<1>1. /\ pc = "joining" /\ pc' = pc /\ HasNext(piece.last) /\ m \in kept
      /\ piece' = Join(piece, q) /\ left' = left \ {m}
      /\ stored' = stored /\ kept' = kept /\ answer' = answer
  BY DEF JoinNext, MoreNext
<1>2. /\ piece \in Pieces /\ IsRun(piece) /\ IsWhole(piece)
      /\ piece.last \in Nodes(piece)
      /\ piece.last \in Node
      /\ \A n \in Nodes(piece) : n[2] \in Int /\ n[2] <= piece.last[2]
      /\ kept \subseteq Node
  BY <1>1, PieceFacts
<1>3. /\ q \in Pieces /\ Nodes(q) = {m} /\ IsWhole(q) /\ IsRun(q)
      /\ q.first = m /\ q.last = m
  BY <1>1, <1>2, OneNode DEF Piece
<1>4. HasPrev(m) /\ Prev(m) = piece.last /\ m[2] = piece.last[2] + 1
  BY <1>1, <1>2, NodePairs DEF HasPrev, Prev, HasNext, NextOf
<1>5. m \notin Nodes(piece)
  BY <1>2, <1>4
<1>6. m \in left
  BY <1>1, <1>2, <1>4, <1>5, BesideIsLeft
<1>7. HasNext(piece.last) /\ NextOf(piece.last) = q.first
  BY <1>1, <1>3
<1> HIDE DEF m, q
<1>8. Nodes(piece') = Nodes(piece) \cup {m} /\ IsRun(piece')
  BY <1>1, <1>2, <1>3, <1>7, JoinedRun
<1>9. piece' \in Pieces /\ IsWhole(piece')
  BY <1>1, <1>2, <1>3, <1>7, JoinedText
<1> QED
  BY <1>1, <1>6, <1>8, <1>9, PieceGrows

LEMMA EmitPieces == ListsInv /\ MergeInv /\ Emit => MergeInv'
<1> SUFFICES ASSUME ListsInv, MergeInv, Emit
             PROVE  MergeInv'
  OBVIOUS
<1>1. /\ pc = "joining" /\ answer' = Append(answer, piece) /\ piece' = NoPiece
      /\ pc' = (IF left = {} THEN "answered" ELSE "merging")
      /\ stored' = stored /\ kept' = kept /\ left' = left
  BY DEF Emit
<1>2. Longest(piece)
  BY DEF Emit, MorePrev, MoreNext, Longest
<1>3. piece \in Pieces /\ IsRun(piece) /\ IsWhole(piece) /\ answer \in Seq(Pieces)
  BY <1>1 DEF MergeInv, PiecesInv
<1>4. /\ answer' \in Seq(Pieces)
      /\ DOMAIN answer' = DOMAIN answer \cup {Len(answer) + 1}
      /\ Len(answer) + 1 \notin DOMAIN answer
      /\ \A i \in DOMAIN answer : answer'[i] = answer[i]
      /\ answer'[Len(answer) + 1] = piece
  <2>1. /\ answer' \in Seq(Pieces) /\ Len(answer') = Len(answer) + 1
        /\ \A i \in 1 .. Len(answer) : answer'[i] = answer[i]
        /\ answer'[Len(answer) + 1] = piece
    BY <1>1, <1>3, AppendProperties
  <2>2. /\ DOMAIN answer = 1 .. Len(answer) /\ Len(answer) \in Nat
        /\ DOMAIN answer' = 1 .. Len(answer')
    BY <1>3, <2>1, LenProperties
  <2> QED
    BY <2>1, <2>2
<1>5. \A i \in DOMAIN answer' : IsRun(answer'[i]) /\ IsWhole(answer'[i]) /\ Longest(answer'[i])
  BY <1>2, <1>3, <1>4 DEF MergeInv, PiecesInv
<1>6. PiecesInv'
  BY <1>1, <1>4, <1>5 DEF PiecesInv, IsRun, IsWhole, Within, Longest
<1>7. Emitted' = Emitted \cup Nodes(piece) /\ Current = Nodes(piece) /\ Current' = {}
  BY <1>1, <1>4 DEF Emitted, Current
<1>8. ASSUME NEW i \in DOMAIN answer', NEW j \in DOMAIN answer', i # j
      PROVE  Nodes(answer'[i]) \cap Nodes(answer'[j]) = {}
  <2>1. \A k \in DOMAIN answer : Nodes(answer[k]) \cap Nodes(piece) = {}
    BY <1>7 DEF MergeInv, PartitionInv, Emitted
  <2> QED
    BY <1>4, <1>8, <2>1 DEF MergeInv, PartitionInv
<1>9. PartitionInv'
  BY <1>1, <1>7, <1>8 DEF MergeInv, PartitionInv
<1> QED
  BY <1>6, <1>9 DEF MergeInv

(* The next query starts with nothing.                                     *)
LEMMA AgainPieces == Again => MergeInv'
<1> SUFFICES ASSUME Again
             PROVE  MergeInv'
  OBVIOUS
<1>1. /\ pc' = "new" /\ kept' = {} /\ left' = {} /\ piece' = NoPiece /\ answer' = <<>>
  BY DEF Again
<1>2. <<>> \in Seq(Pieces) /\ DOMAIN <<>> = {}
  BY EmptySeq
<1>3. PiecesInv'
  BY <1>1, <1>2 DEF PiecesInv
<1>4. PartitionInv'
  BY <1>1, <1>2 DEF PartitionInv, Emitted, Current
<1> QED
  BY <1>3, <1>4 DEF MergeInv

LEMMA MergeStep == ListsInv /\ MergeInv /\ [Next]_vars => MergeInv'
<1> SUFFICES ASSUME ListsInv, MergeInv, [Next]_vars
             PROVE  MergeInv'
  OBVIOUS
<1>1. CASE UNCHANGED vars
  BY <1>1, PiecesFrame DEF vars, merged
<1>2. CASE Search
  <2>1. pc = "new" /\ pc' \in {"failed", "nothing", "found"}
    BY <1>2 DEF Search
  <2> QED
    BY <1>2, <2>1, PiecesFrame DEF Search
<1>3. CASE FuseByRank \/ Count \/ SortByScore \/ FuseByModel
  BY <1>3, PiecesFrame DEF FuseByRank, Count, SortByScore, FuseByModel
<1>4. CASE Extend \/ FetchNeighbours \/ Arrange \/ Place \/ Deduplicate \/ Keep
  BY <1>4, PiecesFrame DEF Extend, FetchNeighbours, Arrange, Place, Deduplicate, Keep
<1>5. CASE Fails
  BY <1>5, PiecesFrame DEF Fails
<1> QED
  BY <1>1, <1>2, <1>3, <1>4, <1>5, StartMergePieces, PopPieces, JoinPrevPieces,
     JoinNextPieces, EmitPieces, AgainPieces DEF Next

-----------------------------------------------------------------------------
(***************************************************************************)
(* The scores.  A text's score is a sum over the ranks where the stores    *)
(* have it, one more with every hit.  How large the sum is nobody needs to *)
(* know: it lies between what as many ranks give at best and at least.     *)
(*                                                                         *)
(* Between the ranks 1 and 11, where 1 / (59 + rank) is 1 / 60 and 1 / 70, *)
(* the shares are below the line through these two, and they are never     *)
(* below the line through the ranks 8 and 9.  The first c ranks of a store *)
(* give at most the first line's sum, Best(c) / 8400; and of m ranks up to *)
(* 11 the first c give at least the second one's, Least(c, m) / 9112.      *)
(***************************************************************************)
Best(c) == 141 * c - c * c
Least(c, m) == 129 * c + 2 * c * m - c * c

AtMost(v, x) == 8400 * v <= Unit * x
AtLeast(v, x) == 9112 * v >= Unit * x

Ahead(store) == IF store = 1 THEN 0 ELSE Len(hits[1])

(* The ranks of h in a store that are among the first d hits of the loop.  *)
Among(d, store, h) == {r \in RanksIn(store, h) : Ahead(store) + r <= d}

(* What v, the sum for h of the first d hits, is compared with: of the     *)
(* stores, one is s and the other one o.                                   *)
Between(d, s, o, h, v) ==
  /\ AtMost(v, Best(Cardinality(Among(d, s, h))) + Best(Cardinality(Among(d, o, h))))
  /\ AtLeast(v, Least(Cardinality(Among(d, s, h)), Cardinality(RanksIn(s, h)))
                  + Least(Cardinality(Among(d, o, h)), Cardinality(RanksIn(o, h))))

Alike(d, s, o, h, v) ==
  LET count == Cardinality(Among(d, s, h)) + Cardinality(Among(d, o, h))
      ranks == Among(d, s, h) \cup Among(d, o, h)
  IN \A t \in 1 .. TopK :
       /\ (\A r \in ranks : r >= t) => v <= count * Reciprocal(t)
       /\ (\A r \in ranks : r <= t) => v >= count * Reciprocal(t)

Weighed(d, s, o, h, v) ==
  /\ TopK <= 11 => Between(d, s, o, h, v)
  /\ Alike(d, s, o, h, v)

AllHits == Ranked(hits[1]) \o Ranked(hits[2])

(* How many hits the loop has taken. *)
Gone == Len(AllHits) - Len(todo)

ScoresInv ==
  pc = "counting" =>
    /\ Len(todo) <= Len(AllHits)
    /\ \A i \in 1 .. Len(todo) : todo[i] = AllHits[Gone + i]
    /\ \A h \in Hashes(Node) \ Hashes(NodesOf(list)) :
         Among(Gone, 1, h) = {} /\ Among(Gone, 2, h) = {}
    /\ \A i \in DOMAIN list : Weighed(Gone, 1, 2, Hash(list[i].node), list[i].score)

(* What a rank gives lies between the two lines, and less at a later rank. *)
LEMMA Lines ==
  ASSUME NEW r \in 1 .. TopK
  PROVE  /\ TopK <= 11 => 4200 * Reciprocal(r) <= Unit * (71 - r)
         /\ 4556 * Reciprocal(r) >= Unit * (76 - r)
<1>1. /\ Reciprocal(r) \in Nat /\ Reciprocal(r) * (59 + r) = Unit
      /\ Unit \in Nat /\ TopK \in Nat /\ r \in Int /\ 1 <= r /\ r <= TopK
  BY Shares
<1>2. TopK <= 11 => (59 + r) * (71 - r) >= 4200
  <2> SUFFICES ASSUME r <= 11
               PROVE  (59 + r) * (71 - r) >= 4200
    BY <1>1
  <2>1. r \in {1, 2, 3, 4, 5, 6, 7, 8, 9, 10, 11}
    BY <1>1
  <2> QED
    BY <2>1
<1>3. (59 + r) * (76 - r) <= 4556
  <2>1. (59 + r) * (76 - r) = 4556 - (r - 8) * (r - 9)
    BY <1>1
  <2>2. (r - 8) * (r - 9) >= 0
    BY <1>1
  <2> QED
    BY <1>1, <2>1, <2>2
<1> DEFINE R == Reciprocal(r)
<1>4. \A k \in Int : Unit * k = R * ((59 + r) * k)
  <2>1. \A x, y, k \in Int : (x * y) * k = x * (y * k)
    OBVIOUS
  <2> QED
    BY <1>1, <2>1
<1>5. \A j, k \in Int : j <= k => R * j <= R * k
  BY <1>1
<1>6. /\ Unit * (71 - r) = R * ((59 + r) * (71 - r))
      /\ Unit * (76 - r) = R * ((59 + r) * (76 - r))
  BY <1>1, <1>4
<1>7. R * 4200 = 4200 * R /\ R * 4556 = 4556 * R
  BY <1>1
<1>8. (59 + r) * (71 - r) \in Int /\ (59 + r) * (76 - r) \in Int
  BY <1>1
<1> HIDE DEF R
<1>9. TopK <= 11 => R * 4200 <= R * ((59 + r) * (71 - r))
  BY <1>2, <1>5, <1>8
<1>10. R * ((59 + r) * (76 - r)) <= R * 4556
  BY <1>3, <1>5, <1>8
<1> QED
  BY <1>6, <1>7, <1>9, <1>10 DEF R

LEMMA LaterIsLess ==
  ASSUME NEW r \in 1 .. TopK, NEW t \in 1 .. TopK
  PROVE  /\ r <= t => Reciprocal(t) <= Reciprocal(r)
         /\ r < t => Reciprocal(t) < Reciprocal(r)
<1> DEFINE R == Reciprocal(r)
           T == Reciprocal(t)
<1>1. /\ R \in Nat /\ T \in Nat /\ R * (59 + r) = T * (59 + t) /\ R * (59 + r) > 0
      /\ r \in Int /\ t \in Int /\ 1 <= r /\ 1 <= t
  BY Shares
<1> HIDE DEF R, T
<1>2. ASSUME r < t
      PROVE  T < R
  <2> SUFFICES ASSUME R <= T
               PROVE  FALSE
    BY <1>1
  <2>1. R * (59 + r) <= T * (59 + r)
    BY <1>1
  <2>2. T * (59 + t) = T * (59 + r) + T * (t - r)
    BY <1>1
  <2>3. T > 0
    BY <1>1
  <2>4. T * (t - r) > 0
    BY <1>1, <1>2, <2>3
  <2>5. T * (59 + r) \in Int /\ T * (t - r) \in Int /\ R * (59 + r) \in Int
    BY <1>1
  <2> QED
    BY <1>1, <2>1, <2>2, <2>4, <2>5
<1>3. r = t => T = R
  BY DEF R, T
<1> QED
  BY <1>1, <1>2, <1>3 DEF R, T

(* n hits at best are less than n + 1 hits at least, where two texts share *)
(* the ranks up to 11 of two stores.                                       *)
LEMMA MoreIsMore ==
  ASSUME NEW n1 \in Nat, NEW n2 \in Nat, NEW m1 \in Nat, NEW m2 \in Nat,
         n1 + m1 <= 11, n2 + m2 <= 11, n1 + n2 < m1 + m2
  PROVE  9112 * (Best(n1) + Best(n2)) < 8400 * (Least(m1, m1) + Least(m2, m2))
<1> DEFINE n == n1 + n2
           m == m1 + m2
<1>1. n \in 0 .. 10 /\ m \in Int /\ n + 1 <= m
  OBVIOUS
<1>2. 2 * (Best(n1) + Best(n2)) <= 282 * n - n * n
  <2>1. 2 * (Best(n1) + Best(n2)) = 282 * n - n * n - (n1 - n2) * (n1 - n2)
    BY DEF Best
  <2>2. (n1 - n2) * (n1 - n2) >= 0
    OBVIOUS
  <2>3. n * n \in Int /\ (n1 - n2) * (n1 - n2) \in Int
    OBVIOUS
  <2> HIDE DEF n
  <2> QED
    BY <1>1, <2>1, <2>2, <2>3
<1>3. 2 * (Least(m1, m1) + Least(m2, m2)) >= 258 * (n + 1) + (n + 1) * (n + 1)
  <2>1. 2 * (Least(m1, m1) + Least(m2, m2)) = 258 * m + m * m + (m1 - m2) * (m1 - m2)
    BY DEF Least
  <2>2. (m1 - m2) * (m1 - m2) >= 0
    OBVIOUS
  <2>3. (n + 1) * (n + 1) <= m * m
    <3> HIDE DEF n, m
    <3> QED
      BY <1>1
  <2>4. m * m \in Int /\ (m1 - m2) * (m1 - m2) \in Int
    OBVIOUS
  <2> HIDE DEF n, m
  <2>5. (n + 1) * (n + 1) \in Int
    BY <1>1
  <2> QED
    BY <1>1, <2>1, <2>2, <2>3, <2>4, <2>5
<1>4. Best(n1) + Best(n2) \in Int /\ Least(m1, m1) + Least(m2, m2) \in Int
  BY DEF Best, Least
<1>5. 9112 * (282 * n - n * n) < 8400 * (258 * (n + 1) + (n + 1) * (n + 1))
  <2> HIDE DEF n
  <2>1. n \in {0, 1, 2, 3, 4, 5, 6, 7, 8, 9, 10}
    BY <1>1
  <2> QED
    BY <2>1
<1> DEFINE B == Best(n1) + Best(n2)
           L == Least(m1, m1) + Least(m2, m2)
           x == 282 * n - n * n
           y == 258 * (n + 1) + (n + 1) * (n + 1)
<1>6. x \in Int /\ y \in Int
  <2> HIDE DEF n
  <2> QED
    BY <1>1
<1>7. 2 * B <= x /\ 2 * L >= y /\ 9112 * x < 8400 * y /\ B \in Int /\ L \in Int
  BY <1>2, <1>3, <1>4, <1>5
<1> HIDE DEF B, L, x, y
<1>8. 9112 * B < 8400 * L
  BY <1>6, <1>7
<1> QED
  BY <1>8 DEF B, L

LEMMA RanksAreFinite ==
  ASSUME ListsInv, NEW store \in {1, 2}, NEW h
  PROVE  /\ RanksIn(store, h) \subseteq 1 .. TopK /\ TopK \in Nat
         /\ IsFiniteSet(RanksIn(store, h)) /\ Cardinality(RanksIn(store, h)) \in Nat
         /\ \A S \in SUBSET RanksIn(store, h) :
              /\ IsFiniteSet(S) /\ Cardinality(S) \in Nat
              /\ Cardinality(S) <= Cardinality(RanksIn(store, h))
<1>1. hits[store] \in Results
  BY DEF ListsInv, ListsTyped
<1>2. DOMAIN hits[store] \subseteq 1 .. TopK /\ TopK \in Nat
  BY <1>1, RankedHits, SizesAssumption
<1>3. IsFiniteSet(1 .. TopK)
  BY <1>2, FS_Interval
<1>4. RanksIn(store, h) \subseteq 1 .. TopK
  BY <1>2 DEF RanksIn
<1>5. IsFiniteSet(RanksIn(store, h))
  BY <1>3, <1>4, FS_Subset
<1> QED
  BY <1>2, <1>4, <1>5, FS_Subset, FS_CardinalityType

LEMMA JoinedItems ==
  ASSUME NEW s \in Seq(Scored), NEW t \in Seq(Scored), NEW k \in Nat, NEW l \in Nat,
         Len(s) = k, Len(t) = l
  PROVE  /\ Len(s \o t) = k + l
         /\ \A i \in 1 .. k : (s \o t)[i] = s[i]
         /\ \A i \in 1 .. l : (s \o t)[k + i] = t[i]
<1> DEFINE u == s \o t
<1>1. /\ Len(u) = Len(s) + Len(t)
      /\ \A i \in 1 .. Len(s) + Len(t) :
           u[i] = IF i <= Len(s) THEN s[i] ELSE t[i - Len(s)]
  BY ConcatProperties
<1> HIDE DEF u
<1>2. \A i \in 1 .. k + l : u[i] = IF i <= k THEN s[i] ELSE t[i - k]
  BY <1>1
<1>3. \A i \in 1 .. k : i \in 1 .. k + l /\ i <= k
  OBVIOUS
<1>4. \A i \in 1 .. l : k + i \in 1 .. k + l /\ ~ (k + i <= k) /\ k + i - k = i
  OBVIOUS
<1> QED
  BY <1>1, <1>2, <1>3, <1>4 DEF u

LEMMA AllHitsAre ==
  ASSUME ListsInv
  PROVE  LET s == hits[1]
             t == hits[2]
         IN /\ Ahead(1) = 0 /\ Ahead(2) = Len(s)
            /\ Len(s) \in Nat /\ Len(t) \in Nat /\ Len(AllHits) = Len(s) + Len(t)
            /\ DOMAIN s = 1 .. Len(s) /\ DOMAIN t = 1 .. Len(t)
            /\ Len(s) <= TopK /\ Len(t) <= TopK /\ TopK \in Nat
            /\ \A r \in 1 .. Len(s) :
                 AllHits[r] = [node |-> s[r], score |-> Reciprocal(r)] /\ s[r] \in Node
            /\ \A r \in 1 .. Len(t) :
                 AllHits[Len(s) + r] = [node |-> t[r], score |-> Reciprocal(r)] /\ t[r] \in Node
<1> DEFINE s == hits[1]
           t == hits[2]
<1>1. s \in Results /\ t \in Results
  BY DEF ListsInv, ListsTyped
<1>2. AllHits = Ranked(s) \o Ranked(t)
  BY DEF AllHits
<1>3. Ahead(1) = 0 /\ Ahead(2) = Len(s)
  BY DEF Ahead
<1> HIDE DEF s, t
<1> DEFINE x == Ranked(s)
           y == Ranked(t)
<1>4. /\ x \in Seq(Scored) /\ Len(x) = Len(s)
      /\ Len(s) \in 0 .. TopK /\ DOMAIN s = 1 .. Len(s)
      /\ \A r \in 1 .. Len(s) : x[r] = [node |-> s[r], score |-> Reciprocal(r)]
  BY <1>1, RankedHits
<1>5. /\ y \in Seq(Scored) /\ Len(y) = Len(t)
      /\ Len(t) \in 0 .. TopK /\ DOMAIN t = 1 .. Len(t)
      /\ \A r \in 1 .. Len(t) : y[r] = [node |-> t[r], score |-> Reciprocal(r)]
  BY <1>1, RankedHits
<1>6. /\ \A r \in 1 .. Len(s) : s[r] \in Node
      /\ \A r \in 1 .. Len(t) : t[r] \in Node
  <2>1. s \in Seq(Node) /\ t \in Seq(Node)
    BY <1>1, HitsAreFinite
  <2> QED
    BY <2>1, ElementOfSeq
<1>7. AllHits = x \o y
  BY <1>2
<1> HIDE DEF x, y
<1>8. TopK \in Nat /\ Len(s) \in Nat /\ Len(t) \in Nat /\ Len(s) <= TopK /\ Len(t) <= TopK
  BY <1>4, <1>5, SizesAssumption
<1>9. PICK k \in Nat, l \in Nat : k = Len(s) /\ l = Len(t)
  BY <1>8
<1>10. Len(x) = k /\ Len(y) = l
  BY <1>4, <1>5, <1>9
<1>11. /\ Len(x \o y) = k + l
       /\ \A i \in 1 .. k : (x \o y)[i] = x[i]
       /\ \A i \in 1 .. l : (x \o y)[k + i] = y[i]
  BY <1>4, <1>5, <1>10, JoinedItems
<1>12. /\ Len(x \o y) = Len(s) + Len(t)
       /\ \A i \in 1 .. Len(s) : (x \o y)[i] = x[i]
       /\ \A i \in 1 .. Len(t) : (x \o y)[Len(s) + i] = y[i]
  BY <1>9, <1>11
<1>13. Len(AllHits) = Len(s) + Len(t)
  BY <1>7, <1>12
<1>14. \A r \in 1 .. Len(s) :
         AllHits[r] = [node |-> s[r], score |-> Reciprocal(r)] /\ s[r] \in Node
  BY <1>4, <1>6, <1>7, <1>12
<1>15. \A r \in 1 .. Len(t) :
         AllHits[Len(s) + r] = [node |-> t[r], score |-> Reciprocal(r)] /\ t[r] \in Node
  BY <1>5, <1>6, <1>7, <1>12
<1> QED
  BY <1>3, <1>4, <1>5, <1>8, <1>13, <1>14, <1>15 DEF s, t

(* Position d + 1 of the loop is rank r of a store.                        *)
LEMMA NextHit ==
  ASSUME ListsInv, NEW d \in Nat, d < Len(AllHits)
  PROVE  \E store \in {1, 2} : \E r \in DOMAIN hits[store] :
           /\ Ahead(store) + r = d + 1
           /\ r \in 1 .. TopK
           /\ AllHits[d + 1] = [node |-> hits[store][r], score |-> Reciprocal(r)]
           /\ hits[store][r] \in Node
<1> DEFINE s == hits[1]
           t == hits[2]
<1>2. /\ Ahead(1) = 0 /\ Ahead(2) = Len(s)
      /\ Len(s) \in Nat /\ Len(t) \in Nat /\ Len(AllHits) = Len(s) + Len(t)
      /\ DOMAIN s = 1 .. Len(s) /\ DOMAIN t = 1 .. Len(t)
      /\ Len(s) <= TopK /\ Len(t) <= TopK /\ TopK \in Nat
      /\ \A r \in 1 .. Len(s) :
           AllHits[r] = [node |-> s[r], score |-> Reciprocal(r)] /\ s[r] \in Node
      /\ \A r \in 1 .. Len(t) :
           AllHits[Len(s) + r] = [node |-> t[r], score |-> Reciprocal(r)] /\ t[r] \in Node
  BY AllHitsAre
<1>1. hits[1] = s /\ hits[2] = t
  OBVIOUS
<1> HIDE DEF s, t
<1>3. PICK l \in Nat, k \in Nat : l = Len(s) /\ k = Len(t)
  BY <1>2
<1>4. CASE d + 1 <= l
  <2>1. PICK r \in Nat : r = d + 1
    OBVIOUS
  <2>2. r \in 1 .. l /\ r \in 1 .. TopK /\ 0 + r = d + 1
    BY <1>2, <1>3, <1>4, <2>1
  <2>3. AllHits[r] = [node |-> s[r], score |-> Reciprocal(r)] /\ s[r] \in Node
    BY <1>2, <1>3, <2>2
  <2> QED
    BY <1>1, <1>2, <1>3, <2>1, <2>2, <2>3, Zenon
<1>5. CASE d + 1 > l
  <2>1. PICK r \in Int : r = d + 1 - l
    OBVIOUS
  <2>2. r \in 1 .. k /\ r \in 1 .. TopK /\ l + r = d + 1
    BY <1>2, <1>3, <1>5, <2>1
  <2>3. AllHits[l + r] = [node |-> t[r], score |-> Reciprocal(r)] /\ t[r] \in Node
    BY <1>2, <1>3, <2>2
  <2> QED
    BY <1>1, <1>2, <1>3, <2>2, <2>3, Zenon
<1> QED
  BY <1>4, <1>5

(* Taking it adds one rank to its own text, and changes no other's.        *)
Adds(d, e, store, r, h) ==
  /\ \A g : g # h => \A o \in {1, 2} : Among(e, o, g) = Among(d, o, g)
  /\ \A o \in {1, 2} : o # store => Among(e, o, h) = Among(d, o, h)
  /\ Among(e, store, h) = Among(d, store, h) \cup {r}
  /\ r \notin Among(d, store, h)
  /\ Among(d, store, h) \subseteq 1 .. r - 1
  /\ Among(e, store, h) \subseteq RanksIn(store, h)
  /\ RanksIn(store, h) \ Among(e, store, h) \subseteq r + 1 .. TopK

LEMMA OneMoreRank ==
  ASSUME ListsInv, NEW d \in Nat, NEW e \in Nat, e = d + 1,
         NEW store \in {1, 2}, NEW r \in DOMAIN hits[store], Ahead(store) + r = e,
         NEW h, h = Hash(hits[store][r])
  PROVE  Adds(d, e, store, r, h)
<1>1. /\ Ahead(1) = 0 /\ Ahead(2) = Len(hits[1]) /\ Len(hits[1]) \in Nat /\ Len(hits[2]) \in Nat
      /\ DOMAIN hits[1] = 1 .. Len(hits[1]) /\ DOMAIN hits[2] = 1 .. Len(hits[2])
  BY AllHitsAre
<1>2. r \in Nat \ {0} /\ Ahead(store) \in Nat /\ r \in RanksIn(store, h)
  BY <1>1 DEF RanksIn
<1>3. \A o \in {1, 2} : \A q : /\ RanksIn(o, q) \subseteq Nat \ {0}
                               /\ RanksIn(o, q) \subseteq DOMAIN hits[o]
  BY <1>1 DEF RanksIn
<1>4. ASSUME NEW o \in {1, 2}, NEW k \in DOMAIN hits[o], Ahead(o) + k = e
      PROVE  o = store /\ k = r
  BY <1>1, <1>4
<1>5. ASSUME NEW o \in {1, 2}, NEW q, NEW k \in RanksIn(o, q), ~ (o = store /\ k = r)
      PROVE  Ahead(o) + k <= e <=> Ahead(o) + k <= d
  BY <1>1, <1>3, <1>4, <1>5, SMTT(20)
<1>6. ASSUME NEW g, g # h, NEW o \in {1, 2}
      PROVE  Among(e, o, g) = Among(d, o, g)
  <2>1. \A k \in RanksIn(o, g) : ~ (o = store /\ k = r)
    BY <1>6 DEF RanksIn
  <2> QED
    BY <1>5, <2>1 DEF Among
<1>7. ASSUME NEW o \in {1, 2}, o # store
      PROVE  Among(e, o, h) = Among(d, o, h)
  BY <1>5, <1>7 DEF Among
<1>8. Among(e, store, h) = Among(d, store, h) \cup {r}
  <2>1. Ahead(store) + r <= e
    OBVIOUS
  <2>2. \A k \in RanksIn(store, h) : k # r => (Ahead(store) + k <= e <=> Ahead(store) + k <= d)
    BY <1>5
  <2> QED
    BY <1>2, <2>1, <2>2 DEF Among
<1>9. Among(d, store, h) \subseteq 1 .. r - 1
  BY <1>2, <1>3 DEF Among
<1>10. RanksIn(store, h) \ Among(e, store, h) \subseteq r + 1 .. TopK
  <2>1. RanksIn(store, h) \subseteq 1 .. TopK /\ TopK \in Nat
    BY RanksAreFinite
  <2> QED
    BY <1>2, <1>3, <2>1 DEF Among
<1>11. r \notin Among(d, store, h)
  BY <1>2 DEF Among
<1>12. Among(e, store, h) \subseteq RanksIn(store, h)
  BY DEF Among
<1> QED
  BY <1>6, <1>7, <1>8, <1>9, <1>10, <1>11, <1>12 DEF Adds

LEMMA CountsAreNumbers ==
  ASSUME ListsInv, NEW d, NEW store \in {1, 2}, NEW h
  PROVE  /\ Cardinality(Among(d, store, h)) \in Nat /\ Cardinality(RanksIn(store, h)) \in Nat
         /\ IsFiniteSet(Among(d, store, h)) /\ Among(d, store, h) \subseteq 1 .. TopK
<1>1. Among(d, store, h) \in SUBSET RanksIn(store, h)
  BY DEF Among
<1> QED
  BY <1>1, RanksAreFinite

(* It does not matter which store is named first.                          *)
LEMMA EitherStore ==
  ASSUME ListsInv, NEW d, NEW h, NEW v
  PROVE  Weighed(d, 1, 2, h, v) <=> Weighed(d, 2, 1, h, v)
<1> DEFINE c(o) == Cardinality(Among(d, o, h))
           m(o) == Cardinality(RanksIn(o, h))
<1>1. \A o \in {1, 2} : c(o) \in Nat /\ m(o) \in Nat
  BY CountsAreNumbers
<1>2. /\ Best(c(1)) + Best(c(2)) = Best(c(2)) + Best(c(1))
      /\ Least(c(1), m(1)) + Least(c(2), m(2)) = Least(c(2), m(2)) + Least(c(1), m(1))
      /\ c(1) + c(2) = c(2) + c(1)
  BY <1>1 DEF Best, Least
<1>3. Between(d, 1, 2, h, v) <=> Between(d, 2, 1, h, v)
  BY <1>2 DEF Between
<1>4. Among(d, 1, h) \cup Among(d, 2, h) = Among(d, 2, h) \cup Among(d, 1, h)
  OBVIOUS
<1>5. Alike(d, 1, 2, h, v) <=> Alike(d, 2, 1, h, v)
  BY <1>2, <1>4, Zenon DEF Alike
<1> QED
  BY <1>3, <1>5 DEF Weighed

(* The text that the next hit belongs to.                                  *)
LEMMA WeighedMore ==
  ASSUME ListsInv, NEW d \in Nat, NEW e \in Nat, e = d + 1,
         NEW s \in {1, 2}, NEW o \in {1, 2}, s # o,
         NEW r \in DOMAIN hits[s], r \in 1 .. TopK, Ahead(s) + r = e,
         NEW h, h = Hash(hits[s][r]), NEW v \in Int, Weighed(d, s, o, h, v)
  PROVE  Weighed(e, s, o, h, v + Reciprocal(r))
<1> DEFINE A == Among(d, s, h)
           B == Among(d, o, h)
           S == RanksIn(s, h)
           c == Cardinality(A)
           k == Cardinality(B)
           m == Cardinality(S)
           l == Cardinality(RanksIn(o, h))
           R == Reciprocal(r)
<1>1. /\ Among(e, o, h) = B
      /\ Among(e, s, h) = A \cup {r} /\ r \notin A
      /\ A \subseteq 1 .. r - 1
      /\ S \ (A \cup {r}) \subseteq r + 1 .. TopK
      /\ A \cup {r} \subseteq S
  <2>1. Adds(d, e, s, r, h)
    BY OneMoreRank
  <2> QED
    BY <2>1 DEF Adds
<1>2. /\ c \in Nat /\ k \in Nat /\ m \in Nat /\ l \in Nat /\ IsFiniteSet(A) /\ IsFiniteSet(S)
      /\ A \subseteq 1 .. TopK /\ B \subseteq 1 .. TopK
  BY CountsAreNumbers, RanksAreFinite
<1>3. /\ R \in Nat /\ r \in Nat \ {0} /\ r <= TopK /\ Unit \in Nat /\ TopK \in Nat
      /\ TopK <= 11 => 4200 * R <= Unit * (71 - r)
      /\ 4556 * R >= Unit * (76 - r)
  BY Shares, Lines
<1>4. Cardinality(Among(e, s, h)) = c + 1
  BY <1>1, <1>2, FS_AddElement
<1>5. c + 1 <= r
  <2>1. IsFiniteSet(1 .. r - 1) /\ Cardinality(1 .. r - 1) = r - 1
    <3>1. 1 \in Int /\ r - 1 \in Int
      BY <1>3
    <3>2. /\ IsFiniteSet(1 .. r - 1)
          /\ Cardinality(1 .. r - 1) = IF 1 > r - 1 THEN 0 ELSE r - 1 - 1 + 1
      BY <3>1, FS_Interval, Zenon
    <3> QED
      BY <1>3, <3>2
  <2>2. c <= r - 1
    BY <1>1, <2>1, FS_Subset
  <2> QED
    BY <1>2, <1>3, <2>2
<1>6. m - (c + 1) <= TopK - r
  <2>1. IsFiniteSet(r + 1 .. TopK) /\ Cardinality(r + 1 .. TopK) = TopK - r
    <3>1. r + 1 \in Int /\ TopK \in Int
      BY <1>3
    <3>2. /\ IsFiniteSet(r + 1 .. TopK)
          /\ Cardinality(r + 1 .. TopK) = IF r + 1 > TopK THEN 0 ELSE TopK - (r + 1) + 1
      BY <3>1, FS_Interval, Zenon
    <3>3. TopK - r = IF r + 1 > TopK THEN 0 ELSE TopK - (r + 1) + 1
      BY <1>3
    <3> QED
      BY <3>2, <3>3
  <2>2. Cardinality(S \ (A \cup {r})) <= TopK - r
    <3>1. Cardinality(S \ (A \cup {r})) <= Cardinality(r + 1 .. TopK)
      BY <1>1, <2>1, FS_Subset, Zenon
    <3> QED
      BY <2>1, <3>1
  <2>3. Cardinality(S \ (A \cup {r})) = m - Cardinality(S \cap (A \cup {r}))
    BY <1>2, FS_Difference
  <2>4. S \cap (A \cup {r}) = A \cup {r}
    BY <1>1
  <2> QED
    BY <1>1, <1>4, <2>2, <2>3, <2>4
<1>7. ASSUME TopK <= 11
      PROVE  Between(e, s, o, h, v + R)
  <2> DEFINE x == Best(c) + Best(k)
             y == Least(c, m) + Least(k, l)
  <2>1. AtMost(v, x) /\ AtLeast(v, y)
    BY <1>7 DEF Weighed, Between
  <2>2. /\ 71 - r <= 70 - c /\ 4200 * R <= Unit * (71 - r)
        /\ 76 - r >= 64 + m - c /\ 4556 * R >= Unit * (76 - r)
    BY <1>2, <1>3, <1>5, <1>6, <1>7
  <2>3. /\ x \in Int /\ Best(c + 1) + Best(k) = x + 2 * (70 - c)
        /\ y \in Int /\ Least(c + 1, m) + Least(k, l) = y + 2 * (64 + m - c)
    BY <1>2 DEF Best, Least
  <2> HIDE DEF A, B, S, c, k, m, l, R, x, y
  <2>4. /\ v \in Int /\ R \in Int /\ 71 - r \in Int /\ 70 - c \in Int
        /\ 76 - r \in Int /\ 64 + m - c \in Int
    BY <1>2, <1>3
  <2>5. AtMost(v + R, x + 2 * (70 - c)) /\ AtLeast(v + R, y + 2 * (64 + m - c))
    <3>1. \A i, j \in Int : i <= j => Unit * i <= Unit * j
      BY <1>3
    <3>2. Unit * (71 - r) <= Unit * (70 - c) /\ Unit * (64 + m - c) <= Unit * (76 - r)
      BY <2>2, <2>4, <3>1
    <3>3. /\ Unit * (x + 2 * (70 - c)) = Unit * x + 2 * (Unit * (70 - c))
          /\ Unit * (y + 2 * (64 + m - c)) = Unit * y + 2 * (Unit * (64 + m - c))
      BY <1>3, <2>3, <2>4
    <3>4. /\ Unit * x \in Int /\ Unit * (71 - r) \in Int /\ Unit * (70 - c) \in Int
          /\ Unit * y \in Int /\ Unit * (76 - r) \in Int /\ Unit * (64 + m - c) \in Int
      BY <1>3, <2>3, <2>4
    <3> QED
      BY <2>1, <2>2, <2>4, <3>2, <3>3, <3>4 DEF AtMost, AtLeast
  <2>6. /\ AtMost(v + R, Best(c + 1) + Best(k))
        /\ AtLeast(v + R, Least(c + 1, m) + Least(k, l))
    BY <2>3, <2>5
  <2> QED
    BY <1>1, <1>4, <2>6 DEF Between, A, B, S, c, k, m, l, R
<1>8. ASSUME NEW t \in 1 .. TopK
      PROVE  /\ (\A i \in (A \cup {r}) \cup B : i >= t) => v + R <= (c + 1 + k) * Reciprocal(t)
             /\ (\A i \in (A \cup {r}) \cup B : i <= t) => v + R >= (c + 1 + k) * Reciprocal(t)
  <2> DEFINE T == Reciprocal(t)
  <2>1. /\ (\A i \in A \cup B : i >= t) => v <= (c + k) * T
        /\ (\A i \in A \cup B : i <= t) => v >= (c + k) * T
    BY DEF Weighed, Alike
  <2>2. T \in Nat /\ t \in Int
    BY Shares
  <2>3. (t <= r => R <= T) /\ (r <= t => T <= R)
    BY <1>3, LaterIsLess
  <2> HIDE DEF A, B, S, c, k, m, l, R, T
  <2>4. (c + 1 + k) * T = (c + k) * T + T /\ (c + k) * T \in Int
    BY <1>2, <2>2
  <2>5. ASSUME \A i \in (A \cup {r}) \cup B : i >= t
        PROVE  v + R <= (c + 1 + k) * T
    <3>1. r >= t /\ \A i \in A \cup B : i >= t
      BY <2>5
    <3>2. v <= (c + k) * T /\ R <= T
      BY <1>3, <2>1, <2>2, <2>3, <3>1
    <3> QED
      BY <1>3, <2>2, <2>4, <3>2
  <2>6. ASSUME \A i \in (A \cup {r}) \cup B : i <= t
        PROVE  v + R >= (c + 1 + k) * T
    <3>1. r <= t /\ \A i \in A \cup B : i <= t
      BY <2>6
    <3>2. v >= (c + k) * T /\ T <= R
      BY <1>3, <2>1, <2>2, <2>3, <3>1
    <3> QED
      BY <1>3, <2>2, <2>4, <3>2
  <2> QED
    BY <2>5, <2>6 DEF T
<1>9. Alike(e, s, o, h, v + R)
  BY <1>1, <1>4, <1>8 DEF Alike
<1> QED
  BY <1>7, <1>9 DEF Weighed

(* A text without a rank so far has weight 0.                              *)
LEMMA WeighedNothing ==
  ASSUME ListsInv, NEW d, NEW h, Among(d, 1, h) = {}, Among(d, 2, h) = {}
  PROVE  Weighed(d, 1, 2, h, 0)
<1>1. Cardinality({}) = 0
  BY FS_EmptySet
<1>2. /\ Cardinality(RanksIn(1, h)) \in Nat /\ Cardinality(RanksIn(2, h)) \in Nat
      /\ Unit \in Nat
  BY RanksAreFinite, UnitAssumption
<1>3. Best(0) = 0 /\ \A m \in Nat : Least(0, m) = 0
  BY DEF Best, Least
<1>4. Between(d, 1, 2, h, 0)
  BY <1>1, <1>2, <1>3 DEF Between, AtMost, AtLeast
<1>5. \A t \in 1 .. TopK : (0 + 0) * Reciprocal(t) = 0
  BY Shares
<1>6. Alike(d, 1, 2, h, 0)
  BY <1>1, <1>5 DEF Alike
<1> QED
  BY <1>4, <1>6 DEF Weighed

(* What the loop makes of the dictionary: the entry with the hit's hash,   *)
(* if there is none yet a new one, has the hit's share on top.             *)
LEMMA CountedEntries ==
  ASSUME NEW s \in Seq(Scored), NEW x \in Scored, HashesDiffer(s),
         NEW i \in DOMAIN Counted(s, x)
  PROVE  LET y == Counted(s, x)[i]
         IN \/ /\ Hash(y.node) # Hash(x.node)
               /\ \E j \in DOMAIN s : y = s[j]
            \/ /\ Hash(y.node) = Hash(x.node)
               /\ Hash(x.node) \notin Hashes(NodesOf(s))
               /\ y.score = x.score
            \/ /\ Hash(y.node) = Hash(x.node)
               /\ \E j \in DOMAIN s : /\ Hash(s[j].node) = Hash(x.node)
                                      /\ y.score = s[j].score + x.score
<1> DEFINE at == WithHash(s, x.node)
           z == [node |-> x.node, score |-> Score(s, at) + x.score]
           t == Put(s, at, z)
<1>1. /\ at \in SUBSET DOMAIN s
      /\ \A j \in DOMAIN s : j \in at <=> Hash(s[j].node) = Hash(x.node)
  BY DEF WithHash
<1>2. Counted(s, x) = t
  BY DEF Counted
<1>3. /\ \A j \in DOMAIN s : s[j] \in Scored /\ s[j].node \in NodesOf(s)
      /\ \A n \in NodesOf(s) : \E j \in DOMAIN s : s[j].node = n
      /\ x.score \in Int /\ x.node \in Node
  BY NodesAreNodes DEF Scored
<1>4. \A j \in DOMAIN s : s[j].score \in Int
  BY <1>3 DEF Scored
<1>5. CASE at = {}
  <2>1. Score(s, at) = 0
    BY <1>5 DEF Score
  <2>2. z = x
    BY <1>3, <2>1 DEF Scored
  <2>3. t = Append(s, x)
    BY <1>5, <2>2 DEF Put
  <2>4. Hash(x.node) \notin Hashes(NodesOf(s))
    BY <1>1, <1>3, <1>5 DEF Hashes
  <2>5. /\ DOMAIN Append(s, x) = DOMAIN s \cup {Len(s) + 1}
        /\ \A j \in DOMAIN s : Append(s, x)[j] = s[j]
        /\ Append(s, x)[Len(s) + 1] = x
    BY Appended
  <2>6. Counted(s, x) = Append(s, x)
    BY <1>2, <2>3
  <2> HIDE DEF at, z, t
  <2>7. CASE i \in DOMAIN s
    <3>1. Counted(s, x)[i] = s[i] /\ Hash(s[i].node) # Hash(x.node)
      BY <1>1, <1>5, <2>5, <2>6, <2>7
    <3> QED
      BY <2>7, <3>1
  <2>8. CASE i = Len(s) + 1
    BY <2>4, <2>5, <2>6, <2>8
  <2> QED
    BY <2>5, <2>6, <2>7, <2>8
<1>6. CASE at # {}
  <2> DEFINE k == CHOOSE k \in at : TRUE
  <2>1. k \in at
    BY <1>6
  <2>2. Score(s, at) = s[k].score /\ t = [s EXCEPT ![k] = z]
    BY <1>6 DEF Score, Put
  <2>3. z.node = x.node /\ z.score = s[k].score + x.score
    BY <2>2
  <2> HIDE DEF at, z, t, k
  <2>4. k \in DOMAIN s /\ Hash(s[k].node) = Hash(x.node)
    BY <1>1, <2>1
  <2>5. \A j \in DOMAIN s : Hash(s[j].node) = Hash(x.node) => j = k
    BY <2>4 DEF HashesDiffer
  <2>6. i \in DOMAIN s /\ t[i] = IF i = k THEN z ELSE s[i]
    BY <1>2, <2>2
  <2>7. CASE i = k
    <3>1. Counted(s, x)[i] = z
      BY <1>2, <2>6, <2>7
    <3> QED
      BY <2>3, <2>4, <3>1
  <2>8. CASE i # k
    <3>1. Counted(s, x)[i] = s[i] /\ Hash(s[i].node) # Hash(x.node)
      BY <1>2, <2>5, <2>6, <2>8
    <3> QED
      BY <2>6, <3>1
  <2> QED
    BY <2>7, <2>8
<1> QED
  BY <1>5, <1>6

(* The hits are the same as long as the loop goes on.                      *)
LEMMA SameHits ==
  ASSUME hits' = hits
  PROVE  /\ AllHits' = AllHits
         /\ \A d, o, h : Among(d, o, h)' = Among(d, o, h)
         /\ \A d, s, o, h, v : Weighed(d, s, o, h, v)' <=> Weighed(d, s, o, h, v)
<1>1. AllHits' = AllHits
  BY DEF AllHits, Ranked, Reciprocal
<1>2. \A o, h : RanksIn(o, h)' = RanksIn(o, h)
  BY DEF RanksIn
<1>3. \A d, o, h : Among(d, o, h)' = Among(d, o, h)
  BY DEF Among, Ahead, RanksIn
<1>4. \A d, s, o, h, v : Between(d, s, o, h, v)' <=> Between(d, s, o, h, v)
  BY <1>2, <1>3 DEF Between, AtMost, AtLeast
<1>5. \A d, s, o, h, v : Alike(d, s, o, h, v)' <=> Alike(d, s, o, h, v)
  BY <1>3 DEF Alike, Reciprocal
<1> QED
  BY <1>1, <1>3, <1>4, <1>5 DEF Weighed

LEMMA CountScores == ListsInv /\ ScoresInv /\ Count => ScoresInv'
<1> SUFFICES ASSUME ListsInv, ScoresInv, Count
             PROVE  ScoresInv'
  OBVIOUS
<1> DEFINE x == Head(todo)
           new == Counted(list, x)
<1>1. /\ pc = "counting" /\ todo # <<>>
      /\ list' = new /\ todo' = Tail(todo) /\ hits' = hits
  BY DEF Count
<1>2. /\ todo \in Seq(Scored) /\ list \in Seq(Scored) /\ HashesDiffer(list)
  BY <1>1 DEF ListsInv, ListsTyped, ListsDiffer, Held
<1>3. /\ x = todo[1] /\ x \in Scored
      /\ Len(todo) \in Nat \ {0} /\ Len(todo') = Len(todo) - 1
      /\ \A i \in 1 .. Len(todo) - 1 : todo'[i] = todo[i + 1]
  BY <1>1, <1>2, HeadTailProperties, LenProperties, EmptySeq
<1>4. /\ AllHits' = AllHits
      /\ \A f, o, h : Among(f, o, h)' = Among(f, o, h)
      /\ \A f, s, o, h, v : Weighed(f, s, o, h, v)' <=> Weighed(f, s, o, h, v)
  BY <1>1, SameHits
<1>5. Len(todo) <= Len(AllHits) /\ Len(AllHits) \in Nat
  BY <1>1, AllHitsAre DEF ScoresInv
<1>6. PICK d \in Nat, e \in Nat : /\ d = Gone /\ e = Gone' /\ e = d + 1
                                 /\ d < Len(AllHits)
  <2>1. Gone = Len(AllHits) - Len(todo) /\ Gone' = Len(AllHits) - Len(todo')
    BY <1>4 DEF Gone
  <2>2. Gone \in Nat /\ Gone' \in Nat /\ Gone' = Gone + 1 /\ Gone < Len(AllHits)
    BY <1>3, <1>5, <2>1
  <2> HIDE DEF Gone
  <2> QED
    BY <2>2
<1>7. /\ \A i \in 1 .. Len(todo) : todo[i] = AllHits[d + i]
      /\ \A h \in Hashes(Node) \ Hashes(NodesOf(list)) : Among(d, 1, h) = {} /\ Among(d, 2, h) = {}
      /\ \A i \in DOMAIN list : Weighed(d, 1, 2, Hash(list[i].node), list[i].score)
  BY <1>1, <1>6 DEF ScoresInv
<1>8. x = AllHits[d + 1]
  BY <1>3, <1>7
<1> HIDE DEF x
<1>9. PICK store \in {1, 2} : \E r \in DOMAIN hits[store] :
         /\ Ahead(store) + r = d + 1
         /\ r \in 1 .. TopK
         /\ AllHits[d + 1] = [node |-> hits[store][r], score |-> Reciprocal(r)]
         /\ hits[store][r] \in Node
  BY <1>6, NextHit
<1>10. PICK r \in DOMAIN hits[store] :
        /\ Ahead(store) + r = e
        /\ r \in 1 .. TopK
        /\ x = [node |-> hits[store][r], score |-> Reciprocal(r)]
        /\ hits[store][r] \in Node
  BY <1>6, <1>8, <1>9
<1>11. PICK h : h = Hash(hits[store][r])
  OBVIOUS
<1>12. x.node \in Node /\ Hash(x.node) = h /\ x.score = Reciprocal(r) /\ h \in Hashes(Node)
  BY <1>10, <1>11 DEF Hashes
<1>13. Adds(d, e, store, r, h)
  BY <1>6, <1>10, <1>11, OneMoreRank
<1>14. \A g : g # h => Among(e, 1, g) = Among(d, 1, g) /\ Among(e, 2, g) = Among(d, 2, g)
  BY <1>13 DEF Adds
<1>15. ASSUME NEW v \in Int, Weighed(d, 1, 2, h, v)
       PROVE  Weighed(e, 1, 2, h, v + Reciprocal(r))
  <2>1. Weighed(d, 2, 1, h, v)
    BY <1>15, EitherStore
  <2>2. CASE store = 1
    BY <1>6, <1>10, <1>11, <1>15, <2>2, WeighedMore
  <2>3. CASE store = 2
    <3>1. Weighed(e, 2, 1, h, v + Reciprocal(r))
      BY <1>6, <1>10, <1>11, <2>1, <2>3, WeighedMore
    <3> QED
      BY <3>1, EitherStore
  <2> QED
    BY <2>2, <2>3
<1>16. ASSUME NEW g, g # h, NEW v, Weighed(d, 1, 2, g, v)
       PROVE  Weighed(e, 1, 2, g, v)
  BY <1>14, <1>16 DEF Weighed, Between, Alike
<1>17. /\ new \in Seq(Scored)
       /\ Hashes(NodesOf(new)) = Hashes(NodesOf(list)) \cup {h}
  BY <1>2, <1>3, <1>12, CountedByHash
<1>18. ASSUME NEW i \in DOMAIN new
       PROVE  Weighed(e, 1, 2, Hash(new[i].node), new[i].score)
  <2> DEFINE y == new[i]
  <2>1. \/ /\ Hash(y.node) # h
           /\ \E j \in DOMAIN list : y = list[j]
        \/ /\ Hash(y.node) = h
           /\ h \notin Hashes(NodesOf(list))
           /\ y.score = Reciprocal(r)
        \/ /\ Hash(y.node) = h
           /\ \E j \in DOMAIN list : /\ Hash(list[j].node) = h
                                     /\ y.score = list[j].score + Reciprocal(r)
    BY <1>2, <1>3, <1>12, <1>18, CountedEntries
  <2> SUFFICES Weighed(e, 1, 2, Hash(y.node), y.score)
    OBVIOUS
  <2> HIDE DEF y, new
  <2>2. CASE Hash(y.node) # h /\ \E j \in DOMAIN list : y = list[j]
    <3>1. PICK j \in DOMAIN list : y = list[j]
      BY <2>2
    <3>2. Weighed(d, 1, 2, Hash(y.node), y.score)
      BY <1>7, <3>1
    <3> QED
      BY <1>16, <2>2, <3>2
  <2>3. CASE Hash(y.node) = h /\ h \notin Hashes(NodesOf(list)) /\ y.score = Reciprocal(r)
    <3>1. Weighed(d, 1, 2, h, 0)
      BY <1>7, <1>12, <2>3, WeighedNothing
    <3>2. Weighed(e, 1, 2, h, 0 + Reciprocal(r))
      BY <1>15, <3>1
    <3>3. 0 + Reciprocal(r) = Reciprocal(r)
      BY <1>10, Shares
    <3>4. Weighed(e, 1, 2, h, Reciprocal(r))
      BY <3>2, <3>3
    <3> QED
      BY <2>3, <3>4, Zenon
  <2>4. CASE /\ Hash(y.node) = h
             /\ \E j \in DOMAIN list : /\ Hash(list[j].node) = h
                                       /\ y.score = list[j].score + Reciprocal(r)
    <3>1. PICK j \in DOMAIN list : Hash(list[j].node) = h /\ y.score = list[j].score + Reciprocal(r)
      BY <2>4
    <3>2. list[j].score \in Int
      BY <1>2, NodesAreNodes DEF Scored
    <3>3. Weighed(d, 1, 2, h, list[j].score)
      BY <1>7, <3>1
    <3>4. Weighed(e, 1, 2, h, list[j].score + Reciprocal(r))
      BY <1>15, <3>2, <3>3
    <3> QED
      BY <2>4, <3>1, <3>4, Zenon
  <2> QED
    BY <2>1, <2>2, <2>3, <2>4, Zenon
<1>19. ASSUME NEW g \in Hashes(Node) \ Hashes(NodesOf(new))
       PROVE  Among(e, 1, g) = {} /\ Among(e, 2, g) = {}
  BY <1>7, <1>14, <1>17
<1>20. ASSUME NEW i \in 1 .. Len(todo')
       PROVE  todo'[i] = AllHits[e + i]
  <2>1. i \in 1 .. Len(todo) - 1 /\ i + 1 \in 1 .. Len(todo) /\ d + (i + 1) = e + i
    BY <1>3, <1>6
  <2> QED
    BY <1>3, <1>7, <2>1
<1>21. Len(todo') <= Len(AllHits')
  BY <1>3, <1>4, <1>5
<1> HIDE DEF new
<1>22. /\ \A i \in 1 .. Len(todo') : todo'[i] = AllHits'[Gone' + i]
       /\ \A g \in Hashes(Node) \ Hashes(NodesOf(list')) : Among(Gone', 1, g) = {} /\ Among(Gone', 2, g) = {}
       /\ \A i \in DOMAIN list' : Weighed(Gone', 1, 2, Hash(list'[i].node), list'[i].score)
  BY <1>1, <1>4, <1>18, <1>19, <1>20, <1>6
<1> QED
  BY <1>4, <1>21, <1>22 DEF ScoresInv, Hashes, NodesOf

-----------------------------------------------------------------------------
(* The sorting.                                                            *)
LEMMA FirstOf ==
  ASSUME NEW S, S \subseteq Nat, S # {}
  PROVE  \E m \in S : \A k \in S : m <= k
<1> DEFINE R == OpToRel(<, Nat)
<1>1. IsWellFoundedOn(R, Nat)
  BY NatLessThanWellFounded
<1>2. \A j, k \in Nat : <<j, k>> \in R <=> j < k
  BY DEF OpToRel
<1> HIDE DEF R
<1>3. PICK m \in S : \A k \in S : ~ (<<k, m>> \in R)
  BY <1>1, WFMin
<1>4. \A k \in S : ~ (k < m)
  BY <1>2, <1>3
<1> QED
  BY <1>4

LEMMA AllAmong ==
  ASSUME ListsInv, NEW d, d = Len(AllHits), NEW o \in {1, 2}, NEW h
  PROVE  Among(d, o, h) = RanksIn(o, h)
<1>1. /\ Ahead(1) = 0 /\ Ahead(2) = Len(hits[1])
      /\ Len(hits[1]) \in Nat /\ Len(hits[2]) \in Nat
      /\ d = Len(hits[1]) + Len(hits[2])
      /\ DOMAIN hits[1] = 1 .. Len(hits[1]) /\ DOMAIN hits[2] = 1 .. Len(hits[2])
  BY AllHitsAre
<1>2. PICK k \in Nat, l \in Nat : k = Len(hits[1]) /\ l = Len(hits[2])
  BY <1>1
<1>3. DOMAIN hits[1] = 1 .. k /\ DOMAIN hits[2] = 1 .. l
  BY <1>1, <1>2
<1>4. d = k + l
  BY <1>1, <1>2
<1>5. \A r \in 1 .. k : 0 + r <= d
  BY <1>4
<1>6. \A r \in 1 .. l : k + r <= d
  BY <1>4
<1>7. Ahead(1) = 0 /\ Ahead(2) = k
  BY <1>1, <1>2
<1>8. \A r \in DOMAIN hits[o] : Ahead(o) + r <= d
  BY <1>3, <1>5, <1>6, <1>7
<1> QED
  BY <1>8 DEF Among, RanksIn

(* A rank of a store is one text's: two texts share the ranks up to TopK.  *)
LEMMA SharedRanks ==
  ASSUME ListsInv, NEW o \in {1, 2}, NEW a, NEW b, a # b
  PROVE  Cardinality(RanksIn(o, a)) + Cardinality(RanksIn(o, b)) <= TopK
<1> DEFINE A == RanksIn(o, a)
           B == RanksIn(o, b)
<1>1. /\ A \subseteq 1 .. TopK /\ B \subseteq 1 .. TopK /\ TopK \in Nat
      /\ IsFiniteSet(A) /\ IsFiniteSet(B)
      /\ Cardinality(A) \in Nat /\ Cardinality(B) \in Nat
  BY RanksAreFinite
<1>2. A \cap B = {}
  BY DEF RanksIn
<1> HIDE DEF A, B
<1>3. Cardinality(A \cup B) = Cardinality(A) + Cardinality(B) - Cardinality(A \cap B)
  BY <1>1, FS_Union
<1>4. Cardinality(A \cap B) = 0
  BY <1>2, FS_EmptySet
<1>5. IsFiniteSet(1 .. TopK) /\ Cardinality(1 .. TopK) = TopK
  <2>1. 1 \in Int /\ TopK \in Int
    BY <1>1
  <2>2. IsFiniteSet(1 .. TopK) /\ Cardinality(1 .. TopK) = IF 1 > TopK THEN 0 ELSE TopK - 1 + 1
    BY <2>1, FS_Interval, Zenon
  <2> QED
    BY <1>1, <2>2
<1>6. Cardinality(A \cup B) <= Cardinality(1 .. TopK)
  BY <1>1, <1>5, FS_Subset
<1>7. Cardinality(A) + Cardinality(B) <= TopK
  BY <1>1, <1>3, <1>4, <1>5, <1>6
<1> QED
  BY <1>7 DEF A, B

(* Two entries of the dictionary when every hit is counted.                *)
LEMMA MoreHitsWeighMore ==
  ASSUME ListsInv, TopK <= 11, NEW d, d = Len(AllHits), NEW a, NEW b,
         NEW va \in Int, NEW vb \in Int, va >= vb,
         Weighed(d, 1, 2, a, va), Weighed(d, 1, 2, b, vb)
  PROVE  HitCount(a) >= HitCount(b)
<1> DEFINE n1 == Cardinality(RanksIn(1, a))
           n2 == Cardinality(RanksIn(2, a))
           m1 == Cardinality(RanksIn(1, b))
           m2 == Cardinality(RanksIn(2, b))
<1>1. n1 \in Nat /\ n2 \in Nat /\ m1 \in Nat /\ m2 \in Nat /\ TopK \in Nat /\ Unit \in Nat \ {0}
  BY RanksAreFinite, SizesAssumption, UnitAssumption
<1>2. /\ AtMost(va, Best(n1) + Best(n2))
      /\ AtLeast(vb, Least(m1, m1) + Least(m2, m2))
  BY AllAmong DEF Weighed, Between
<1>3. HitCount(a) = n1 + n2 /\ HitCount(b) = m1 + m2
  BY DEF HitCount
<1>4. a # b => n1 + m1 <= TopK /\ n2 + m2 <= TopK
  BY SharedRanks
<1>5. a = b => HitCount(a) = HitCount(b)
  OBVIOUS
<1> HIDE DEF n1, n2, m1, m2
<1> SUFFICES ASSUME n1 + n2 < m1 + m2
             PROVE  FALSE
  BY <1>1, <1>3
<1>6. n1 + m1 <= 11 /\ n2 + m2 <= 11
  BY <1>1, <1>3, <1>4, <1>5
<1> DEFINE B == Best(n1) + Best(n2)
           L == Least(m1, m1) + Least(m2, m2)
<1>7. 9112 * B < 8400 * L
  BY <1>1, <1>6, MoreIsMore
<1>8. B \in Int /\ L \in Int
  BY <1>1 DEF Best, Least
<1>9. 8400 * va <= Unit * B /\ 9112 * vb >= Unit * L
  BY <1>2 DEF AtMost, AtLeast
<1> HIDE DEF B, L
<1>10. PICK u \in Nat \ {0} : u = Unit
  BY <1>1
<1>11. u * (8400 * L - 9112 * B) > 0
  BY <1>7, <1>8
<1>12. /\ u * (8400 * L - 9112 * B) = 8400 * (u * L) - 9112 * (u * B)
       /\ u * L \in Int /\ u * B \in Int
  BY <1>8
<1>13. 8400 * va <= u * B /\ 9112 * vb >= u * L
  BY <1>9, <1>10
<1> QED
  BY <1>11, <1>12, <1>13

LEMMA EarlierHitsWeighMore ==
  ASSUME ListsInv, NEW d, d = Len(AllHits), NEW a, NEW b,
         NEW va \in Int, NEW vb \in Int, va >= vb,
         Weighed(d, 1, 2, a, va), Weighed(d, 1, 2, b, vb),
         HitCount(a) = HitCount(b), RanksOf(a) # {}
  PROVE  \E x \in RanksOf(a), y \in RanksOf(b) : x <= y
<1> DEFINE n == HitCount(a)
<1>1. /\ Cardinality(RanksIn(1, a)) \in Nat /\ Cardinality(RanksIn(2, a)) \in Nat
      /\ IsFiniteSet(RanksIn(1, a)) /\ IsFiniteSet(RanksIn(2, a))
      /\ RanksOf(a) \subseteq 1 .. TopK /\ RanksOf(b) \subseteq 1 .. TopK /\ TopK \in Nat
  BY RanksAreFinite DEF RanksOf
<1>2. \A t \in 1 .. TopK :
        /\ (\A r \in RanksOf(a) : r >= t) => va <= n * Reciprocal(t)
        /\ (\A r \in RanksOf(b) : r <= t) => vb >= n * Reciprocal(t)
  BY AllAmong DEF Weighed, Alike, RanksOf, HitCount
<1>3. n \in Nat /\ n > 0
  <2>1. RanksIn(1, a) # {} \/ RanksIn(2, a) # {}
    BY DEF RanksOf
  <2>2. Cardinality(RanksIn(1, a)) > 0 \/ Cardinality(RanksIn(2, a)) > 0
    BY <1>1, <2>1, FS_EmptySet
  <2> QED
    BY <1>1, <2>2 DEF HitCount
<1>4. RanksOf(b) # {}
  <2> SUFFICES ASSUME RanksOf(b) = {}
               PROVE  FALSE
    OBVIOUS
  <2>1. RanksIn(1, b) = {} /\ RanksIn(2, b) = {}
    BY DEF RanksOf
  <2>2. HitCount(b) = 0 + 0
    BY <2>1, FS_EmptySet DEF HitCount
  <2> QED
    BY <1>3, <2>2
<1> HIDE DEF n
<1> SUFFICES ASSUME \A x \in RanksOf(a), y \in RanksOf(b) : ~ (x <= y)
             PROVE  FALSE
  OBVIOUS
<1>5. RanksOf(a) \subseteq Nat
  BY <1>1
<1>6. PICK t \in RanksOf(a) : \A r \in RanksOf(a) : t <= r
  BY <1>5, FirstOf
<1>7. PICK y \in RanksOf(b) : TRUE
  BY <1>4
<1>8. t \in 1 .. TopK /\ y \in 1 .. TopK /\ y < t
  BY <1>1
<1>9. t - 1 \in 1 .. TopK /\ t - 1 < t
  BY <1>1, <1>8
<1>10. \A r \in RanksOf(b) : r <= t - 1
  BY <1>1
<1>11. va <= n * Reciprocal(t)
  BY <1>1, <1>2, <1>6, <1>8
<1>12. vb >= n * Reciprocal(t - 1)
  BY <1>2, <1>9, <1>10
<1>13. /\ Reciprocal(t) \in Nat /\ Reciprocal(t - 1) \in Nat
       /\ Reciprocal(t) < Reciprocal(t - 1)
  BY <1>8, <1>9, Shares, LaterIsLess
<1>14. PICK x1 \in Nat, x2 \in Nat : x1 = Reciprocal(t) /\ x2 = Reciprocal(t - 1)
  BY <1>13
<1>15. n * x1 < n * x2 /\ n * x1 \in Int /\ n * x2 \in Int
  BY <1>3, <1>13, <1>14
<1> QED
  BY <1>11, <1>12, <1>14, <1>15

Ordered == (TopK <= 11 => MoreHitsFirst) /\ EarlierHitsFirst

LEMMA SortedOrder == ListsInv /\ ScoresInv /\ SortByScore => Ordered'
<1> SUFFICES ASSUME ListsInv, ScoresInv, SortByScore
             PROVE  Ordered'
  OBVIOUS
<1>1. PICK p \in Bijection(DOMAIN list, DOMAIN list) :
        BestFirst(list, p) /\ fused' = [i \in DOMAIN list |-> list[p[i]]]
  BY DEF SortByScore
<1>2. pc = "counting" /\ todo = <<>> /\ hits' = hits
  BY DEF SortByScore
<1>3. list \in Seq(Scored) /\ Hashes(NodesOf(list)) = Hashes(Found)
  <2>1. NodesOf(list) \cup NodesOf(todo) = NodesOf(list)
    BY <1>2, EmptyList
  <2> QED
    BY <1>2, <2>1 DEF ListsInv, ListsTyped, Held, NothingLost
<1>4. \A i \in DOMAIN list : list[i].score \in Int /\ list[i].node \in NodesOf(list)
  BY <1>3, NodesAreNodes DEF Scored
<1>5. \A i \in DOMAIN list : p[i] \in DOMAIN list
  BY <1>1 DEF Bijection, Injection
<1>6. PICK d : d = Len(AllHits)
  OBVIOUS
<1>7. \A i \in DOMAIN list : Weighed(d, 1, 2, Hash(list[i].node), list[i].score)
  <2>1. Gone = d
    <3>1. Len(todo) = 0 /\ Len(AllHits) \in Nat
      BY <1>2, EmptySeq, AllHitsAre
    <3> QED
      BY <1>6, <3>1 DEF Gone
  <2> QED
    BY <1>2, <2>1 DEF ScoresInv
<1>8. ASSUME NEW n \in NodesOf(list)
      PROVE  RanksOf(Hash(n)) # {}
  <2>1. PICK m \in Found : Hash(m) = Hash(n)
    BY <1>3 DEF Hashes
  <2>2. \/ \E r \in DOMAIN hits[1] : hits[1][r] = m
        \/ \E r \in DOMAIN hits[2] : hits[2][r] = m
    BY DEF Found, Range
  <2> QED
    BY <2>1, <2>2 DEF RanksOf, RanksIn
<1>9. ASSUME NEW i \in DOMAIN fused', NEW j \in DOMAIN fused', i < j,
             NEW a, NEW b, a = Hash(fused'[i].node), b = Hash(fused'[j].node)
      PROVE  /\ TopK <= 11 => HitCount(a) >= HitCount(b)
             /\ HitCount(a) = HitCount(b) => \E x \in RanksOf(a), y \in RanksOf(b) : x <= y
  <2>1. /\ i \in DOMAIN list /\ j \in DOMAIN list
        /\ fused'[i] = list[p[i]] /\ fused'[j] = list[p[j]]
    BY <1>1
  <2> DEFINE s == list[p[i]]
             t == list[p[j]]
  <2>2. s.score >= t.score
    <3>1. s.score > t.score \/ s.score = t.score
      BY <1>1, <1>9, <2>1 DEF BestFirst
    <3>2. s.score \in Int /\ t.score \in Int
      BY <1>4, <1>5, <2>1
    <3> QED
      BY <3>1, <3>2
  <2>3. /\ a = Hash(s.node) /\ b = Hash(t.node)
        /\ s.score \in Int /\ t.score \in Int /\ s.node \in NodesOf(list)
        /\ Weighed(d, 1, 2, Hash(s.node), s.score)
        /\ Weighed(d, 1, 2, Hash(t.node), t.score)
    BY <1>4, <1>5, <1>7, <1>9, <2>1
  <2> HIDE DEF s, t
  <2>4. Weighed(d, 1, 2, a, s.score) /\ Weighed(d, 1, 2, b, t.score)
    BY <2>3
  <2>5. RanksOf(a) # {}
    BY <1>8, <2>3
  <2> QED
    BY <1>6, <2>2, <2>3, <2>4, <2>5, MoreHitsWeighMore, EarlierHitsWeighMore
<1>10. /\ \A h : HitCount(h)' = HitCount(h)
       /\ \A h : RanksOf(h)' = RanksOf(h)
  BY <1>2 DEF HitCount, RanksOf, RanksIn
<1>11. \A i, j \in DOMAIN fused' : i < j =>
         LET a == Hash(fused'[i].node)
             b == Hash(fused'[j].node)
         IN /\ TopK <= 11 => HitCount(a) >= HitCount(b)
            /\ HitCount(a) = HitCount(b) => \E x \in RanksOf(a), y \in RanksOf(b) : x <= y
  BY <1>9
<1>12. (TopK <= 11 => MoreHitsFirst)'
  BY <1>10, <1>11 DEF MoreHitsFirst
<1>13. EarlierHitsFirst'
  BY <1>10, <1>11 DEF EarlierHitsFirst
<1> QED
  BY <1>12, <1>13 DEF Ordered

(* Before the first hit there is nothing to weigh.                         *)
LEMMA FuseByRankScores == ListsInv /\ FuseByRank => ScoresInv'
<1> SUFFICES ASSUME ListsInv, FuseByRank
             PROVE  ScoresInv'
  OBVIOUS
<1>1. /\ pc = "found" /\ todo' = AllHits /\ list' = list /\ hits' = hits
  BY DEF FuseByRank, AllHits
<1>2. list = <<>>
  BY <1>1 DEF ListsInv, ListsDiffer
<1>3. /\ AllHits' = AllHits
      /\ \A d, o, h : Among(d, o, h)' = Among(d, o, h)
  BY <1>1, SameHits
<1>4. Len(AllHits) \in Nat
  BY AllHitsAre
<1>5. Gone' = 0
  BY <1>1, <1>3, <1>4 DEF Gone
<1>6. \A h : Among(0, 1, h) = {} /\ Among(0, 2, h) = {}
  <2> SUFFICES ASSUME NEW h, NEW o \in {1, 2}, NEW r \in Among(0, o, h)
               PROVE  FALSE
    OBVIOUS
  <2>1. r \in RanksIn(o, h) /\ Ahead(o) + r <= 0
    BY DEF Among
  <2>2. r \in 1 .. TopK /\ TopK \in Nat /\ Ahead(o) \in Nat
    BY <2>1, RanksAreFinite, AllHitsAre
  <2> QED
    BY <2>1, <2>2
<1>7. \A i \in 1 .. Len(todo') : todo'[i] = AllHits'[0 + i]
  BY <1>1, <1>3, <1>4
<1>8. Len(todo') <= Len(AllHits')
  BY <1>1, <1>3, <1>4
<1>9. DOMAIN list' = {}
  BY <1>1, <1>2
<1> QED
  BY <1>3, <1>5, <1>6, <1>7, <1>8, <1>9 DEF ScoresInv

LEMMA ScoresStep ==
  ListsInv /\ ScoresInv /\ Ordered /\ [Next]_vars => ScoresInv' /\ Ordered'
<1> SUFFICES ASSUME ListsInv, ScoresInv, Ordered, [Next]_vars
             PROVE  ScoresInv' /\ Ordered'
  OBVIOUS
<1>1. CASE UNCHANGED vars
  <2>1. pc' = pc /\ hits' = hits /\ todo' = todo /\ list' = list /\ fused' = fused
    BY <1>1 DEF vars
  <2>2. /\ AllHits' = AllHits
        /\ \A d, o, h : Among(d, o, h)' = Among(d, o, h)
        /\ \A d, s, o, h, v : Weighed(d, s, o, h, v)' <=> Weighed(d, s, o, h, v)
    BY <2>1, SameHits
  <2>3. ScoresInv'
    BY <2>1, <2>2 DEF ScoresInv, Gone, NodesOf, Hashes
  <2>4. Ordered'
    BY <2>1 DEF Ordered, MoreHitsFirst, EarlierHitsFirst, HitCount, RanksOf, RanksIn
  <2> QED
    BY <2>3, <2>4
<1>2. ASSUME pc' \notin {"counting", "fused"}
      PROVE  ScoresInv' /\ Ordered'
  BY <1>2 DEF ScoresInv, Ordered, MoreHitsFirst, EarlierHitsFirst
<1>3. CASE FuseByRank
  BY <1>3, FuseByRankScores DEF FuseByRank, Ordered, MoreHitsFirst, EarlierHitsFirst
<1>4. CASE Count
  <2>1. pc' = "counting"
    BY <1>4 DEF Count
  <2> QED
    BY <1>4, <2>1, CountScores DEF Ordered, MoreHitsFirst, EarlierHitsFirst
<1>5. CASE SortByScore
  <2>1. pc' = "fused"
    BY <1>5 DEF SortByScore
  <2> QED
    BY <1>5, <2>1, SortedOrder DEF ScoresInv
<1>6. CASE \/ Search \/ FuseByModel \/ Extend \/ Arrange
           \/ Deduplicate \/ StartMerge \/ Pop \/ Emit \/ Fails \/ Again
  <2>1. pc' \notin {"counting", "fused"}
    BY <1>6 DEF Search, FuseByModel, Extend, Arrange, Deduplicate, StartMerge,
                Pop, Emit, Fails, Again
  <2> QED
    BY <1>2, <2>1
<1>7. CASE FetchNeighbours \/ Place \/ Keep \/ JoinPrev \/ JoinNext
  <2>1. pc' \notin {"counting", "fused"}
    BY <1>7 DEF FetchNeighbours, Place, Keep, JoinPrev, JoinNext
  <2> QED
    BY <1>2, <2>1
<1> QED
  BY <1>1, <1>3, <1>4, <1>5, <1>6, <1>7 DEF Next

-----------------------------------------------------------------------------
(***************************************************************************)
(* The theorems.                                                           *)
(***************************************************************************)

(* The lists and the pieces are what they should be in every state.        *)
THEOREM Invariance == Spec => [](ListsInv /\ MergeInv)
<1>1. ListsInv /\ MergeInv /\ [Next]_vars => (ListsInv /\ MergeInv)'
  BY ListsStep, MergeStep
<1> QED
  BY <1>1, ListsInit, MergeInit, PTL DEF Spec

(* The type invariant: only nodes of the docstore are answered, and no     *)
(* list between two loops has a node twice.                                *)
THEOREM TypeCorrect == Spec => []TypeOK
<1>1. ListsInv /\ MergeInv => TypeOK
  <2> SUFFICES ASSUME ListsInv, MergeInv
               PROVE  TypeOK
    OBVIOUS
  <2>1. \A s \in {list, fused} : \A i, j \in DOMAIN s : s[i].node = s[j].node => i = j
    BY DEF ListsInv, ListsDiffer, IdsDiffer
  <2>2. left \subseteq kept /\ kept \subseteq stored
    BY DEF MergeInv, PartitionInv
  <2>3. pc # "joining" => piece = NoPiece
    BY DEF MergeInv, PiecesInv
  <2>4. \A i \in DOMAIN answer : Nodes(answer[i]) \subseteq kept
    BY DEF MergeInv, PiecesInv, IsRun
  <2> QED
    BY <2>1, <2>2, <2>3, <2>4 DEF TypeOK, ListsInv, ListsTyped, Held, Steps
<1> QED
  BY <1>1, Invariance, PTL

(* PrevNextNodePostprocessor brings each hit's stored neighbours and       *)
(* nothing else, however many hits share a neighbour.                      *)
THEOREM NeighboursAlwaysFetched == Spec => []NeighboursFetched
<1>1. ListsInv => NeighboursFetched
  BY EmptyList DEF ListsInv, NothingLost, NeighboursFetched, Nearby
<1> QED
  BY <1>1, Invariance, PTL

(* MergeConsecutiveNodesPostprocessor answers with each kept text once, in *)
(* the longest runs there are, whatever set.pop takes first.               *)
THEOREM AnswersAreRuns == Spec => []AnswerIsRuns
<1>1. ListsInv /\ MergeInv => AnswerIsRuns
  <2> SUFFICES ASSUME ListsInv, MergeInv, pc = "answered"
               PROVE  /\ UNION {Nodes(answer[i]) : i \in DOMAIN answer} = kept
                      /\ \A m, n \in kept : Hash(m) = Hash(n) => m = n
                      /\ \A i, j \in DOMAIN answer : i # j =>
                           /\ Nodes(answer[i]) \cap Nodes(answer[j]) = {}
                           /\ HasNext(answer[i].last) => NextOf(answer[i].last) # answer[j].first
    BY DEF AnswerIsRuns
  <2>1. UNION {Nodes(answer[i]) : i \in DOMAIN answer} = kept
    BY DEF MergeInv, PartitionInv, Emitted, Current
  <2>2. \A i, j \in DOMAIN answer : HasNext(answer[i].last) => NextOf(answer[i].last) # answer[j].first
    BY DEF MergeInv, PiecesInv, IsRun, Longest
  <2> QED
    BY <2>1, <2>2 DEF MergeInv, PartitionInv
<1> QED
  BY <1>1, Invariance, PTL

(* A node of a seamless piece has its text in the piece's text.            *)
LEMMA TextWithin ==
  ASSUME NEW p \in Pieces, IsRun(p), IsWhole(p), Seamless(p), NEW n \in Nodes(p),
         kept \subseteq Node
  PROVE  HasPart(p.text, Text(n))
<1>1. n \in Node /\ p.first \in Node /\ p.last \in Node
  BY NodesOfRun DEF IsRun
<1>2. PICK a \in Int, b \in Int, c \in Int, d \in Int :
        a = Start(p.first) /\ b = Start(n) /\ c = End(n) /\ d = End(p.last)
  BY <1>1, Offsets
<1> DEFINE sec == Section(p.first)
           whole == Portion(sec, a, d)
           part == Portion(sec, b, c)
           cut == SubSeq(whole, b - a + 1, c - a)
<1>3. a <= b /\ b <= c /\ c <= d /\ Section(n) = sec
  BY <1>1, <1>2, Offsets DEF IsWhole, Within
<1>4. p.text = whole /\ Text(n) = part
  BY <1>1, <1>2, <1>3, TextOfNode DEF IsWhole
<1> HIDE DEF sec
<1>5. cut = part
  BY <1>3 DEF Portion
<1>6. Len(whole) = d - a
  BY <1>3 DEF Portion
<1>7. PICK i \in 0 .. Len(whole), j \in 0 .. Len(whole) : i = b - a /\ j = c - a
  BY <1>3, <1>6
<1> HIDE DEF whole, part
<1>8. HasPart(whole, cut)
  BY <1>7 DEF HasPart
<1> QED
  BY <1>4, <1>5, <1>8

(* No text that was found is missing in the answer, although duplicates    *)
(* are dropped after the neighbours were fetched, nor cut in a piece       *)
(* without a gap, however its nodes were joined.                           *)
THEOREM FoundIsAlwaysAnswered == Spec => []FoundIsAnswered
<1>1. ListsInv /\ MergeInv => FoundIsAnswered
  <2> SUFFICES ASSUME ListsInv, MergeInv
               PROVE  FoundIsAnswered
    OBVIOUS
  <2>1. pc \in {"fused", "reranked"} => Hashes(NodesOf(fused)) = Hashes(Found)
    BY DEF ListsInv, NothingLost
  <2>2. ASSUME pc = "answered", NEW h \in Hashes(NodesOf(fused))
        PROVE  \E i \in DOMAIN answer : \E n \in Nodes(answer[i]) :
                 /\ Hash(n) = h
                 /\ Seamless(answer[i]) => HasPart(answer[i].text, Text(n))
    <3>1. PICK n \in kept : Hash(n) = h
      BY <2>2 DEF ListsInv, NothingLost, Hashes
    <3>2. PICK i \in DOMAIN answer : n \in Nodes(answer[i])
      BY <2>2 DEF MergeInv, PartitionInv, Emitted, Current
    <3>3. answer[i] \in Pieces /\ IsRun(answer[i]) /\ IsWhole(answer[i])
      BY ElementOfSeq DEF MergeInv, PiecesInv
    <3>4. kept \subseteq Node
      BY StoredNodes DEF MergeInv, PartitionInv, ListsInv
    <3> QED
      BY <3>1, <3>2, <3>3, <3>4, TextWithin
  <2> QED
    BY <2>1, <2>2 DEF FoundIsAnswered
<1> QED
  BY <1>1, Invariance, PTL

(* _join_nodes loses no character and repeats none where the nodes of a    *)
(* piece are of one section and leave no gap, in whatever order they were  *)
(* joined.                                                                 *)
THEOREM TextAlwaysWhole == Spec => []TextWhole
<1>1. MergeInv => TextWhole
  BY DEF MergeInv, PiecesInv, IsWhole, TextWhole, Portion
<1> QED
  BY <1>1, Invariance, PTL

(* reciprocal_rerank_fusion puts a text first that occurs in more hits,    *)
(* where the stores give at most 11 each; retriever_top_k is 10.  (With 12 *)
(* the ranks lie so far apart that nine good ones are worth more than ten  *)
(* bad ones.)                                                              *)
THEOREM MoreHitsAlwaysFirst ==
  ASSUME TopK <= 11
  PROVE  Spec => []MoreHitsFirst
<1>1. Init => ScoresInv /\ Ordered
  BY DEF Init, ScoresInv, Ordered, MoreHitsFirst, EarlierHitsFirst
<1>2. ListsInv /\ ScoresInv /\ Ordered /\ [Next]_vars => (ScoresInv /\ Ordered)'
  BY ScoresStep
<1>3. ListsInv /\ [Next]_vars => ListsInv'
  BY ListsStep
<1>4. Ordered => MoreHitsFirst
  BY DEF Ordered
<1> QED
  BY <1>1, <1>2, <1>3, <1>4, ListsInit, PTL DEF Spec

(* Of two texts with equally many hits it never puts one first that is     *)
(* behind the other in every hit, however many hits there are.             *)
THEOREM EarlierHitsAlwaysFirst == Spec => []EarlierHitsFirst
<1>1. Init => ScoresInv /\ Ordered
  BY DEF Init, ScoresInv, Ordered, MoreHitsFirst, EarlierHitsFirst
<1>2. ListsInv /\ ScoresInv /\ Ordered /\ [Next]_vars => (ScoresInv /\ Ordered)'
  BY ScoresStep
<1>3. ListsInv /\ [Next]_vars => ListsInv'
  BY ListsStep
<1>4. Ordered => EarlierHitsFirst
  BY DEF Ordered
<1> QED
  BY <1>1, <1>2, <1>3, <1>4, ListsInit, PTL DEF Spec
=============================================================================
