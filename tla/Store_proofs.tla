---------------------------- MODULE Store_proofs ----------------------------
(***************************************************************************)
(* Theorems about Store.                                                   *)
(***************************************************************************)
EXTENDS Store, Ordering_proofs, SequenceTheorems

-----------------------------------------------------------------------------
(* The chunks of one document in an array.                                  *)

Own(s, d) == {i \in DOMAIN s : s[i].doc = d}

\* They are the pieces of a content, in order.
Holds(s, d, c) ==
  /\ \A i \in Own(s, d) : s[i].pos \in DOMAIN Pieces[c] /\ s[i].text = Pieces[c][s[i].pos]
  /\ \A p \in DOMAIN Pieces[c] : \E i \in Own(s, d) : s[i].pos = p
  /\ \A i, j \in Own(s, d) : i < j => s[i].pos < s[j].pos

\* Every vector is the embedding of its text.
Embeds(s) == \A i \in DOMAIN s : s[i].vec = s[i].text

Document == [id : Docs, content : Contents]

Prep == {p \in [id : Docs, content : Contents, vecs : Seq(Texts)] : Len(p.vecs) = Len(Pieces[p.content])}

LEMMA PiecesType ==
  ASSUME NEW c \in Contents
  PROVE  /\ Pieces[c] \in Seq(Texts) /\ Len(Pieces[c]) \in Nat
         /\ DOMAIN Pieces[c] = 1..Len(Pieces[c])
         /\ \A i \in DOMAIN Pieces[c] : Pieces[c][i] \in Texts
  BY PiecesAssumption

LEMMA OwnAppended ==
  ASSUME NEW s \in Seq(Element), NEW t \in Seq(Element), NEW d
  PROVE  /\ s \o t \in Seq(Element) /\ Len(s \o t) = Len(s) + Len(t)
         /\ \A i \in DOMAIN s : (s \o t)[i] = s[i]
         /\ \A i \in DOMAIN t : (s \o t)[Len(s) + i] = t[i]
         /\ Own(s \o t, d) = Own(s, d) \cup {Len(s) + i : i \in Own(t, d)}
  BY DEF Own

LEMMA HoldsBefore ==
  ASSUME NEW s \in Seq(Element), NEW t \in Seq(Element), NEW d, NEW c, Holds(s, d, c), Own(t, d) = {}
  PROVE  Holds(s \o t, d, c)
<1>1. Own(s \o t, d) = Own(s, d)
  <2>1. Own(s \o t, d) = Own(s, d) \cup {Len(s) + i : i \in Own(t, d)}
    BY OwnAppended
  <2> HIDE DEF Own
  <2> QED BY <2>1
<1>2. \A i \in Own(s, d) : (s \o t)[i] = s[i]
  BY OwnAppended DEF Own
<1> HIDE DEF Own
<1> QED BY <1>1, <1>2 DEF Holds

LEMMA HoldsAfter ==
  ASSUME NEW s \in Seq(Element), NEW t \in Seq(Element), NEW d, NEW c, Own(s, d) = {}, Holds(t, d, c)
  PROVE  Holds(s \o t, d, c)
<1> DEFINE u == s \o t
<1>1. Own(u, d) = {Len(s) + i : i \in Own(t, d)} /\ \A i \in Own(t, d) : u[Len(s) + i] = t[i] /\ i \in Nat
  BY OwnAppended DEF Own
<1>2. Len(s) \in Nat
  OBVIOUS
<1> HIDE DEF u
<1>3. \A i \in Own(u, d) : u[i].pos \in DOMAIN Pieces[c] /\ u[i].text = Pieces[c][u[i].pos]
  <2> SUFFICES ASSUME NEW i \in Own(t, d)
               PROVE  t[i].pos \in DOMAIN Pieces[c] /\ t[i].text = Pieces[c][t[i].pos]
    BY <1>1
  <2> QED BY DEF Holds
<1>4. \A p \in DOMAIN Pieces[c] : \E i \in Own(u, d) : u[i].pos = p
  <2> TAKE p \in DOMAIN Pieces[c]
  <2>1. PICK i \in Own(t, d) : t[i].pos = p
    BY DEF Holds
  <2>2. Len(s) + i \in Own(u, d) /\ u[Len(s) + i] = t[i]
    BY <1>1
  <2> QED BY <2>1, <2>2
<1>5. \A i, j \in Own(u, d) : i < j => u[i].pos < u[j].pos
  <2> SUFFICES ASSUME NEW i \in Own(t, d), NEW j \in Own(t, d), Len(s) + i < Len(s) + j
               PROVE  t[i].pos < t[j].pos
    BY <1>1
  <2>1. i < j
    BY <1>1, <1>2
  <2> QED BY <2>1 DEF Holds
<1> QED BY <1>3, <1>4, <1>5 DEF Holds, u

\* Arrays with the same chunks hold the same documents.
LEMMA HoldsSame ==
  ASSUME NEW s \in Seq(Element), NEW t \in Seq(Element), ChunksOf(s) = ChunksOf(t), NEW d
  PROVE  Own(s, d) = Own(t, d) /\ \A c : Holds(s, d, c) <=> Holds(t, d, c)
<1>1. DOMAIN s = DOMAIN t
  BY DEF ChunksOf
<1>2. \A i \in DOMAIN s : s[i].doc = t[i].doc /\ s[i].pos = t[i].pos /\ s[i].text = t[i].text
  <2> SUFFICES ASSUME NEW i \in DOMAIN s PROVE s[i].doc = t[i].doc /\ s[i].pos = t[i].pos /\ s[i].text = t[i].text
    OBVIOUS
  <2>1. ChunkOf(s[i]) = ChunkOf(t[i])
    BY <1>1 DEF ChunksOf
  <2> QED BY <2>1 DEF ChunkOf
<1>3. Own(s, d) = Own(t, d)
  BY <1>1, <1>2 DEF Own
<1>4. \A i \in Own(s, d) : s[i].pos = t[i].pos /\ s[i].text = t[i].text
  BY <1>2 DEF Own
<1>5. ASSUME NEW c
      PROVE  Holds(s, d, c) <=> Holds(t, d, c)
  <2> DEFINE own == Own(s, d)
  <2>1. own = Own(s, d) /\ own = Own(t, d) /\ \A i \in own : s[i].pos = t[i].pos /\ s[i].text = t[i].text
    BY <1>3, <1>4
  <2> HIDE DEF own
  <2>2. (\A i \in own : s[i].pos \in DOMAIN Pieces[c] /\ s[i].text = Pieces[c][s[i].pos])
        <=> \A i \in own : t[i].pos \in DOMAIN Pieces[c] /\ t[i].text = Pieces[c][t[i].pos]
    BY <2>1
  <2>3. (\A p \in DOMAIN Pieces[c] : \E i \in own : s[i].pos = p)
        <=> \A p \in DOMAIN Pieces[c] : \E i \in own : t[i].pos = p
    BY <2>1
  <2>4. (\A i, j \in own : i < j => s[i].pos < s[j].pos)
        <=> \A i, j \in own : i < j => t[i].pos < t[j].pos
    BY <2>1
  <2> QED BY ONLY <2>1, <2>2, <2>3, <2>4 DEF Holds
<1> QED BY <1>3, <1>5

LEMMA HoldsElements ==
  ASSUME NEW d \in [id : Docs, content : Contents], NEW vecs \in Seq(Texts), Len(vecs) = Len(Pieces[d.content])
  PROVE  LET t == Elements(d, vecs)
         IN  /\ t \in Seq(Element) /\ Len(t) = Len(vecs)
             /\ Holds(t, d.id, d.content)
             /\ \A e : e # d.id => Own(t, e) = {}
<1> DEFINE t == Elements(d, vecs)
<1>1. DOMAIN vecs = 1..Len(vecs) /\ DOMAIN Pieces[d.content] = DOMAIN vecs /\ \A i \in DOMAIN vecs : vecs[i] \in Texts
  BY PiecesType
<1>2. \A i \in DOMAIN vecs : Pieces[d.content][i] \in Texts /\ i \in Nat
  BY PiecesType, <1>1
<1>3. /\ DOMAIN t = DOMAIN vecs
      /\ \A i \in DOMAIN vecs : t[i] = [doc |-> d.id, pos |-> i, text |-> Pieces[d.content][i], vec |-> vecs[i]]
  BY DEF Elements
<1>4. \A i \in DOMAIN vecs : t[i] \in Element /\ t[i].doc = d.id /\ t[i].pos = i /\ t[i].text = Pieces[d.content][i]
  <2> SUFFICES ASSUME NEW i \in DOMAIN vecs
               PROVE  t[i] \in Element /\ t[i].doc = d.id /\ t[i].pos = i /\ t[i].text = Pieces[d.content][i]
    OBVIOUS
  <2>1. d.id \in Docs /\ vecs[i] \in Texts /\ Pieces[d.content][i] \in Texts /\ i \in Nat
    BY <1>1, <1>2
  <2>2. t[i] = [doc |-> d.id, pos |-> i, text |-> Pieces[d.content][i], vec |-> vecs[i]]
    BY <1>3
  <2> HIDE DEF t
  <2> QED BY <2>1, <2>2 DEF Element
<1>5. t = [i \in 1..Len(vecs) |-> t[i]]
  BY <1>1 DEF Elements
<1> HIDE DEF t
<1>6. t \in Seq(Element) /\ Len(t) = Len(vecs)
  <2>1. \A i \in 1..Len(vecs) : t[i] \in Element
    BY <1>1, <1>4
  <2> DEFINE n == Len(vecs)
  <2>2. n \in Nat
    OBVIOUS
  <2>3. (\A i \in 1..n : t[i] \in Element) /\ t = [i \in 1..n |-> t[i]]
    BY ZenonT(30), <2>1, <1>5
  <2> HIDE DEF n
  <2>4. t \in Seq(Element) /\ Len(t) = n
    BY ONLY <2>2, <2>3
  <2> QED BY <2>4 DEF n
<1>7. Own(t, d.id) = DOMAIN t /\ \A e : e # d.id => Own(t, e) = {}
  <2>1. DOMAIN t = DOMAIN vecs /\ \A i \in DOMAIN vecs : t[i].doc = d.id
    BY <1>3, <1>4
  <2> QED BY <2>1 DEF Own
<1>8. \A i \in DOMAIN t : t[i].pos = i /\ t[i].text = Pieces[d.content][i]
  BY <1>3, <1>4
<1>9. Holds(t, d.id, d.content)
  BY <1>1, <1>3, <1>7, <1>8 DEF Holds
<1> QED BY <1>6, <1>7, <1>9 DEF t

Distinct(docs) == \A i, j \in DOMAIN docs : i # j => docs[i].id # docs[j].id /\ docs[i].content # docs[j].content

LEMMA HoldsAll ==
  ASSUME NEW docs \in Seq([id : Docs, content : Contents])
  PROVE  LET t == AllElements(docs)
         IN  /\ t \in Seq(Element)
             /\ Distinct(docs) => \A i \in DOMAIN docs : Holds(t, docs[i].id, docs[i].content)
             /\ \A e : (\A i \in DOMAIN docs : docs[i].id # e) => Own(t, e) = {}
             /\ Embeds(t)
<1> DEFINE S == DOMAIN docs
           T == [i \in S |-> DOMAIN Pieces[docs[i].content]]
           at == InTurn(S, T)
           n == Cardinality(Pairs(S, T))
           t == AllElements(docs)
<1>0. ASSUME NEW i \in S
      PROVE  /\ docs[i] \in [id : Docs, content : Contents] /\ docs[i].id \in Docs /\ docs[i].content \in Contents
             /\ T[i] = 1..Len(Pieces[docs[i].content]) /\ Len(Pieces[docs[i].content]) \in Nat
  <2>1. docs[i] \in [id : Docs, content : Contents]
    <3>1. i \in 1..Len(docs)
      BY DEF S
    <3> HIDE DEF S, T
    <3> QED BY <3>1, ElementOfSeq
  <2> HIDE DEF S
  <2> QED BY <2>1, PiecesType
<1>1. Loops(S, T)
  <2>1. S = 1..Len(docs) /\ Len(docs) \in Nat
    OBVIOUS
  <2>2. IsFiniteSet(S) /\ S \in SUBSET Nat
    BY <2>1, FS_Interval
  <2>3. ASSUME NEW i \in S PROVE T[i] \in SUBSET Nat /\ IsFiniteSet(T[i])
    <3>1. T[i] = 1..Len(Pieces[docs[i].content]) /\ 1 \in Int /\ Len(Pieces[docs[i].content]) \in Int
      BY <1>0
    <3> HIDE DEF T, S
    <3>2. IsFiniteSet(T[i])
      BY <3>1, FS_Interval
    <3> QED BY <3>1, <3>2
  <2> HIDE DEF S, T
  <2> QED BY <2>2, <2>3 DEF Loops
<1> HIDE DEF S, T
<1>2. /\ n \in Nat
      /\ DOMAIN at = 1..n
      /\ \A k \in DOMAIN at : at[k] \in Pairs(S, T)
      /\ \A p \in Pairs(S, T) : \E k \in DOMAIN at : at[k] = p
      /\ \A j, k \in DOMAIN at : j < k => Earlier(at[j], at[k])
  BY <1>1, InTurnLists
<1>3. Pairs(S, T) = {p \in Nat \X Nat : p[1] \in S /\ p[2] \in T[p[1]]}
  BY <1>1, PairsFinite
<1>4. /\ DOMAIN t = DOMAIN at
      /\ \A k \in DOMAIN at :
           t[k] = Elements(docs[at[k][1]], Pieces[docs[at[k][1]].content])[at[k][2]]
      /\ t = [k \in DOMAIN at |-> t[k]]
  BY DEF AllElements, S, T
<1> HIDE DEF at, t, n
<1>5. \A k \in DOMAIN at : /\ at[k][1] \in S /\ at[k][2] \in DOMAIN Pieces[docs[at[k][1]].content]
                           /\ at[k][1] \in Nat /\ at[k][2] \in Nat
  BY <1>2, <1>3 DEF T
<1>6. ASSUME NEW k \in DOMAIN at
      PROVE  /\ t[k] \in Element
             /\ t[k].doc = docs[at[k][1]].id /\ t[k].pos = at[k][2]
             /\ t[k].text = Pieces[docs[at[k][1]].content][at[k][2]] /\ t[k].vec = t[k].text
  <2> DEFINE d == docs[at[k][1]]
             c == d.content
  <2>1. d \in [id : Docs, content : Contents] /\ at[k][2] \in DOMAIN Pieces[c]
    BY <1>0, <1>5
  <2> HIDE DEF d
  <2>2. t[k] = [doc |-> d.id, pos |-> at[k][2], text |-> Pieces[c][at[k][2]], vec |-> Pieces[c][at[k][2]]]
    BY <1>4, <2>1 DEF Elements, d
  <2>3. Pieces[c][at[k][2]] \in Texts
    BY <2>1, PiecesType
  <2> QED BY <1>5, <2>1, <2>2, <2>3 DEF Element, d
<1>7. t \in Seq(Element)
  BY <1>2, <1>4, <1>6
<1>8. ASSUME Distinct(docs), NEW i \in S PROVE Holds(t, docs[i].id, docs[i].content)
  <2> DEFINE d == docs[i].id
             c == docs[i].content
  <2>1. \A k \in Own(t, d) : k \in DOMAIN at /\ at[k][1] = i
    BY <1>4, <1>5, <1>6, <1>8 DEF Own, Distinct, S
  <2>2. \A k \in Own(t, d) : t[k].pos = at[k][2] /\ t[k].pos \in DOMAIN Pieces[c] /\ t[k].text = Pieces[c][t[k].pos]
    BY <2>1, <1>5, <1>6
  <2>3. ASSUME NEW p \in DOMAIN Pieces[c] PROVE \E k \in Own(t, d) : t[k].pos = p
    <3>1. <<i, p>> \in Pairs(S, T)
      BY <1>0, <1>3, PiecesType DEF S, T
    <3>2. PICK k \in DOMAIN at : at[k] = <<i, p>>
      BY <1>2, <3>1
    <3>3. t[k].doc = d /\ t[k].pos = p /\ k \in DOMAIN t
      BY <3>2, <1>4, <1>6
    <3> HIDE DEF d
    <3> QED BY <3>3 DEF Own
  <2>4. ASSUME NEW j \in Own(t, d), NEW k \in Own(t, d), j < k PROVE t[j].pos < t[k].pos
    <3>1. Earlier(at[j], at[k]) /\ at[j][1] = i /\ at[k][1] = i /\ i \in Nat
      BY <1>2, <1>5, <2>1, <2>4
    <3> QED BY <2>2, <3>1 DEF Earlier
  <2> HIDE DEF d, c
  <2> QED BY <2>2, <2>3, <2>4 DEF Holds, d, c
<1>9. ASSUME NEW e, \A i \in S : docs[i].id # e PROVE Own(t, e) = {}
  BY <1>4, <1>5, <1>6, <1>9 DEF Own
<1>10. Embeds(t)
  BY <1>4, <1>6 DEF Embeds
<1> QED BY <1>7, <1>8, <1>9, <1>10 DEF t, S

\* The array after a removal.
LEMMA Compacts ==
  ASSUME NEW S, NEW s \in Seq(S), NEW I \in SUBSET (DOMAIN s)
  PROVE  LET t == Compacted(s, I)
         IN  /\ t \in Seq(S) /\ Len(t) = Cardinality(I) /\ IsFiniteSet(I) /\ I \in SUBSET Nat
             /\ DOMAIN t = DOMAIN Ordered(I)
             /\ \A n \in DOMAIN t : t[n] = s[Ordered(I)[n]] /\ Ordered(I)[n] \in I /\ n \in Nat
             /\ \A m, n \in DOMAIN t : m < n <=> Ordered(I)[m] < Ordered(I)[n]
             /\ \A i \in I : \E n \in DOMAIN t : Ordered(I)[n] = i
<1> DEFINE t == Compacted(s, I)
           o == Ordered(I)
           n == Cardinality(I)
<1>1. DOMAIN s = 1..Len(s) /\ Len(s) \in Nat
  OBVIOUS
<1>2. I \in SUBSET Nat /\ IsFiniteSet(I)
  <2>1. IsFiniteSet(1..Len(s)) /\ 1..Len(s) \in SUBSET Nat /\ I \in SUBSET (1..Len(s))
    BY <1>1, FS_Interval
  <2> QED BY <2>1, FS_Subset
<1>3. /\ n \in Nat /\ o \in [1..n -> I]
      /\ \A e \in I : PlaceIn(I, e) \in 1..n /\ o[PlaceIn(I, e)] = e
      /\ \A i, j \in 1..n : i < j => o[i] < o[j]
  BY <1>2, OrderedLists
<1>4. t = [k \in 1..n |-> s[o[k]]]
  BY DEF Compacted
<1> HIDE DEF t, o, n
<1>5. \A k \in 1..n : o[k] \in I /\ o[k] \in DOMAIN s /\ s[o[k]] \in S /\ o[k] \in Nat
  BY <1>1, <1>2, <1>3, ElementOfSeq
<1>6. t \in Seq(S) /\ Len(t) = n /\ DOMAIN t = 1..n
  BY <1>3, <1>4, <1>5
<1>7. \A i, j \in 1..n : i < j <=> o[i] < o[j]
  <2> SUFFICES ASSUME NEW i \in 1..n, NEW j \in 1..n PROVE i < j <=> o[i] < o[j]
    OBVIOUS
  <2>1. i \in Nat /\ j \in Nat /\ o[i] \in Nat /\ o[j] \in Nat
    BY <1>5
  <2>2. (i < j => o[i] < o[j]) /\ (j < i => o[j] < o[i]) /\ (i = j => o[i] = o[j])
    BY <1>3
  <2> QED BY <2>1, <2>2
<1> QED BY <1>2, <1>3, <1>4, <1>5, <1>6, <1>7 DEF t, o, n

LEMMA HoldsRemoved ==
  ASSUME NEW s \in Seq(Element), NEW id
  PROVE  LET t == Compacted(s, KeptWithout(s, id))
         IN  /\ t \in Seq(Element)
             /\ Len(t) <= Len(s) /\ (Len(t) = Len(s) <=> Own(s, id) = {}) /\ (Own(s, id) = {} => t = s)
             /\ Own(t, id) = {}
             /\ \A d : d # id => /\ Own(s, d) = {} <=> Own(t, d) = {}
                                 /\ \A c : Holds(s, d, c) => Holds(t, d, c)
<1> DEFINE I == KeptWithout(s, id)
           t == Compacted(s, I)
           o == Ordered(I)
<1>1. I \in SUBSET (DOMAIN s) /\ \A i \in DOMAIN s : i \in I <=> s[i].doc # id
  BY DEF KeptWithout
<1> HIDE DEF I
<1>2. /\ t \in Seq(Element) /\ Len(t) = Cardinality(I) /\ IsFiniteSet(I) /\ I \in SUBSET Nat
      /\ DOMAIN t = DOMAIN o
      /\ \A n \in DOMAIN t : t[n] = s[o[n]] /\ o[n] \in I /\ n \in Nat
      /\ \A m, n \in DOMAIN t : m < n <=> o[m] < o[n]
      /\ \A i \in I : \E n \in DOMAIN t : o[n] = i
  BY <1>1, Compacts
<1> HIDE DEF t, o
<1>3. Cardinality(DOMAIN s) = Len(s) /\ IsFiniteSet(DOMAIN s) /\ DOMAIN s = 1..Len(s) /\ Len(s) \in Nat
  <2>1. DOMAIN s = 1..Len(s) /\ Len(s) \in Nat
    OBVIOUS
  <2> QED BY <2>1, FS_Interval
<1>4. Len(t) <= Len(s) /\ (Len(t) = Len(s) <=> I = DOMAIN s)
  BY <1>1, <1>2, <1>3, FS_Subset
<1>5. Own(s, id) = {} <=> I = DOMAIN s
  BY <1>1 DEF Own
<1>6. Own(t, id) = {}
  BY <1>1, <1>2 DEF Own
<1>7. ASSUME NEW d, d # id
      PROVE  /\ \A n \in Own(t, d) : n \in DOMAIN t /\ o[n] \in Own(s, d) /\ t[n] = s[o[n]]
             /\ \A i \in Own(s, d) : \E n \in Own(t, d) : o[n] = i /\ t[n] = s[i]
  <2>1. \A n \in Own(t, d) : n \in DOMAIN t /\ o[n] \in Own(s, d) /\ t[n] = s[o[n]]
    BY <1>1, <1>2 DEF Own
  <2>2. \A i \in Own(s, d) : i \in I
    BY <1>1, <1>7 DEF Own
  <2>3. \A i \in Own(s, d) : \E n \in Own(t, d) : o[n] = i /\ t[n] = s[i]
    BY <2>2, <1>2 DEF Own
  <2> QED BY <2>1, <2>3
<1>8. ASSUME NEW d, d # id, NEW c, Holds(s, d, c) PROVE Holds(t, d, c)
  <2>1. \A n \in Own(t, d) : t[n].pos \in DOMAIN Pieces[c] /\ t[n].text = Pieces[c][t[n].pos]
    BY <1>7, <1>8 DEF Holds
  <2>2. \A p \in DOMAIN Pieces[c] : \E n \in Own(t, d) : t[n].pos = p
    BY <1>7, <1>8 DEF Holds
  <2>3. \A m, n \in Own(t, d) : m < n => t[m].pos < t[n].pos
    BY <1>2, <1>7, <1>8 DEF Holds
  <2> QED BY <2>1, <2>2, <2>3 DEF Holds
<1>9. ASSUME I = DOMAIN s PROVE t = s
  <2>1. o = [i \in DOMAIN s |-> i]
    BY <1>9, <1>3, IdentityOrdered DEF o
  <2>2. t = [i \in DOMAIN s |-> s[i]]
    BY <2>1, <1>2, <1>3, <1>4, <1>9
  <2> QED BY <2>2, <1>3
<1> QED BY <1>2, <1>4, <1>5, <1>6, <1>7, <1>8, <1>9 DEF t, I

\* What Holds says is what the property asks for.
LEMMA HoldsExactly ==
  ASSUME NEW s \in Seq(Element), NEW d, NEW c \in Contents, Holds(s, d, c)
  PROVE  LET own == Compacted(s, Own(s, d))
         IN  /\ [i \in DOMAIN own |-> own[i].text] = Pieces[c]
             /\ \A i \in DOMAIN own : own[i].pos = i
<1> DEFINE I == Own(s, d)
           own == Compacted(s, I)
           o == Ordered(I)
           L == Len(Pieces[c])
<1>1. I \in SUBSET (DOMAIN s)
  BY DEF Own
<1>2. Pieces[c] \in Seq(Texts) /\ L \in Nat /\ DOMAIN Pieces[c] = 1..L
  BY PiecesType
<1>3. /\ \A i \in I : s[i].pos \in 1..L /\ s[i].text = Pieces[c][s[i].pos]
      /\ \A p \in 1..L : \E i \in I : s[i].pos = p
      /\ \A i, j \in I : i < j => s[i].pos < s[j].pos
  BY <1>2 DEF Holds
<1> HIDE DEF I, L
<1>4. /\ own \in Seq(Element) /\ Len(own) = Cardinality(I) /\ IsFiniteSet(I) /\ I \in SUBSET Nat
      /\ DOMAIN own = DOMAIN o
      /\ \A n \in DOMAIN own : own[n] = s[o[n]] /\ o[n] \in I /\ n \in Nat
  BY <1>1, Compacts
<1>5. /\ o \in [1..Cardinality(I) -> I] /\ Cardinality(I) \in Nat
      /\ \A i \in 1..Cardinality(I) : PlaceIn(I, o[i]) = i
  BY <1>4, OrderedLists
<1> HIDE DEF own, o
<1>6. ASSUME NEW i \in I PROVE PlaceIn(I, i) = s[i].pos
  <2> DEFINE J == {x \in I : x <= i}
             f == [x \in J |-> s[x].pos]
             p == s[i].pos
  <2>1. p \in 1..L /\ p \in Nat /\ L \in Nat
    BY <1>2, <1>3
  <2>2. \A x \in J : x \in I /\ x \in Nat /\ s[x].pos \in 1..L /\ (x = i \/ s[x].pos < p)
    <3> SUFFICES ASSUME NEW x \in I, x <= i PROVE x \in Nat /\ s[x].pos \in 1..L /\ (x = i \/ s[x].pos < p)
      OBVIOUS
    <3>1. x \in Nat /\ i \in Nat
      BY <1>4
    <3> QED BY <3>1, <1>3
  <2>3. f \in [J -> 1..p]
    BY <2>1, <2>2
  <2>4. \A x, y \in J : f[x] = f[y] => x = y
    <3> SUFFICES ASSUME NEW x \in J, NEW y \in J, s[x].pos = s[y].pos, x # y PROVE FALSE
      OBVIOUS
    <3>1. x < y \/ y < x
      BY <2>2
    <3>2. s[x].pos < s[y].pos \/ s[y].pos < s[x].pos
      BY <1>3, <2>2, <3>1
    <3> QED BY <3>2, <2>2
  <2>5. \A q \in 1..p : \E x \in J : f[x] = q
    <3> SUFFICES ASSUME NEW q \in 1..p PROVE \E x \in J : s[x].pos = q
      OBVIOUS
    <3>1. q \in 1..L
      BY <2>1
    <3>2. PICK x \in I : s[x].pos = q
      BY <1>3, <3>1
    <3>3. ~(i < x)
      BY <1>3, <2>1, <3>2
    <3>4. x \in Nat /\ i \in Nat
      BY <1>4
    <3> QED BY <3>2, <3>3, <3>4
  <2>6. f \in Bijection(J, 1..p)
    BY <2>3, <2>4, <2>5 DEF Bijection, Injection, Surjection, IsInjective
  <2> HIDE DEF f, J
  <2>7. IsFiniteSet(J)
    BY <1>4, FS_Subset DEF J
  <2>8. Cardinality(1..p) = p
    <3>1. p \in Int /\ 1 \in Int /\ ~(1 > p) /\ p - 1 + 1 = p
      BY <2>1
    <3> HIDE DEF p
    <3> QED BY <3>1, FS_Interval
  <2>9. Cardinality(J) = p
    BY <2>6, <2>7, <2>8, FS_Bijection DEF ExistsBijection
  <2> QED BY <2>9 DEF PlaceIn, J
<1>7. \A i \in DOMAIN own : s[o[i]].pos = i /\ own[i].pos = i /\ own[i].text = Pieces[c][i] /\ i \in 1..L
  BY <1>3, <1>4, <1>5, <1>6
<1>8. DOMAIN own = 1..L
  <2>1. ASSUME NEW p \in 1..L PROVE p \in DOMAIN own
    <3>1. PICK i \in I : s[i].pos = p
      BY <1>3
    <3>2. PlaceIn(I, i) = p /\ PlaceIn(I, i) \in 1..Cardinality(I)
      BY <3>1, <1>4, <1>6, OrderedLists
    <3> QED BY <3>2, <1>4, <1>5
  <2> QED BY <1>7, <2>1
<1>9. [i \in DOMAIN own |-> own[i].text] = [i \in 1..L |-> Pieces[c][i]]
  BY <1>7, <1>8
<1>10. Pieces[c] = [i \in 1..L |-> Pieces[c][i]]
  BY <1>2
<1> QED BY <1>7, <1>9, <1>10 DEF own, I

-----------------------------------------------------------------------------
(* The helpers that bring what is derived up to date change no chunk and no *)
(* registry.                                                                *)

LEMMA StoreFields ==
  ASSUME NEW m \in StoreObject
  PROVE  /\ m.corpus \in Seq(Element) /\ m.docSet \in SUBSET Docs
         /\ m.hashes \in [Contents -> Docs \cup {NULL}] /\ m.idHash \in [Docs -> Contents \cup {NULL}]
         /\ m.latest \in [Docs -> Contents \cup {NULL}]
         /\ m.index # NULL => m.index \in Seq(Entry)
         /\ m.needsRebuild \in BOOLEAN /\ m.deferIndex \in BOOLEAN /\ m.deferGraph \in BOOLEAN
         /\ m.savedLinks # NULL => m.savedLinks \in Seq(Texts)
         /\ m.flat # NULL => m.flat \in Seq(Texts)
         /\ m.edges \in Seq(Chunk) /\ (m.graph # NULL => m.graph \in Graph)
  BY DEF StoreObject

SameRegistry(m, n) ==
  n.hashes = m.hashes /\ n.idHash = m.idHash /\ n.latest = m.latest /\ n.docSet = m.docSet

SameDocs(m, n) == SameRegistry(m, n) /\ ChunksOf(n.corpus) = ChunksOf(m.corpus)

\* The entries are of the elements of the array, with their vectors.
Matches(x, s) ==
  /\ DOMAIN x = DOMAIN s
  /\ \A i \in DOMAIN s : x[i].doc = s[i].doc /\ x[i].pos = s[i].pos /\ x[i].text = s[i].text /\ x[i].vec = s[i].vec

LEMMA ChunksType ==
  ASSUME NEW s \in Seq(Element)
  PROVE  ChunksOf(s) \in Seq(Chunk) /\ Len(ChunksOf(s)) = Len(s) /\ DOMAIN ChunksOf(s) = DOMAIN s
<1>1. DOMAIN s = 1..Len(s) /\ Len(s) \in Nat
  OBVIOUS
<1>2. \A i \in DOMAIN s : ChunkOf(s[i]) \in Chunk
  <2> SUFFICES ASSUME NEW i \in DOMAIN s PROVE ChunkOf(s[i]) \in Chunk
    OBVIOUS
  <2>1. s[i] \in Element
    BY <1>1, ElementOfSeq
  <2> QED BY <2>1 DEF ChunkOf, Chunk, Element
<1>3. ChunksOf(s) = [i \in 1..Len(s) |-> ChunkOf(s[i])]
  BY <1>1 DEF ChunksOf
<1> QED BY <1>1, <1>2, <1>3

LEMMA IndexedType ==
  ASSUME NEW s \in Seq(Element)
  PROVE  /\ Indexed(s) \in Seq(Entry) /\ Len(Indexed(s)) = Len(s) /\ Matches(Indexed(s), s)
         /\ \A i \in DOMAIN s : Indexed(s)[i].link = s[i].vec
<1> DEFINE x == Indexed(s)
<1>1. DOMAIN s = 1..Len(s) /\ Len(s) \in Nat
  OBVIOUS
<1>2. ASSUME NEW i \in DOMAIN s
      PROVE  /\ x[i] \in Entry
             /\ x[i].doc = s[i].doc /\ x[i].pos = s[i].pos /\ x[i].text = s[i].text /\ x[i].vec = s[i].vec
             /\ x[i].link = s[i].vec
  <2>1. s[i] \in Element
    BY <1>1, ElementOfSeq
  <2>2. x[i] = [doc |-> s[i].doc, pos |-> s[i].pos, text |-> s[i].text, vec |-> s[i].vec, link |-> s[i].vec]
    BY DEF Indexed
  <2> HIDE DEF x
  <2> QED BY <2>1, <2>2 DEF Element, Entry
<1>3. DOMAIN x = 1..Len(s) /\ x = [i \in 1..Len(s) |-> x[i]]
  BY <1>1 DEF Indexed
<1> HIDE DEF x
<1>4. x \in Seq(Entry) /\ Len(x) = Len(s)
  <2>1. \A i \in 1..Len(s) : x[i] \in Entry
    BY <1>1, <1>2
  <2> QED BY <1>1, <1>3, <2>1
<1> QED BY <1>1, <1>2, <1>3, <1>4 DEF x, Matches

LEMMA Share ==
  ASSUME NEW m \in StoreObject
  PROVE  LET n == shareVectorsLocked(m)
         IN  /\ n \in StoreObject /\ SameDocs(m, n) /\ Len(n.corpus) = Len(m.corpus)
             /\ n = [m EXCEPT !.corpus = n.corpus]
             /\ m.index # NULL /\ Matches(m.index, m.corpus) => n = m
             /\ m.index # NULL /\ Len(m.index) # Len(m.corpus) => n = m
             /\ m.index # NULL /\ Len(m.index) = Len(m.corpus) =>
                  \A i \in DOMAIN m.corpus : n.corpus[i] = [m.corpus[i] EXCEPT !.vec = m.index[i].vec]
<1> DEFINE n == shareVectorsLocked(m)
           s == m.corpus
           x == m.index
           new == [i \in DOMAIN s |-> [s[i] EXCEPT !.vec = x[i].vec]]
<1>0. s \in Seq(Element) /\ DOMAIN s = 1..Len(s) /\ Len(s) \in Nat /\ (x # NULL => x \in Seq(Entry))
  BY StoreFields
<1>1. CASE x = NULL \/ Len(x) # Len(s)
  <2>1. n = m
    BY <1>1 DEF shareVectorsLocked
  <2>2. x # NULL /\ Matches(x, s) => Len(x) = Len(s)
    BY <1>0 DEF Matches
  <2>3. m = [m EXCEPT !.corpus = m.corpus]
    BY DEF StoreObject
  <2> QED BY <1>1, <2>1, <2>2, <2>3 DEF SameDocs, SameRegistry
<1>2. CASE x # NULL /\ Len(x) = Len(s)
  <2>1. n = [m EXCEPT !.corpus = new]
    BY <1>2 DEF shareVectorsLocked
  <2> HIDE DEF n
  <2>2. ASSUME NEW i \in DOMAIN s PROVE s[i] \in Element /\ x[i].vec \in Texts
    <3>1. s[i] \in Element /\ x[i] \in Entry
      BY <1>0, <1>2, ElementOfSeq
    <3> QED BY <3>1 DEF Entry
  <2> HIDE DEF x, s
  <2>3. \A i \in DOMAIN s : new[i] \in Element /\ ChunkOf(new[i]) = ChunkOf(s[i]) /\ new[i] = [s[i] EXCEPT !.vec = x[i].vec]
    BY <2>2 DEF Element, ChunkOf
  <2>4. new \in Seq(Element) /\ Len(new) = Len(s) /\ DOMAIN new = DOMAIN s
    BY <1>0, <2>3
  <2>5. ChunksOf(new) = ChunksOf(s)
    BY <2>3, <2>4 DEF ChunksOf
  <2>6. ASSUME Matches(x, s) PROVE new = s
    <3>1. \A i \in DOMAIN s : new[i] = s[i]
      <4> SUFFICES ASSUME NEW i \in DOMAIN s PROVE [s[i] EXCEPT !.vec = x[i].vec] = s[i]
        OBVIOUS
      <4>1. x[i].vec = s[i].vec
        BY <2>6 DEF Matches
      <4> QED BY <2>2, <4>1 DEF Element
    <3> QED BY <1>0, <2>4, <3>1
  <2> HIDE DEF new
  <2>7. n \in StoreObject /\ n.corpus = new /\ SameRegistry(m, n) /\ n = [m EXCEPT !.corpus = n.corpus]
    BY <2>1, <2>4 DEF StoreObject, SameRegistry
  <2>8. new = s => n = m
    BY <2>1 DEF StoreObject, s
  <2> QED BY <1>2, <2>3, <2>4, <2>5, <2>6, <2>7, <2>8 DEF SameDocs, x, s, n
<1> QED BY <1>1, <1>2

\* The entries of an index are of the chunks of an array.
LEMMA SameChunks ==
  ASSUME NEW s \in Seq(Element), NEW x \in Seq(Entry), Len(x) = Len(s),
         \A i \in DOMAIN s : x[i].doc = s[i].doc /\ x[i].pos = s[i].pos /\ x[i].text = s[i].text
  PROVE  ChunksOf(x) = ChunksOf(s)
<1>1. DOMAIN x = DOMAIN s
  OBVIOUS
<1>2. \A i \in DOMAIN s : ChunkOf(x[i]) = ChunkOf(s[i])
  BY DEF ChunkOf
<1> QED BY <1>1, <1>2 DEF ChunksOf

LEMMA Rebuilt ==
  ASSUME NEW m \in StoreObject
  PROVE  LET n == rebuildIndexesLocked(m)
         IN  /\ n \in StoreObject /\ n = [m EXCEPT !.index = n.index]
             /\ n.index = Indexed(m.corpus) /\ n.index # NULL /\ n.index \in Seq(Entry)
             /\ Len(n.index) = Len(m.corpus) /\ ChunksOf(n.index) = ChunksOf(m.corpus)
<1> DEFINE x == Indexed(m.corpus)
           n == rebuildIndexesLocked(m)
<1>1. m.corpus \in Seq(Element)
  BY StoreFields
<1>2. /\ x \in Seq(Entry) /\ Len(x) = Len(m.corpus)
      /\ \A i \in DOMAIN m.corpus : x[i].doc = m.corpus[i].doc /\ x[i].pos = m.corpus[i].pos /\ x[i].text = m.corpus[i].text
  BY <1>1, IndexedType DEF Matches
<1>3. n = [m EXCEPT !.index = x]
  BY DEF rebuildIndexesLocked
<1> HIDE DEF x, n
<1>4. n \in StoreObject /\ n.index = x
  BY <1>2, <1>3 DEF StoreObject
<1>5. ChunksOf(x) = ChunksOf(m.corpus)
  BY <1>1, <1>2, SameChunks
<1>6. x # NULL
  BY <1>2, NullAssumption
<1> QED BY <1>2, <1>3, <1>4, <1>5, <1>6 DEF x, n

LEMMA Restored ==
  ASSUME NEW m \in StoreObject, Restorable(m)
  PROVE  LET n == restoreHNSWLocked(m)
         IN  /\ n \in StoreObject /\ n = [m EXCEPT !.index = n.index]
             /\ n.index # NULL /\ n.index \in Seq(Entry)
             /\ Len(n.index) = Len(m.corpus) /\ ChunksOf(n.index) = ChunksOf(m.corpus)
             /\ \A i \in DOMAIN m.corpus :
                  /\ n.index[i].link = m.savedLinks[i]
                  /\ n.index[i].vec = IF m.flat # NULL /\ Len(m.flat) = Len(m.corpus) THEN m.flat[i] ELSE m.corpus[i].vec
<1> DEFINE n == restoreHNSWLocked(m)
           s == m.corpus
           v(i) == IF m.flat # NULL /\ Len(m.flat) = Len(m.corpus) THEN m.flat[i] ELSE m.corpus[i].vec
           x == [i \in DOMAIN s |-> [doc |-> s[i].doc, pos |-> s[i].pos, text |-> s[i].text,
                                     vec |-> v(i), link |-> m.savedLinks[i]]]
<1>1. s \in Seq(Element) /\ DOMAIN s = 1..Len(s) /\ Len(s) \in Nat
  BY StoreFields
<1>2. n = [m EXCEPT !.index = x]
  BY DEF restoreHNSWLocked
<1>3. ASSUME NEW i \in DOMAIN s PROVE s[i] \in Element /\ v(i) \in Texts /\ m.savedLinks[i] \in Texts
  <2>1. s[i] \in Element
    BY <1>1, ElementOfSeq
  <2>2. m.savedLinks[i] \in Texts
    <3>1. m.savedLinks \in Seq(Texts) /\ i \in 1..Len(m.savedLinks)
      BY <1>1, StoreFields DEF Restorable
    <3> QED BY <3>1
  <2>3. CASE m.flat # NULL /\ Len(m.flat) = Len(m.corpus)
    <3>1. m.flat \in Seq(Texts) /\ i \in 1..Len(m.flat) /\ v(i) = m.flat[i]
      BY <1>1, <2>3, StoreFields
    <3> QED BY <2>1, <2>2, <3>1
  <2>4. CASE ~(m.flat # NULL /\ Len(m.flat) = Len(m.corpus))
    <3>1. v(i) = s[i].vec
      BY <2>4
    <3> QED BY <2>1, <2>2, <3>1 DEF Element
  <2> QED BY <2>3, <2>4
<1> HIDE DEF n, v, s
<1>4. ASSUME NEW i \in DOMAIN s
      PROVE  /\ x[i] \in Entry /\ x[i].vec = v(i) /\ x[i].link = m.savedLinks[i]
             /\ x[i].doc = s[i].doc /\ x[i].pos = s[i].pos /\ x[i].text = s[i].text
  <2>1. x[i] = [doc |-> s[i].doc, pos |-> s[i].pos, text |-> s[i].text, vec |-> v(i), link |-> m.savedLinks[i]]
    OBVIOUS
  <2> HIDE DEF x
  <2> QED BY <2>1, <1>3 DEF Entry, Element
<1>5. x = [i \in 1..Len(s) |-> x[i]]
  BY <1>1
<1> HIDE DEF x
<1>6. x \in Seq(Entry) /\ Len(x) = Len(s)
  BY <1>1, <1>4, <1>5
<1>7. x # NULL
  BY <1>6, NullAssumption
<1>8. n \in StoreObject /\ n.index = x
  BY <1>2, <1>6 DEF StoreObject
<1>9. ChunksOf(x) = ChunksOf(s)
  BY <1>1, <1>4, <1>6, SameChunks
<1> QED BY <1>2, <1>4, <1>6, <1>7, <1>8, <1>9 DEF s, v, n

\* The indexes stand for the chunk array as the code relies on it: docSet is the set of
\* its documents; no index is missing once there are chunks; and an index that is
\* neither deferred nor stale is of the chunks, with the edges of the first of them and
\* a graph that has these.
Fit(m) ==
  /\ \A d \in Docs : d \in m.docSet <=> Own(m.corpus, d) # {}
  /\ m.index = NULL => m.corpus = <<>> /\ ~m.deferIndex
  /\ m.deferIndex => m.deferGraph
  /\ ~m.deferIndex /\ ~m.needsRebuild /\ m.index # NULL => ChunksOf(m.index) = ChunksOf(m.corpus)
  /\ ~m.deferIndex /\ ~m.deferGraph /\ ~m.needsRebuild =>
       /\ Len(m.edges) <= Len(m.corpus)
       /\ \A i \in DOMAIN m.edges : m.edges[i] = ChunkOf(m.corpus[i])
       /\ m.edges # <<>> => m.graph = [nodes |-> m.edges, edges |-> m.edges]

\* What reindexLocked leaves: nothing to be rebuilt, an edge list for every chunk.
Settled(m) ==
  ~m.deferIndex => ~m.needsRebuild /\ (~m.deferGraph => m.edges = ChunksOf(m.corpus))

LEMMA SameFit ==
  ASSUME NEW m \in StoreObject, NEW n \in StoreObject, SameDocs(m, n),
         n.index = m.index, n.needsRebuild = m.needsRebuild, n.deferIndex = m.deferIndex,
         n.deferGraph = m.deferGraph, n.edges = m.edges, n.graph = m.graph
  PROVE  (Fit(m) => Fit(n)) /\ (Settled(m) => Settled(n))
<1>1. m.corpus \in Seq(Element) /\ n.corpus \in Seq(Element) /\ ChunksOf(m.corpus) = ChunksOf(n.corpus)
  BY StoreFields DEF SameDocs
<1>2. \A d : Own(m.corpus, d) = Own(n.corpus, d)
  BY <1>1, HoldsSame
<1>3. Len(m.corpus) = Len(n.corpus) /\ DOMAIN m.corpus = DOMAIN n.corpus /\ m.edges \in Seq(Chunk)
  <2>1. /\ Len(ChunksOf(m.corpus)) = Len(m.corpus) /\ DOMAIN ChunksOf(m.corpus) = DOMAIN m.corpus
        /\ Len(ChunksOf(n.corpus)) = Len(n.corpus) /\ DOMAIN ChunksOf(n.corpus) = DOMAIN n.corpus
    BY <1>1, ChunksType
  <2>2. m.edges \in Seq(Chunk)
    BY StoreFields
  <2> QED BY <1>1, <2>1, <2>2
<1>4. \A i \in DOMAIN m.corpus : ChunkOf(m.corpus[i]) = ChunkOf(n.corpus[i])
  BY <1>1, <1>3 DEF ChunksOf
<1>5. m.corpus = <<>> => n.corpus = <<>>
  BY <1>1, <1>3
<1>6. Len(m.edges) <= Len(m.corpus) => DOMAIN m.edges \subseteq DOMAIN m.corpus
  BY <1>1, <1>3
<1>7. Fit(m) => Fit(n)
  BY <1>1, <1>2, <1>3, <1>4, <1>5, <1>6 DEF Fit, SameDocs, SameRegistry
<1> QED BY <1>1, <1>7 DEF Settled

LEMMA ShareFit ==
  ASSUME NEW m \in StoreObject, Fit(m)
  PROVE  LET n == shareVectorsLocked(m)
         IN  /\ n \in StoreObject /\ Fit(n) /\ (Settled(m) => Settled(n)) /\ SameDocs(m, n)
             /\ n.deferIndex = m.deferIndex /\ n.deferGraph = m.deferGraph /\ n.needsRebuild = m.needsRebuild
<1> DEFINE n == shareVectorsLocked(m)
<1>1. n \in StoreObject /\ SameDocs(m, n) /\ n = [m EXCEPT !.corpus = n.corpus]
  BY Share
<1> HIDE DEF n
<1>2. /\ n.index = m.index /\ n.needsRebuild = m.needsRebuild /\ n.deferIndex = m.deferIndex
      /\ n.deferGraph = m.deferGraph /\ n.edges = m.edges /\ n.graph = m.graph
  BY <1>1 DEF StoreObject
<1> QED BY <1>1, <1>2, SameFit DEF n

LEMMA EnsureSearch ==
  ASSUME NEW m \in StoreObject
  PROVE  LET n == ensureSearchLocked(m)
         IN  /\ n \in StoreObject /\ SameDocs(m, n) /\ ~n.deferIndex /\ n.deferGraph = m.deferGraph
             /\ Fit(m) => Fit(n) /\ (Settled(m) => Settled(n))
<1> DEFINE n == ensureSearchLocked(m)
           built == IF Restorable(m) THEN restoreHNSWLocked(m) ELSE rebuildIndexesLocked(m)
           b == [built EXCEPT !.deferIndex = FALSE, !.needsRebuild = FALSE, !.savedLinks = NULL, !.flat = NULL]
<1>1. CASE ~m.deferIndex
  <2>1. n = m
    BY <1>1 DEF ensureSearchLocked
  <2> QED BY <1>1, <2>1 DEF SameDocs, SameRegistry
<1>2. CASE m.deferIndex
  <2>1. n = shareVectorsLocked(b)
    BY <1>2 DEF ensureSearchLocked
  <2>2. /\ built \in StoreObject /\ built = [m EXCEPT !.index = built.index]
        /\ built.index # NULL /\ built.index \in Seq(Entry) /\ Len(built.index) = Len(m.corpus)
        /\ ChunksOf(built.index) = ChunksOf(m.corpus)
    <3>1. CASE Restorable(m)
      <4>1. built = restoreHNSWLocked(m)
        BY <3>1
      <4> HIDE DEF built
      <4> QED BY <3>1, <4>1, Restored
    <3>2. CASE ~Restorable(m)
      <4>1. built = rebuildIndexesLocked(m)
        BY <3>2
      <4> HIDE DEF built
      <4> QED BY <3>2, <4>1, Rebuilt
    <3> QED BY <3>1, <3>2
  <2> HIDE DEF built, n
  <2>3. /\ b \in StoreObject /\ SameDocs(m, b) /\ ~b.deferIndex /\ ~b.needsRebuild /\ b.index = built.index
        /\ b.deferGraph = m.deferGraph /\ b.corpus = m.corpus /\ b.docSet = m.docSet
    <3>1. built.corpus = m.corpus /\ SameRegistry(m, built) /\ built.deferGraph = m.deferGraph
      BY <2>2 DEF SameRegistry, StoreObject
    <3>2. b \in StoreObject
      BY <2>2 DEF StoreObject
    <3> QED BY <3>1, <3>2, <2>2 DEF SameDocs, SameRegistry, StoreObject
  <2> HIDE DEF b
  <2>4. n \in StoreObject /\ SameDocs(b, n) /\ n = [b EXCEPT !.corpus = n.corpus]
    BY <2>1, <2>3, Share
  <2>5. n.index = b.index /\ n.needsRebuild = b.needsRebuild /\ n.deferIndex = b.deferIndex
        /\ n.deferGraph = b.deferGraph /\ n.edges = b.edges /\ n.graph = b.graph
    BY <2>3, <2>4 DEF StoreObject
  <2>6. Fit(m) => Fit(b) /\ Settled(b)
    BY <1>2, <2>2, <2>3 DEF Fit, Settled
  <2>7. Fit(m) => Fit(n) /\ Settled(n)
    BY <2>3, <2>4, <2>5, <2>6, SameFit
  <2>8. SameDocs(m, n)
    BY <2>3, <2>4 DEF SameDocs, SameRegistry
  <2> QED BY <2>3, <2>4, <2>5, <2>7, <2>8 DEF n
<1> QED BY <1>1, <1>2

LEMMA GraphRebuilt ==
  ASSUME NEW m \in StoreObject
  PROVE  LET n == rebuildGraph(m)
         IN  /\ n \in StoreObject /\ n = [m EXCEPT !.graph = n.graph]
             /\ n.graph = [nodes |-> ChunksOf(m.corpus), edges |-> m.edges]
<1> DEFINE g == [nodes |-> ChunksOf(m.corpus), edges |-> m.edges]
<1>1. ChunksOf(m.corpus) \in Seq(Chunk) /\ m.edges \in Seq(Chunk)
  <2>1. m.corpus \in Seq(Element)
    BY StoreFields
  <2> QED BY <2>1, ChunksType, StoreFields
<1>2. g \in Graph
  BY <1>1 DEF Graph
<1>3. rebuildGraph(m) = [m EXCEPT !.graph = g]
  BY DEF rebuildGraph
<1> HIDE DEF g
<1>4. rebuildGraph(m) \in StoreObject /\ rebuildGraph(m).graph = g
  BY <1>2, <1>3 DEF StoreObject
<1> QED BY <1>3, <1>4 DEF g

LEMMA EdgesDiscovered ==
  ASSUME NEW m \in StoreObject
  PROVE  LET n == discoverEdges(m)
         IN  /\ n \in StoreObject /\ n = [m EXCEPT !.edges = n.edges]
             /\ (/\ Len(m.edges) <= Len(m.corpus)
                 /\ \A i \in DOMAIN m.edges : m.edges[i] = ChunkOf(m.corpus[i])) => n.edges = ChunksOf(m.corpus)
<1> DEFINE s == m.corpus
           e == m.edges
           rest == SubSeq(s, Len(e) + 1, Len(s))
           new == e \o ChunksOf(rest)
<1>1. s \in Seq(Element) /\ e \in Seq(Chunk)
  BY StoreFields
<1>2. discoverEdges(m) = [m EXCEPT !.edges = new]
  BY DEF discoverEdges
<1> HIDE DEF s, e
<1>3. Len(s) \in Nat /\ Len(e) \in Nat /\ DOMAIN s = 1..Len(s)
  BY <1>1
<1>4. rest \in Seq(Element)
  BY <1>1, <1>3, SubSeqProperties
<1>5. /\ Len(e) <= Len(s) => Len(rest) = Len(s) - Len(e)
      /\ \A i \in 1..(Len(s) - Len(e)) : rest[i] = s[Len(e) + i]
  BY <1>1, <1>3
<1> HIDE DEF rest
<1>6. ChunksOf(rest) \in Seq(Chunk) /\ Len(ChunksOf(rest)) = Len(rest) /\ DOMAIN ChunksOf(rest) = DOMAIN rest
  BY <1>4, ChunksType
<1>7. \A i \in DOMAIN rest : ChunksOf(rest)[i] = ChunkOf(rest[i])
  BY DEF ChunksOf
<1>8. new \in Seq(Chunk)
  BY <1>1, <1>6
<1>9. ASSUME Len(e) <= Len(s), \A i \in DOMAIN e : e[i] = ChunkOf(s[i])
      PROVE  new = ChunksOf(s)
  <2>1. ChunksOf(s) \in Seq(Chunk) /\ Len(ChunksOf(s)) = Len(s) /\ \A i \in DOMAIN s : ChunksOf(s)[i] = ChunkOf(s[i])
    <3>1. ChunksOf(s) \in Seq(Chunk) /\ Len(ChunksOf(s)) = Len(s)
      BY <1>1, ChunksType
    <3> QED BY <3>1 DEF ChunksOf
  <2>2. /\ Len(new) = Len(e) + Len(ChunksOf(rest))
        /\ \A i \in DOMAIN e : new[i] = e[i]
        /\ \A i \in 1..Len(ChunksOf(rest)) : new[Len(e) + i] = ChunksOf(rest)[i]
    BY <1>1, <1>6
  <2> HIDE DEF new
  <2>4. Len(new) = Len(s)
    <3>1. Len(rest) = Len(s) - Len(e)
      BY <1>5, <1>9
    <3>2. Len(new) = Len(e) + (Len(s) - Len(e))
      BY <1>6, <2>2, <3>1
    <3> QED BY <1>3, <3>2
  <2>3. ASSUME NEW i \in 1..Len(s) PROVE new[i] = ChunksOf(s)[i]
    <3>1. CASE i <= Len(e)
      <4>1. i \in DOMAIN e /\ i \in DOMAIN s
        BY <1>1, <1>3, <3>1
      <4>2. new[i] = e[i] /\ e[i] = ChunkOf(s[i]) /\ ChunksOf(s)[i] = ChunkOf(s[i])
        BY <4>1, <1>9, <2>1, <2>2
      <4> QED BY <4>2
    <3>2. CASE i > Len(e)
      <4> DEFINE j == i - Len(e)
      <4>1. j \in 1..(Len(s) - Len(e)) /\ j \in DOMAIN rest /\ i = Len(e) + j /\ j \in 1..Len(ChunksOf(rest))
        BY <1>3, <1>4, <1>5, <1>6, <1>9, <3>2
      <4>2. new[i] = ChunksOf(rest)[j]
        BY <2>2, <4>1
      <4> HIDE DEF j
      <4>3. rest[j] = s[i]
        BY <1>5, <4>1
      <4> QED BY <4>1, <4>2, <4>3, <1>3, <1>7, <2>1
    <3> QED BY <1>3, <3>1, <3>2
  <2> QED BY <1>8, <2>1, <2>3, <2>4, SeqEqual
<1> HIDE DEF new
<1>10. discoverEdges(m) \in StoreObject /\ discoverEdges(m).edges = new
  BY <1>2, <1>8 DEF StoreObject
<1> QED BY <1>2, <1>9, <1>10 DEF s, e

LEMMA EmptyArray ==
  ASSUME NEW s \in Seq(Element)
  PROVE  s = <<>> <=> Len(s) = 0
  OBVIOUS

LEMMA Reindexed ==
  ASSUME NEW m \in StoreObject
  PROVE  LET n == reindexLocked(m)
         IN  /\ n \in StoreObject /\ SameDocs(m, n)
             /\ n.deferIndex = m.deferIndex /\ n.deferGraph = m.deferGraph
             /\ Fit(m) => Fit(n) /\ Settled(n)
<1> DEFINE n == reindexLocked(m)
           b == rebuildIndexesLocked(m)
           h == shareVectorsLocked(b)
           q == [h EXCEPT !.needsRebuild = FALSE, !.edges = <<>>]
           r == IF m.needsRebuild THEN q ELSE m
<1>1. CASE m.deferIndex
  <2>1. n = m
    BY <1>1 DEF reindexLocked
  <2> QED BY <1>1, <2>1 DEF SameDocs, SameRegistry, Settled
<1>2. CASE ~m.deferIndex
  <2>1. n = IF r.deferGraph THEN r
            ELSE IF Len(r.edges) >= Len(r.corpus)
                 THEN IF r.graph = NULL \/ r.edges = <<>> THEN rebuildGraph(r) ELSE r
                 ELSE rebuildGraph(discoverEdges(r))
    BY <1>2 DEF reindexLocked
  <2>2. /\ b \in StoreObject /\ b = [m EXCEPT !.index = b.index] /\ b.index # NULL /\ b.index \in Seq(Entry)
        /\ ChunksOf(b.index) = ChunksOf(m.corpus)
    BY Rebuilt
  <2> HIDE DEF n, b
  <2>3. SameDocs(m, b) /\ b.deferIndex = m.deferIndex /\ b.deferGraph = m.deferGraph /\ b.graph = m.graph
    BY <2>2 DEF SameDocs, SameRegistry, StoreObject
  <2>4. h \in StoreObject /\ SameDocs(b, h) /\ h = [b EXCEPT !.corpus = h.corpus]
    BY <2>2, Share
  <2> HIDE DEF h
  <2>5. h.index = b.index /\ h.deferIndex = b.deferIndex /\ h.deferGraph = b.deferGraph
    BY <2>2, <2>4 DEF StoreObject
  <2>6. /\ q \in StoreObject /\ q.index = h.index /\ q.deferIndex = h.deferIndex /\ q.deferGraph = h.deferGraph
        /\ q.edges = <<>> /\ ~q.needsRebuild /\ SameDocs(h, q)
    <3>1. h \in StoreObject
      BY <2>4
    <3>2. q \in StoreObject
      <4>1. <<>> \in Seq(Chunk) /\ FALSE \in BOOLEAN
        OBVIOUS
      <4> QED BY <3>1, <4>1 DEF StoreObject
    <3>3. /\ q.index = h.index /\ q.deferIndex = h.deferIndex /\ q.deferGraph = h.deferGraph
          /\ q.edges = <<>> /\ ~q.needsRebuild
      BY <3>1 DEF StoreObject
    <3>4. SameDocs(h, q)
      BY <3>1 DEF StoreObject, SameDocs, SameRegistry
    <3> QED BY <3>2, <3>3, <3>4
  <2> HIDE DEF q
  <2>7. SameDocs(m, q) /\ q.deferIndex = m.deferIndex /\ q.deferGraph = m.deferGraph
    BY <2>3, <2>4, <2>5, <2>6 DEF SameDocs, SameRegistry
  <2>8. Fit(m) => Fit(q)
    <3>1. m.corpus \in Seq(Element) /\ q.corpus \in Seq(Element) /\ ChunksOf(m.corpus) = ChunksOf(q.corpus)
      BY <2>6, <2>7, StoreFields DEF SameDocs
    <3>2. \A d : Own(m.corpus, d) = Own(q.corpus, d)
      BY <3>1, HoldsSame
    <3>3. ChunksOf(q.index) = ChunksOf(q.corpus) /\ q.index # NULL
      BY <2>2, <2>5, <2>6, <3>1
    <3>4. Len(q.edges) <= Len(q.corpus) /\ DOMAIN q.edges = {}
      BY <2>6, <3>1
    <3> QED BY <1>2, <2>6, <2>7, <3>2, <3>3, <3>4 DEF Fit, SameDocs, SameRegistry
  <2>9. /\ r \in StoreObject /\ SameDocs(m, r) /\ r.deferIndex = m.deferIndex /\ r.deferGraph = m.deferGraph
        /\ ~r.needsRebuild /\ (Fit(m) => Fit(r))
    <3>1. CASE m.needsRebuild
      BY <2>6, <2>7, <2>8, <3>1
    <3>2. CASE ~m.needsRebuild
      BY <3>2 DEF SameDocs, SameRegistry
    <3> QED BY <3>1, <3>2
  <2> HIDE DEF r
  <2>10. r.corpus \in Seq(Element) /\ r.edges \in Seq(Chunk)
    BY <2>9, StoreFields
  <2>11. SUFFICES ASSUME NEW x \in StoreObject, x = n
         PROVE  /\ SameDocs(r, x) /\ x.deferIndex = r.deferIndex /\ x.deferGraph = r.deferGraph
                /\ Fit(r) => Fit(x) /\ Settled(x)
    <3>1. n \in StoreObject
      <4>1. rebuildGraph(r) \in StoreObject
        BY <2>9, GraphRebuilt
      <4>2. discoverEdges(r) \in StoreObject
        BY <2>9, EdgesDiscovered
      <4>3. rebuildGraph(discoverEdges(r)) \in StoreObject
        BY <4>2, GraphRebuilt
      <4> QED BY <2>1, <2>9, <4>1, <4>3
    <3>2. /\ SameDocs(r, n) /\ n.deferIndex = r.deferIndex /\ n.deferGraph = r.deferGraph
          /\ Fit(r) => Fit(n) /\ Settled(n)
      BY <3>1, <2>11
    <3>3. SameDocs(m, n)
      BY <2>9, <3>2 DEF SameDocs, SameRegistry
    <3> QED BY <2>9, <3>1, <3>2, <3>3 DEF n
  <2>12. CASE r.deferGraph
    <3>1. x = r
      BY <2>1, <2>11, <2>12
    <3> QED BY <2>9, <2>12, <3>1 DEF SameDocs, SameRegistry, Settled
  <2>13. CASE ~r.deferGraph /\ Len(r.edges) >= Len(r.corpus)
    <3>1. Fit(r) => r.edges = ChunksOf(r.corpus)
      <4> SUFFICES ASSUME Fit(r) PROVE r.edges = ChunksOf(r.corpus)
        OBVIOUS
      <4>1. Len(r.edges) <= Len(r.corpus) /\ \A i \in DOMAIN r.edges : r.edges[i] = ChunkOf(r.corpus[i])
        BY <1>2, <2>9, <2>13 DEF Fit
      <4>2. DOMAIN r.edges = DOMAIN r.corpus /\ r.edges = [i \in DOMAIN r.edges |-> r.edges[i]]
        BY <2>10, <2>13, <4>1
      <4> QED BY <4>1, <4>2 DEF ChunksOf
    <3>2. CASE r.graph = NULL \/ r.edges = <<>>
      <4>1. x = rebuildGraph(r)
        BY <2>1, <2>11, <2>13, <3>2
      <4>2. x = [r EXCEPT !.graph = x.graph] /\ x.graph = [nodes |-> ChunksOf(r.corpus), edges |-> r.edges]
        BY <2>9, <4>1, GraphRebuilt
      <4>3. /\ x.corpus = r.corpus /\ x.docSet = r.docSet /\ SameDocs(r, x) /\ x.index = r.index /\ x.edges = r.edges
            /\ x.deferIndex = r.deferIndex /\ x.deferGraph = r.deferGraph /\ x.needsRebuild = r.needsRebuild
        BY <4>2, <2>9 DEF StoreObject, SameDocs, SameRegistry
      <4> QED BY <2>9, <3>1, <4>2, <4>3 DEF Fit, Settled
    <3>3. CASE ~(r.graph = NULL \/ r.edges = <<>>)
      <4>1. x = r
        BY <2>1, <2>11, <2>13, <3>3
      <4> QED BY <2>9, <3>1, <4>1 DEF SameDocs, SameRegistry, Settled
    <3> QED BY <3>2, <3>3
  <2>14. CASE ~r.deferGraph /\ ~(Len(r.edges) >= Len(r.corpus))
    <3> DEFINE e == discoverEdges(r)
    <3>1. x = rebuildGraph(e)
      BY <2>1, <2>11, <2>14
    <3>2. /\ e \in StoreObject /\ e = [r EXCEPT !.edges = e.edges]
          /\ (/\ Len(r.edges) <= Len(r.corpus)
              /\ \A i \in DOMAIN r.edges : r.edges[i] = ChunkOf(r.corpus[i])) => e.edges = ChunksOf(r.corpus)
      BY <2>9, EdgesDiscovered
    <3> HIDE DEF e
    <3>3. x = [e EXCEPT !.graph = x.graph] /\ x.graph = [nodes |-> ChunksOf(e.corpus), edges |-> e.edges]
      BY <3>1, <3>2, GraphRebuilt
    <3>4. e.corpus = r.corpus /\ x.edges = e.edges
      BY <2>9, <3>2, <3>3 DEF StoreObject
    <3>5. /\ x.corpus = r.corpus /\ x.docSet = r.docSet /\ SameDocs(r, x) /\ x.index = r.index
          /\ x.deferIndex = r.deferIndex /\ x.deferGraph = r.deferGraph /\ x.needsRebuild = r.needsRebuild
      <4>1. r \in StoreObject /\ e \in StoreObject
        BY <2>9, <3>2
      <4>2. /\ e.corpus = r.corpus /\ e.docSet = r.docSet /\ SameRegistry(r, e) /\ e.index = r.index
            /\ e.deferIndex = r.deferIndex /\ e.deferGraph = r.deferGraph /\ e.needsRebuild = r.needsRebuild
        BY <3>2, <4>1 DEF StoreObject, SameRegistry
      <4>3. /\ x.corpus = e.corpus /\ x.docSet = e.docSet /\ SameRegistry(e, x) /\ x.index = e.index
            /\ x.deferIndex = e.deferIndex /\ x.deferGraph = e.deferGraph /\ x.needsRebuild = e.needsRebuild
        BY <3>3, <4>1 DEF StoreObject, SameRegistry
      <4> QED BY <4>2, <4>3 DEF SameDocs, SameRegistry
    <3>6. Fit(r) => x.edges = ChunksOf(r.corpus)
      BY <1>2, <2>9, <2>14, <3>2, <3>4 DEF Fit
    <3>7. Len(ChunksOf(r.corpus)) = Len(r.corpus) /\ \A i \in DOMAIN ChunksOf(r.corpus) : ChunksOf(r.corpus)[i] = ChunkOf(r.corpus[i])
      <4>1. Len(ChunksOf(r.corpus)) = Len(r.corpus)
        BY <2>10, ChunksType
      <4> QED BY <4>1 DEF ChunksOf
    <3>8. Len(r.corpus) \in Nat
      BY <2>10
    <3> QED BY <2>9, <3>3, <3>4, <3>5, <3>6, <3>7, <3>8 DEF Fit, Settled
  <2> QED BY <2>12, <2>13, <2>14
<1> QED BY <1>1, <1>2

LEMMA EnsureGraph ==
  ASSUME NEW m \in StoreObject
  PROVE  LET n == ensureGraphLocked(m)
         IN  /\ n \in StoreObject /\ SameDocs(m, n) /\ ~n.deferIndex /\ ~n.deferGraph
             /\ Fit(m) => Fit(n) /\ (Settled(m) => Settled(n))
<1> DEFINE n == ensureGraphLocked(m)
           s == ensureSearchLocked(m)
           q == [s EXCEPT !.deferGraph = FALSE, !.edges = <<>>]
<1>1. /\ s \in StoreObject /\ SameDocs(m, s) /\ ~s.deferIndex
      /\ Fit(m) => Fit(s) /\ (Settled(m) => Settled(s))
  BY EnsureSearch
<1>2. n = IF ~s.deferGraph THEN s ELSE reindexLocked(q)
  BY DEF ensureGraphLocked
<1> HIDE DEF n, s
<1>3. q \in StoreObject /\ q.edges = <<>> /\ ~q.deferGraph /\ ~q.deferIndex
  <2>1. <<>> \in Seq(Chunk) /\ FALSE \in BOOLEAN
    OBVIOUS
  <2> QED BY <1>1, <2>1 DEF StoreObject
<1>4. q.corpus = s.corpus /\ q.docSet = s.docSet /\ q.index = s.index /\ q.needsRebuild = s.needsRebuild /\ SameDocs(m, q)
  BY <1>1 DEF StoreObject, SameDocs, SameRegistry
<1> HIDE DEF q
<1>5. Fit(s) => Fit(q)
  <2>1. Len(q.edges) <= Len(q.corpus) /\ DOMAIN q.edges = {}
    <3>1. q.corpus \in Seq(Element)
      BY <1>3, StoreFields
    <3> QED BY <1>3, <3>1
  <2> QED BY <1>1, <1>3, <1>4, <2>1 DEF Fit
<1>6. CASE ~s.deferGraph
  BY <1>1, <1>2, <1>6 DEF n
<1>7. CASE s.deferGraph
  <2>1. n = reindexLocked(q)
    BY <1>2, <1>7
  <2>2. /\ n \in StoreObject /\ SameDocs(q, n) /\ n.deferIndex = q.deferIndex /\ n.deferGraph = q.deferGraph
        /\ Fit(q) => Fit(n) /\ Settled(n)
    BY <1>3, <2>1, Reindexed
  <2>3. SameDocs(m, n)
    BY <1>4, <2>2 DEF SameDocs, SameRegistry
  <2> QED BY <1>1, <1>3, <1>5, <2>2, <2>3 DEF n
<1> QED BY <1>6, <1>7

-----------------------------------------------------------------------------
(* The helpers that change the documents.                                   *)

\* The two registries of a store are inverse.
Paired(m) == \A c \in Contents, d \in Docs : m.hashes[c] = d <=> m.idHash[d] = c

LEMMA Removed ==
  ASSUME NEW m \in StoreObject, NEW id \in Docs
  PROVE  LET n == removeDocLocked(m, id)
         IN  /\ n \in StoreObject
             /\ n.idHash = [m.idHash EXCEPT ![id] = NULL] /\ n.latest = m.latest
             /\ Paired(m) => Paired(n)
             /\ Own(n.corpus, id) = {}
             /\ \A d : d # id => /\ Own(m.corpus, d) = {} <=> Own(n.corpus, d) = {}
                                 /\ \A c : Holds(m.corpus, d, c) => Holds(n.corpus, d, c)
             /\ n.index = m.index /\ n.deferIndex = m.deferIndex /\ n.deferGraph = m.deferGraph
             /\ Own(m.corpus, id) # {} => n.needsRebuild
             /\ Len(n.corpus) = Len(m.corpus) => n.corpus = m.corpus /\ n.needsRebuild = m.needsRebuild
             /\ Fit(m) => Fit(n)
             /\ n.edges = m.edges /\ n.graph = m.graph
<1> DEFINE n == removeDocLocked(m, id)
           kept == Compacted(m.corpus, KeptWithout(m.corpus, id))
           own == m.idHash[id]
           nr == m.needsRebuild \/ Len(kept) # Len(m.corpus)
           h == IF own = NULL THEN m.hashes ELSE [m.hashes EXCEPT ![own] = NULL]
           ih == [m.idHash EXCEPT ![id] = NULL]
<1>1. /\ m.corpus \in Seq(Element) /\ m.hashes \in [Contents -> Docs \cup {NULL}]
      /\ m.idHash \in [Docs -> Contents \cup {NULL}] /\ m.docSet \in SUBSET Docs
      /\ m.needsRebuild \in BOOLEAN
  BY StoreFields
<1>2. /\ kept \in Seq(Element)
      /\ Len(kept) <= Len(m.corpus) /\ (Len(kept) = Len(m.corpus) <=> Own(m.corpus, id) = {})
      /\ (Own(m.corpus, id) = {} => kept = m.corpus)
      /\ Own(kept, id) = {}
      /\ \A d : d # id => /\ Own(m.corpus, d) = {} <=> Own(kept, d) = {}
                          /\ \A c : Holds(m.corpus, d, c) => Holds(kept, d, c)
  BY <1>1, HoldsRemoved
<1>3. n = [m EXCEPT !.corpus = kept, !.needsRebuild = nr, !.docSet = m.docSet \ {id}, !.hashes = h, !.idHash = ih]
  BY <1>1 DEF removeDocLocked
<1>4. h \in [Contents -> Docs \cup {NULL}] /\ ih \in [Docs -> Contents \cup {NULL}] /\ nr \in BOOLEAN
  BY <1>1
<1>5. Paired(m) => \A c \in Contents, d \in Docs : h[c] = d <=> ih[d] = c
  <2> SUFFICES ASSUME Paired(m), NEW c \in Contents, NEW d \in Docs PROVE h[c] = d <=> ih[d] = c
    OBVIOUS
  <2>1. d # NULL /\ c # NULL
    BY NullAssumption
  <2>2. CASE own = NULL
    BY <1>1, <2>1, <2>2 DEF Paired
  <2>3. CASE own # NULL
    <3>1. own \in Contents /\ m.hashes[own] = id
      BY <1>1, <2>3 DEF Paired
    <3> QED BY <1>1, <2>1, <2>3, <3>1 DEF Paired
  <2> QED BY <2>2, <2>3
<1> HIDE DEF n, kept, nr, h, ih, own
<1>6. /\ n \in StoreObject /\ n.corpus = kept /\ n.needsRebuild = nr /\ n.docSet = m.docSet \ {id}
      /\ n.hashes = h /\ n.idHash = ih
  BY <1>1, <1>2, <1>3, <1>4 DEF StoreObject
<1>7. /\ n.latest = m.latest /\ n.index = m.index /\ n.deferIndex = m.deferIndex /\ n.deferGraph = m.deferGraph
      /\ n.edges = m.edges /\ n.graph = m.graph
  BY <1>3 DEF StoreObject
<1>8. Fit(m) => Fit(n)
  <2> SUFFICES ASSUME Fit(m) PROVE Fit(n)
    OBVIOUS
  <2>1. \A d \in Docs : d \in n.docSet <=> Own(n.corpus, d) # {}
    BY <1>2, <1>6 DEF Fit
  <2>2. m.corpus = <<>> => n.corpus = <<>>
    <3>1. Len(kept) = 0 => kept = <<>>
      BY <1>2, EmptyArray
    <3> QED BY <1>1, <1>2, <1>6, <3>1
  <2>3. ~n.needsRebuild => n.corpus = m.corpus /\ ~m.needsRebuild
    BY <1>2, <1>6 DEF nr
  <2> QED BY <1>7, <2>1, <2>2, <2>3 DEF Fit
<1>9. Paired(m) => Paired(n)
  BY <1>5, <1>6 DEF Paired
<1>10. /\ Own(m.corpus, id) # {} => n.needsRebuild
       /\ Len(n.corpus) = Len(m.corpus) => n.corpus = m.corpus /\ n.needsRebuild = m.needsRebuild
  BY <1>1, <1>2, <1>6 DEF nr
<1>11. n.idHash = [m.idHash EXCEPT ![id] = NULL]
  BY <1>6 DEF ih
<1> QED BY <1>2, <1>6, <1>7, <1>8, <1>9, <1>10, <1>11 DEF n

\* The registries and what is deferred are left alone.
SameRest(m, n) ==
  /\ n.hashes = m.hashes /\ n.idHash = m.idHash /\ n.latest = m.latest
  /\ n.deferIndex = m.deferIndex /\ n.deferGraph = m.deferGraph /\ n.needsRebuild = m.needsRebuild
  /\ n.edges = m.edges /\ n.graph = m.graph

LEMMA ListedAppended ==
  ASSUME NEW m \in StoreObject, NEW els \in Seq(Element),
         \A d \in Docs : d \in m.docSet <=> Own(m.corpus, d) # {}
  PROVE  \A d \in Docs : d \in m.docSet \cup {e.doc : e \in ToSet(els)} <=> Own(m.corpus \o els, d) # {}
<1> SUFFICES ASSUME NEW d \in Docs
             PROVE  d \in m.docSet \cup {e.doc : e \in ToSet(els)} <=> Own(m.corpus \o els, d) # {}
  OBVIOUS
<1>1. m.corpus \in Seq(Element)
  BY StoreFields
<1>2. Own(m.corpus \o els, d) = Own(m.corpus, d) \cup {Len(m.corpus) + i : i \in Own(els, d)}
  BY <1>1, OwnAppended
<1>3. d \in {e.doc : e \in ToSet(els)} <=> Own(els, d) # {}
  BY DEF ToSet, Own
<1> HIDE DEF Own
<1>4. Own(m.corpus \o els, d) # {} <=> Own(m.corpus, d) # {} \/ Own(els, d) # {}
  BY <1>2
<1> QED BY <1>3, <1>4

LEMMA ArraysAppended ==
  ASSUME NEW m \in StoreObject, NEW els \in Seq(Element)
  PROVE  LET n == appendToArraysLocked(m, els)
         IN  /\ n \in StoreObject /\ SameRest(m, n) /\ n.corpus = m.corpus \o els /\ n.index = m.index
             /\ n.docSet = m.docSet \cup {e.doc : e \in ToSet(els)}
             /\ Fit(m) /\ m.needsRebuild /\ m.index # NULL => Fit(n)
<1> DEFINE n == appendToArraysLocked(m, els)
           c == m.corpus \o els
           ds == m.docSet \cup {e.doc : e \in ToSet(els)}
<1>1. c \in Seq(Element)
  <2>1. m.corpus \in Seq(Element)
    BY StoreFields
  <2> QED BY <2>1
<1>2. ds \in SUBSET Docs
  <2>1. ASSUME NEW e \in ToSet(els) PROVE e.doc \in Docs
    <3>1. PICK i \in DOMAIN els : e = els[i]
      BY DEF ToSet
    <3>2. e \in Element
      BY <3>1, ElementOfSeq
    <3> QED BY <3>2 DEF Element
  <2>2. m.docSet \in SUBSET Docs
    BY StoreFields
  <2> QED BY <2>1, <2>2
<1>3. n = [m EXCEPT !.corpus = c, !.docSet = ds]
  BY DEF appendToArraysLocked
<1>4. (\A d \in Docs : d \in m.docSet <=> Own(m.corpus, d) # {}) => \A d \in Docs : d \in ds <=> Own(c, d) # {}
  BY ListedAppended
<1> HIDE DEF n, c, ds
<1>5. n \in StoreObject /\ SameRest(m, n) /\ n.corpus = c /\ n.index = m.index /\ n.docSet = ds
  BY <1>1, <1>2, <1>3 DEF StoreObject, SameRest
<1>6. Fit(m) /\ m.needsRebuild /\ m.index # NULL => Fit(n)
  BY <1>4, <1>5 DEF Fit, SameRest
<1> QED BY <1>5, <1>6 DEF n, c, ds

LEMMA ChunksAppended ==
  ASSUME NEW m \in StoreObject, NEW els \in Seq(Element), m.index # NULL
  PROVE  LET n == appendChunksLocked(m, els)
         IN  /\ n \in StoreObject /\ SameRest(m, n) /\ n.corpus = m.corpus \o els /\ n.index # NULL
             /\ n.docSet = m.docSet \cup {e.doc : e \in ToSet(els)}
             /\ n.index = m.index \o Indexed(els)
             /\ Fit(m) => Fit(n)
<1> DEFINE n == appendChunksLocked(m, els)
           a == appendToArraysLocked(m, els)
           x == m.index \o Indexed(els)
           s == m.corpus
<1>1. /\ a \in StoreObject /\ SameRest(m, a) /\ a.corpus = m.corpus \o els
      /\ a.docSet = m.docSet \cup {e.doc : e \in ToSet(els)}
  BY ArraysAppended
<1>2. n = [a EXCEPT !.index = x]
  BY DEF appendChunksLocked
<1>3. /\ s \in Seq(Element) /\ m.index \in Seq(Entry) /\ Indexed(els) \in Seq(Entry) /\ Len(Indexed(els)) = Len(els)
      /\ \A i \in DOMAIN els : ChunkOf(Indexed(els)[i]) = ChunkOf(els[i])
  BY StoreFields, IndexedType DEF Matches, ChunkOf
<1>4. x \in Seq(Entry)
  BY <1>3
<1>5. (\A d \in Docs : d \in m.docSet <=> Own(m.corpus, d) # {})
        => \A d \in Docs : d \in a.docSet <=> Own(a.corpus, d) # {}
  BY <1>1, ListedAppended
<1> HIDE DEF n, a, s
<1>6. ASSUME ChunksOf(m.index) = ChunksOf(s) PROVE ChunksOf(x) = ChunksOf(s \o els)
  <2>1. DOMAIN m.index = DOMAIN s /\ \A i \in DOMAIN s : ChunkOf(m.index[i]) = ChunkOf(s[i])
    BY <1>6 DEF ChunksOf
  <2>2. Len(m.index) = Len(s)
    BY <1>3, <2>1
  <2>3. s \o els \in Seq(Element) /\ Len(x) = Len(s \o els) /\ DOMAIN x = DOMAIN (s \o els)
    <3>1. s \o els \in Seq(Element) /\ Len(s \o els) = Len(s) + Len(els)
      BY <1>3
    <3>2. x \in Seq(Entry) /\ Len(x) = Len(m.index) + Len(Indexed(els))
      <4>1. m.index \in Seq(Entry) /\ Indexed(els) \in Seq(Entry)
        BY <1>3
      <4> QED BY <4>1
    <3>3. Len(x) = Len(s \o els)
      BY <1>3, <2>2, <3>1, <3>2
    <3> HIDE DEF x
    <3>4. DOMAIN x = 1..Len(x) /\ DOMAIN (s \o els) = 1..Len(s \o els)
      BY <3>1, <3>2
    <3> QED BY <3>1, <3>3, <3>4
  <2>4. ASSUME NEW i \in DOMAIN (s \o els) PROVE ChunkOf(x[i]) = ChunkOf((s \o els)[i])
    <3>1. CASE i <= Len(s)
      <4>1. i \in DOMAIN s /\ x[i] = m.index[i] /\ (s \o els)[i] = s[i]
        BY <1>3, <2>2, <2>3, <3>1
      <4> QED BY <2>1, <4>1
    <3>2. CASE i > Len(s)
      <4> DEFINE j == i - Len(s)
      <4>1. j \in DOMAIN els /\ x[i] = Indexed(els)[j] /\ (s \o els)[i] = els[j]
        BY <1>3, <2>2, <2>3, <3>2
      <4> HIDE DEF j
      <4> QED BY <1>3, <4>1
    <3> QED BY <1>3, <2>3, <3>1, <3>2
  <2> HIDE DEF x
  <2> QED BY <2>3, <2>4 DEF ChunksOf
<1> HIDE DEF x
<1>7. /\ n \in StoreObject /\ SameRest(m, n) /\ n.corpus = s \o els /\ n.docSet = a.docSet /\ n.index = x
  BY <1>1, <1>2, <1>4 DEF StoreObject, SameRest, s
<1>8. x # NULL
  BY <1>4, NullAssumption
<1>9. m.edges \in Seq(Chunk) /\ Len(s) \in Nat /\ Len(s \o els) >= Len(s) /\ \A i \in DOMAIN s : (s \o els)[i] = s[i]
  BY <1>3, StoreFields
<1>10. Len(m.edges) <= Len(s) =>
         Len(m.edges) <= Len(s \o els) /\ \A i \in DOMAIN m.edges : i \in DOMAIN s /\ (s \o els)[i] = s[i]
  <2>1. Len(s \o els) \in Nat
    BY <1>3
  <2> QED BY <1>3, <1>9, <2>1
<1>11. Fit(m) => Fit(n)
  <2> SUFFICES ASSUME Fit(m) PROVE Fit(n)
    OBVIOUS
  <2>1. \A d \in Docs : d \in n.docSet <=> Own(n.corpus, d) # {}
    BY <1>1, <1>5, <1>7 DEF Fit, s
  <2>2. ~n.deferIndex /\ ~n.needsRebuild => ChunksOf(n.index) = ChunksOf(n.corpus)
    BY <1>6, <1>7 DEF Fit, SameRest, s
  <2>3. ~n.deferIndex /\ ~n.deferGraph /\ ~n.needsRebuild =>
       /\ Len(n.edges) <= Len(n.corpus)
       /\ \A i \in DOMAIN n.edges : n.edges[i] = ChunkOf(n.corpus[i])
       /\ n.edges # <<>> => n.graph = [nodes |-> n.edges, edges |-> n.edges]
    BY <1>7, <1>10 DEF Fit, SameRest, s
  <2>4. n.index # NULL /\ (n.deferIndex => n.deferGraph)
    BY <1>7, <1>8 DEF Fit, SameRest
  <2> QED BY <2>1, <2>2, <2>3, <2>4 DEF Fit
<1> QED BY <1>1, <1>7, <1>8, <1>11 DEF n, x, s

LEMMA Initialised ==
  ASSUME NEW m \in StoreObject
  PROVE  LET n == initIndexes(m)
         IN  /\ n \in StoreObject /\ n.index = <<>> /\ n.index # NULL /\ n = [m EXCEPT !.index = <<>>]
             /\ n.corpus = m.corpus /\ SameRegistry(m, n) /\ SameRest(m, n)
             /\ Fit(m) /\ m.index = NULL => Fit(n)
<1> DEFINE n == initIndexes(m)
<1>1. <<>> \in Seq(Entry)
  OBVIOUS
<1>2. <<>> # NULL
  BY <1>1, NullAssumption
<1>3. n = [m EXCEPT !.index = <<>>]
  BY DEF initIndexes
<1> HIDE DEF n
<1>4. n \in StoreObject /\ n.index = <<>> /\ n.corpus = m.corpus /\ SameRegistry(m, n) /\ SameRest(m, n)
  BY <1>1, <1>3 DEF StoreObject, SameRegistry, SameRest
<1>5. ASSUME Fit(m), m.index = NULL PROVE Fit(n)
  <2>1. m.corpus = <<>> /\ n.index = <<>>
    BY <1>4, <1>5 DEF Fit
  <2>2. ChunksOf(n.index) = ChunksOf(n.corpus)
    BY <1>4, <2>1
  <2> QED BY <1>2, <1>4, <1>5, <2>2 DEF Fit, SameRegistry, SameRest
<1> QED BY <1>2, <1>3, <1>4, <1>5 DEF n

LEMMA Recorded ==
  ASSUME NEW m \in StoreObject, NEW id \in Docs, NEW c \in Contents
  PROVE  LET n == recordVersionLocked(recordHashLocked(m, id, c), id, c)
         IN  /\ n \in StoreObject /\ n.corpus = m.corpus /\ n.docSet = m.docSet /\ n.index = m.index
             /\ n.needsRebuild = m.needsRebuild /\ n.deferIndex = m.deferIndex /\ n.deferGraph = m.deferGraph
             /\ n.edges = m.edges /\ n.graph = m.graph
             /\ n.idHash = [m.idHash EXCEPT ![id] = c] /\ n.latest = [m.latest EXCEPT ![id] = c]
             /\ Fit(m) => Fit(n)
             /\ Paired(m) /\ m.idHash[id] = NULL /\ m.hashes[c] = NULL => Paired(n)
<1> DEFINE n == recordVersionLocked(recordHashLocked(m, id, c), id, c)
           h == [m.hashes EXCEPT ![c] = id]
           ih == [m.idHash EXCEPT ![id] = c]
           l == [m.latest EXCEPT ![id] = c]
<1>1. /\ m.hashes \in [Contents -> Docs \cup {NULL}] /\ m.idHash \in [Docs -> Contents \cup {NULL}]
      /\ m.latest \in [Docs -> Contents \cup {NULL}]
  BY StoreFields
<1>2. n = [m EXCEPT !.hashes = h, !.idHash = ih, !.latest = l]
  BY DEF recordVersionLocked, recordHashLocked, StoreObject
<1>3. /\ h \in [Contents -> Docs \cup {NULL}] /\ ih \in [Docs -> Contents \cup {NULL}]
      /\ l \in [Docs -> Contents \cup {NULL}]
  BY <1>1
<1>4. Paired(m) /\ m.idHash[id] = NULL /\ m.hashes[c] = NULL
        => \A x \in Contents, d \in Docs : h[x] = d <=> ih[d] = x
  <2> SUFFICES ASSUME Paired(m), m.idHash[id] = NULL, m.hashes[c] = NULL, NEW x \in Contents, NEW d \in Docs
               PROVE  h[x] = d <=> ih[d] = x
    OBVIOUS
  <2>1. x # NULL /\ d # NULL
    BY NullAssumption
  <2> QED BY <1>1, <2>1 DEF Paired
<1> HIDE DEF n, h, ih, l
<1>5. n \in StoreObject /\ n.hashes = h /\ n.idHash = ih /\ n.latest = l
  BY <1>2, <1>3 DEF StoreObject
<1>6. /\ n.corpus = m.corpus /\ n.docSet = m.docSet /\ n.index = m.index
      /\ n.needsRebuild = m.needsRebuild /\ n.deferIndex = m.deferIndex /\ n.deferGraph = m.deferGraph
      /\ n.edges = m.edges /\ n.graph = m.graph
  BY <1>2 DEF StoreObject
<1>7. Fit(m) => Fit(n)
  BY <1>6 DEF Fit
<1>8. Paired(m) /\ m.idHash[id] = NULL /\ m.hashes[c] = NULL => Paired(n)
  BY <1>4, <1>5 DEF Paired
<1>9. n.idHash = [m.idHash EXCEPT ![id] = c] /\ n.latest = [m.latest EXCEPT ![id] = c]
  BY <1>5 DEF ih, l
<1> QED BY <1>5, <1>6, <1>7, <1>8, <1>9 DEF n

LEMMA Applied ==
  ASSUME NEW m \in StoreObject, NEW p \in Prep
  PROVE  LET n == applyPreparedLocked(m, p)
         IN  /\ n \in StoreObject /\ n.deferIndex = m.deferIndex /\ n.deferGraph = m.deferGraph
             /\ Fit(m) => Fit(n)
             /\ Rejected(m, p) => n.corpus = m.corpus /\ SameRegistry(m, n)
             /\ ~Rejected(m, p) =>
                  /\ n.idHash = [m.idHash EXCEPT ![p.id] = p.content]
                  /\ n.latest = [m.latest EXCEPT ![p.id] = p.content]
                  /\ Fit(m) => Holds(n.corpus, p.id, p.content)
                  /\ \A d : d # p.id => /\ Own(m.corpus, d) = {} => Own(n.corpus, d) = {}
                                        /\ \A c : Holds(m.corpus, d, c) => Holds(n.corpus, d, c)
                  /\ Paired(m) /\ (p.id \in m.docSet \/ m.idHash[p.id] = NULL) => Paired(n)
<1> DEFINE n == applyPreparedLocked(m, p)
           els == Elements(p, p.vecs)
           ready == IF m.index = NULL THEN initIndexes(m) ELSE m
           gone == removeDocLocked(ready, p.id)
           base == IF p.id \in m.docSet THEN gone ELSE ready
           inst == IF p.id \in m.docSet THEN appendToArraysLocked(gone, els)
                   ELSE IF ready.needsRebuild THEN appendToArraysLocked(ready, els)
                                              ELSE appendChunksLocked(ready, els)
<1>1. p \in [id : Docs, content : Contents, vecs : Seq(Texts)] /\ Len(p.vecs) = Len(Pieces[p.content])
  BY DEF Prep
<1>2. p.id \in Docs /\ p.content \in Contents /\ p.vecs \in Seq(Texts)
  BY <1>1
<1>3. /\ els \in Seq(Element) /\ Holds(els, p.id, p.content) /\ \A e : e # p.id => Own(els, e) = {}
  <2> DEFINE d == [id |-> p.id, content |-> p.content]
  <2>1. d \in [id : Docs, content : Contents] /\ d.id = p.id /\ d.content = p.content
    BY <1>2
  <2>2. els = Elements(d, p.vecs)
    BY <2>1 DEF Elements
  <2> HIDE DEF d, els
  <2> QED BY <1>1, <1>2, <2>1, <2>2, HoldsElements
<1>4. /\ ready \in StoreObject /\ ready.index # NULL /\ ready.corpus = m.corpus /\ SameRegistry(m, ready)
      /\ SameRest(m, ready) /\ (Fit(m) => Fit(ready))
  <2>1. CASE m.index = NULL
    BY <2>1, Initialised
  <2>2. CASE m.index # NULL
    BY <2>2 DEF SameRegistry, SameRest
  <2> QED BY <2>1, <2>2
<1>5. n = IF p.vecs = <<>> THEN m
          ELSE IF Rejected(m, p) THEN ready
          ELSE recordVersionLocked(recordHashLocked(inst, p.id, p.content), p.id, p.content)
  BY DEF applyPreparedLocked
<1> HIDE DEF n, els, ready
<1>6. CASE p.vecs = <<>>
  <2>1. n = m /\ Rejected(m, p)
    BY <1>5, <1>6 DEF Rejected
  <2> QED BY <2>1 DEF n, SameRegistry
<1>7. CASE p.vecs # <<>> /\ Rejected(m, p)
  <2>1. n = ready
    BY <1>5, <1>7
  <2> QED BY <1>4, <1>7, <2>1 DEF n, SameRest
<1>8. CASE p.vecs # <<>> /\ ~Rejected(m, p)
  <2>1. n = recordVersionLocked(recordHashLocked(inst, p.id, p.content), p.id, p.content)
    BY <1>5, <1>8
  <2>2. /\ gone \in StoreObject
        /\ gone.idHash = [ready.idHash EXCEPT ![p.id] = NULL] /\ gone.latest = ready.latest
        /\ Paired(ready) => Paired(gone)
        /\ Own(gone.corpus, p.id) = {}
        /\ \A d : d # p.id => /\ Own(ready.corpus, d) = {} <=> Own(gone.corpus, d) = {}
                              /\ \A c : Holds(ready.corpus, d, c) => Holds(gone.corpus, d, c)
        /\ gone.index = ready.index /\ gone.deferIndex = ready.deferIndex /\ gone.deferGraph = ready.deferGraph
        /\ Own(ready.corpus, p.id) # {} => gone.needsRebuild
        /\ Fit(ready) => Fit(gone)
    BY <1>2, <1>4, Removed
  <2> HIDE DEF gone
  <2>3. /\ base \in StoreObject /\ base.index # NULL /\ base.deferIndex = m.deferIndex /\ base.deferGraph = m.deferGraph
        /\ base.latest = m.latest
        /\ base.idHash = m.idHash \/ base.idHash = [m.idHash EXCEPT ![p.id] = NULL]
        /\ Fit(m) => Fit(base) /\ Own(base.corpus, p.id) = {} /\ (p.id \in m.docSet => base.needsRebuild)
        /\ \A d : d # p.id => /\ Own(m.corpus, d) = {} => Own(base.corpus, d) = {}
                              /\ \A c : Holds(m.corpus, d, c) => Holds(base.corpus, d, c)
        /\ Paired(m) => Paired(base)
        /\ p.id \in m.docSet \/ m.idHash[p.id] = NULL => base.idHash[p.id] = NULL
    <3>0. m.idHash \in [Docs -> Contents \cup {NULL}]
      BY StoreFields
    <3>1. Paired(m) => Paired(ready)
      BY <1>4 DEF Paired, SameRegistry
    <3>2. CASE p.id \in m.docSet
      <4>1. base = gone
        BY <3>2
      <4>2. Fit(m) => Own(ready.corpus, p.id) # {}
        BY <1>2, <1>4, <3>2 DEF Fit
      <4> HIDE DEF base
      <4> QED BY <1>2, <1>4, <2>2, <3>0, <3>1, <3>2, <4>1, <4>2 DEF SameRegistry, SameRest
    <3>3. CASE p.id \notin m.docSet
      <4>1. base = ready
        BY <3>3
      <4>2. Fit(m) => Own(m.corpus, p.id) = {}
        BY <1>2, <3>3 DEF Fit
      <4> HIDE DEF base
      <4> QED BY <1>2, <1>4, <3>1, <3>3, <4>1, <4>2 DEF SameRegistry, SameRest
    <3> QED BY <3>2, <3>3
  <2>4. /\ inst \in StoreObject /\ SameRest(base, inst) /\ inst.corpus = base.corpus \o els
        /\ Fit(m) => Fit(inst)
    <3>1. CASE p.id \in m.docSet
      <4>1. inst = appendToArraysLocked(base, els)
        BY <3>1
      <4> HIDE DEF inst, base
      <4> QED BY <1>3, <2>3, <3>1, <4>1, ArraysAppended
    <3>2. CASE p.id \notin m.docSet /\ ready.needsRebuild
      <4>1. inst = appendToArraysLocked(base, els) /\ base.needsRebuild
        BY <3>2
      <4> HIDE DEF inst, base
      <4> QED BY <1>3, <2>3, <3>2, <4>1, ArraysAppended
    <3>3. CASE p.id \notin m.docSet /\ ~ready.needsRebuild
      <4>1. inst = appendChunksLocked(base, els)
        BY <3>3
      <4> HIDE DEF inst, base
      <4> QED BY <1>3, <2>3, <3>3, <4>1, ChunksAppended
    <3> QED BY <3>1, <3>2, <3>3
  <2> HIDE DEF inst, base
  <2>5. /\ n \in StoreObject /\ n.corpus = inst.corpus
        /\ n.deferIndex = inst.deferIndex /\ n.deferGraph = inst.deferGraph
        /\ n.idHash = [inst.idHash EXCEPT ![p.id] = p.content] /\ n.latest = [inst.latest EXCEPT ![p.id] = p.content]
        /\ Fit(inst) => Fit(n)
        /\ Paired(inst) /\ inst.idHash[p.id] = NULL /\ inst.hashes[p.content] = NULL => Paired(n)
    BY <1>2, <2>1, <2>4, Recorded
  <2>6. n.deferIndex = m.deferIndex /\ n.deferGraph = m.deferGraph /\ (Fit(m) => Fit(n))
    BY <2>3, <2>4, <2>5 DEF SameRest
  <2>7. n.idHash = [m.idHash EXCEPT ![p.id] = p.content] /\ n.latest = [m.latest EXCEPT ![p.id] = p.content]
    <3>1. m.idHash \in [Docs -> Contents \cup {NULL}]
      BY StoreFields
    <3> QED BY <1>2, <2>3, <2>4, <2>5, <3>1 DEF SameRest
  <2>8. base.corpus \in Seq(Element)
    BY <2>3, StoreFields
  <2>9. Fit(m) => Holds(n.corpus, p.id, p.content)
    BY <1>3, <2>3, <2>4, <2>5, <2>8, HoldsAfter
  <2>10. ASSUME NEW d, d # p.id
         PROVE  /\ Own(m.corpus, d) = {} => Own(n.corpus, d) = {}
                /\ \A c : Holds(m.corpus, d, c) => Holds(n.corpus, d, c)
    <3>1. Own(els, d) = {}
      BY <1>3, <2>10
    <3>2. Own(base.corpus, d) = {} => Own(n.corpus, d) = {}
      <4>1. Own(base.corpus \o els, d) = Own(base.corpus, d) \cup {Len(base.corpus) + i : i \in Own(els, d)}
        BY <1>3, <2>8, OwnAppended
      <4> HIDE DEF Own
      <4> QED BY <2>4, <2>5, <3>1, <4>1
    <3>3. \A c : Holds(base.corpus, d, c) => Holds(n.corpus, d, c)
      BY <1>3, <2>4, <2>5, <2>8, <3>1, HoldsBefore
    <3> QED BY <2>3, <2>10, <3>2, <3>3
  <2>11. ASSUME Paired(m), p.id \in m.docSet \/ m.idHash[p.id] = NULL PROVE Paired(n)
    <3>1. Paired(inst) /\ inst.idHash[p.id] = NULL
      BY <2>3, <2>4, <2>11 DEF SameRest, Paired
    <3>2. inst.hashes[p.content] = NULL
      <4> SUFFICES ASSUME inst.hashes[p.content] # NULL PROVE FALSE
        OBVIOUS
      <4>1. inst.hashes[p.content] \in Docs /\ m.idHash \in [Docs -> Contents \cup {NULL}]
        BY <1>2, <2>4, StoreFields
      <4>2. inst.idHash[inst.hashes[p.content]] = p.content
        BY <1>2, <3>1, <4>1 DEF Paired
      <4>3. p.content # NULL /\ inst.hashes[p.content] # p.id
        BY <1>2, <3>1, <4>2, NullAssumption
      <4>4. m.idHash[inst.hashes[p.content]] = p.content
        BY <1>2, <2>3, <2>4, <4>1, <4>2, <4>3 DEF SameRest
      <4>5. m.hashes[p.content] = inst.hashes[p.content]
        BY <1>2, <2>11, <4>1, <4>4 DEF Paired
      <4> QED BY <1>8, <4>1, <4>3, <4>5 DEF Rejected
    <3> QED BY <2>5, <3>1, <3>2
  <2> QED BY <1>8, <2>5, <2>6, <2>7, <2>9, <2>10, <2>11 DEF n
<1> QED BY <1>6, <1>7, <1>8

LEMMA LastOne ==
  ASSUME NEW n \in Nat, NEW I \in SUBSET (1..n), I # {}
  PROVE  Max(I) \in I
<1> DEFINE T == {n - i : i \in I}
<1>1. T \in SUBSET Nat /\ T # {}
  <2>1. \A i \in I : n - i \in Nat
    OBVIOUS
  <2>2. \E i \in I : TRUE
    OBVIOUS
  <2> QED BY <2>1, <2>2
<1>2. PICK x \in T : \A y \in T : x <= y
  BY <1>1, LeastNumber
<1>3. PICK i \in I : x = n - i
  BY <1>2
<1>4. \A j \in I : i >= j
  <2> SUFFICES ASSUME NEW j \in I PROVE i >= j
    OBVIOUS
  <2>1. n - j \in T
    OBVIOUS
  <2>2. n - i <= n - j
    BY <1>2, <1>3, <2>1
  <2>3. i \in Int /\ j \in Int /\ n \in Int
    OBVIOUS
  <2> HIDE DEF T
  <2> QED BY <2>2, <2>3
<1> HIDE DEF T
<1> QED BY <1>3, <1>4 DEF Max

LEMMA RecordedAll ==
  ASSUME NEW m \in StoreObject, NEW docs \in Seq([id : Docs, content : Contents])
  PROVE  LET n == recordAll(m, docs)
         IN  /\ n \in StoreObject /\ n.corpus = m.corpus /\ n.docSet = m.docSet /\ n.index = m.index
             /\ n.needsRebuild = m.needsRebuild /\ n.deferIndex = m.deferIndex /\ n.deferGraph = m.deferGraph
             /\ n.edges = m.edges /\ n.graph = m.graph
             /\ Fit(m) => Fit(n)
             /\ m.latest = m.idHash => n.latest = n.idHash
             /\ \A d \in Docs : (\A i \in DOMAIN docs : docs[i].id # d) => n.idHash[d] = m.idHash[d]
             /\ Distinct(docs) => \A i \in DOMAIN docs : n.idHash[docs[i].id] = docs[i].content
             /\ (/\ Distinct(docs) /\ Paired(m)
                 /\ \A i \in DOMAIN docs : m.idHash[docs[i].id] = NULL /\ m.hashes[docs[i].content] = NULL)
                  => Paired(n)
<1> DEFINE n == recordAll(m, docs)
           lastOf(c) == SelectLastInSeq(docs, LAMBDA d : d.content = c)
           new(d) == SelectLastInSeq(docs, LAMBDA e : e.id = d)
           h == [c \in Contents |-> IF lastOf(c) = 0 THEN m.hashes[c] ELSE docs[lastOf(c)].id]
           ih == [d \in Docs |-> IF new(d) = 0 THEN m.idHash[d] ELSE docs[new(d)].content]
           l == [d \in Docs |-> IF new(d) = 0 THEN m.latest[d] ELSE docs[new(d)].content]
<1>1. n = [m EXCEPT !.hashes = h, !.idHash = ih, !.latest = l]
  BY DEF recordAll
<1>2. /\ \A c : IF \E i \in DOMAIN docs : docs[i].content = c THEN lastOf(c) \in DOMAIN docs /\ lastOf(c) # 0 /\ docs[lastOf(c)].content = c
                                                              ELSE lastOf(c) = 0
      /\ \A d : IF \E i \in DOMAIN docs : docs[i].id = d THEN new(d) \in DOMAIN docs /\ new(d) # 0 /\ docs[new(d)].id = d
                                                         ELSE new(d) = 0
  <2>1. ASSUME NEW c
        PROVE  IF \E i \in DOMAIN docs : docs[i].content = c THEN lastOf(c) \in DOMAIN docs /\ lastOf(c) # 0 /\ docs[lastOf(c)].content = c
                                                             ELSE lastOf(c) = 0
    <3> DEFINE I == {i \in 1..Len(docs) : docs[i].content = c}
    <3>1. lastOf(c) = IF I # {} THEN Max(I) ELSE 0
      BY DEF SelectLastInSeq
    <3>2. I \in SUBSET (1..Len(docs)) /\ Len(docs) \in Nat
      OBVIOUS
    <3> HIDE DEF lastOf
    <3>3. I # {} => Max(I) \in I
      <4> HIDE DEF I
      <4> QED BY <3>2, LastOne
    <3> HIDE DEF Max
    <3> QED BY <3>1, <3>3
  <2>2. ASSUME NEW d
        PROVE  IF \E i \in DOMAIN docs : docs[i].id = d THEN new(d) \in DOMAIN docs /\ new(d) # 0 /\ docs[new(d)].id = d
                                                        ELSE new(d) = 0
    <3> DEFINE I == {i \in 1..Len(docs) : docs[i].id = d}
    <3>1. new(d) = IF I # {} THEN Max(I) ELSE 0
      BY DEF SelectLastInSeq
    <3>2. I \in SUBSET (1..Len(docs)) /\ Len(docs) \in Nat
      OBVIOUS
    <3> HIDE DEF new
    <3>3. I # {} => Max(I) \in I
      <4> HIDE DEF I
      <4> QED BY <3>2, LastOne
    <3> HIDE DEF Max
    <3> QED BY <3>1, <3>3
  <2> HIDE DEF lastOf, new
  <2> QED BY <2>1, <2>2
<1>3. \A i \in DOMAIN docs : docs[i].id \in Docs /\ docs[i].content \in Contents
  <2> SUFFICES ASSUME NEW i \in DOMAIN docs PROVE docs[i].id \in Docs /\ docs[i].content \in Contents
    OBVIOUS
  <2>1. i \in 1..Len(docs)
    OBVIOUS
  <2>2. docs[i] \in [id : Docs, content : Contents]
    BY <2>1, ElementOfSeq
  <2> QED BY <2>2
<1>4. /\ m.hashes \in [Contents -> Docs \cup {NULL}] /\ m.idHash \in [Docs -> Contents \cup {NULL}]
      /\ m.latest \in [Docs -> Contents \cup {NULL}]
  BY StoreFields
<1> HIDE DEF lastOf, new
<1>5. h \in [Contents -> Docs \cup {NULL}] /\ ih \in [Docs -> Contents \cup {NULL}] /\ l \in [Docs -> Contents \cup {NULL}]
  BY <1>2, <1>3, <1>4
<1>6. m.latest = m.idHash => l = ih
  OBVIOUS
<1>7. \A d \in Docs : (\A i \in DOMAIN docs : docs[i].id # d) => ih[d] = m.idHash[d]
  BY <1>2
<1>8. Distinct(docs) => \A i \in DOMAIN docs : ih[docs[i].id] = docs[i].content /\ h[docs[i].content] = docs[i].id
  <2> SUFFICES ASSUME Distinct(docs), NEW i \in DOMAIN docs
               PROVE  ih[docs[i].id] = docs[i].content /\ h[docs[i].content] = docs[i].id
    OBVIOUS
  <2>1. new(docs[i].id) = i /\ new(docs[i].id) # 0
    BY <1>2 DEF Distinct
  <2>2. lastOf(docs[i].content) = i /\ lastOf(docs[i].content) # 0
    BY <1>2 DEF Distinct
  <2> QED BY <1>3, <2>1, <2>2
<1>9. ASSUME Distinct(docs), Paired(m), NEW c \in Contents, NEW d \in Docs,
             \A i \in DOMAIN docs : m.idHash[docs[i].id] = NULL /\ m.hashes[docs[i].content] = NULL
      PROVE  h[c] = d <=> ih[d] = c
  <2>1. c # NULL /\ d # NULL
    BY NullAssumption
  <2>2. CASE \E i \in DOMAIN docs : docs[i].id = d
    <3>1. PICK i \in DOMAIN docs : docs[i].id = d
      BY <2>2
    <3>2. ih[d] = docs[i].content
      BY <1>8, <1>9, <3>1
    <3>3. h[c] = d => docs[i].content = c
      <4> SUFFICES ASSUME h[c] = d PROVE docs[i].content = c
        OBVIOUS
      <4>1. CASE lastOf(c) = 0
        <5>1. m.hashes[c] = d
          BY <4>1
        <5>2. m.idHash[d] = c
          BY <1>9, <5>1 DEF Paired
        <5> QED BY <1>9, <2>1, <3>1, <5>2
      <4>2. CASE lastOf(c) # 0
        <5>1. PICK j \in DOMAIN docs : docs[j].content = c
          BY <1>2, <4>2
        <5>2. docs[j].id = d
          BY <1>8, <1>9, <5>1
        <5> QED BY <1>9, <3>1, <5>1, <5>2 DEF Distinct
      <4> QED BY <4>1, <4>2
    <3> HIDE DEF h, ih
    <3> QED BY <1>8, <1>9, <3>1, <3>2, <3>3
  <2>3. CASE ~\E i \in DOMAIN docs : docs[i].id = d
    <3>1. ih[d] = m.idHash[d]
      BY <1>7, <2>3
    <3>2. CASE \E i \in DOMAIN docs : docs[i].content = c
      <4>1. PICK i \in DOMAIN docs : docs[i].content = c
        BY <3>2
      <4>2. h[c] # d
        BY <1>8, <1>9, <2>3, <4>1
      <4>3. m.hashes[c] = NULL
        BY <1>9, <4>1
      <4>4. m.idHash[d] # c
        BY <1>9, <2>1, <4>3 DEF Paired
      <4> QED BY <3>1, <4>2, <4>4
    <3>3. CASE ~\E i \in DOMAIN docs : docs[i].content = c
      <4>1. h[c] = m.hashes[c]
        BY <1>2, <3>3
      <4> HIDE DEF h, ih
      <4> QED BY <1>9, <3>1, <4>1 DEF Paired
    <3> QED BY <3>2, <3>3
  <2> QED BY <2>2, <2>3
<1> HIDE DEF n, h, ih, l
<1>10. n \in StoreObject /\ n.hashes = h /\ n.idHash = ih /\ n.latest = l
  BY <1>1, <1>5 DEF StoreObject
<1>11. /\ n.corpus = m.corpus /\ n.docSet = m.docSet /\ n.index = m.index
       /\ n.needsRebuild = m.needsRebuild /\ n.deferIndex = m.deferIndex /\ n.deferGraph = m.deferGraph
       /\ n.edges = m.edges /\ n.graph = m.graph
  BY <1>1 DEF StoreObject
<1>12. Fit(m) => Fit(n)
  BY <1>11 DEF Fit
<1>13. (/\ Distinct(docs) /\ Paired(m)
        /\ \A i \in DOMAIN docs : m.idHash[docs[i].id] = NULL /\ m.hashes[docs[i].content] = NULL)
         => Paired(n)
  <2> SUFFICES ASSUME Distinct(docs), Paired(m), NEW c \in Contents, NEW d \in Docs,
                      \A i \in DOMAIN docs : m.idHash[docs[i].id] = NULL /\ m.hashes[docs[i].content] = NULL
               PROVE  n.hashes[c] = d <=> n.idHash[d] = c
    BY DEF Paired
  <2>1. h[c] = d <=> ih[d] = c
    BY <1>9
  <2> QED BY <1>10, <2>1
<1>14. /\ m.latest = m.idHash => n.latest = n.idHash
       /\ \A d \in Docs : (\A i \in DOMAIN docs : docs[i].id # d) => n.idHash[d] = m.idHash[d]
       /\ Distinct(docs) => \A i \in DOMAIN docs : n.idHash[docs[i].id] = docs[i].content
  BY <1>6, <1>7, <1>8, <1>10
<1> QED BY <1>10, <1>11, <1>12, <1>13, <1>14 DEF n

LEMMA Emptied ==
  /\ EmptyStore \in StoreObject /\ Fit(EmptyStore) /\ Settled(EmptyStore) /\ Paired(EmptyStore)
  /\ EmptyStore.corpus = <<>> /\ EmptyStore.idHash = [d \in Docs |-> NULL] /\ EmptyStore.latest = EmptyStore.idHash
  /\ \A d : Own(EmptyStore.corpus, d) = {}
<1> DEFINE h == [c \in Contents |-> NULL]
           ih == [d \in Docs |-> NULL]
<1>1. /\ <<>> \in Seq(Element) /\ <<>> \in Seq(Chunk) /\ h \in [Contents -> Docs \cup {NULL}]
      /\ ih \in [Docs -> Contents \cup {NULL}] /\ {} \in SUBSET Docs /\ FALSE \in BOOLEAN
  OBVIOUS
<1>2. \A c \in Contents, d \in Docs : h[c] # d /\ ih[d] # c
  BY NullAssumption
<1>3. EmptyStore = [corpus |-> <<>>, docSet |-> {}, hashes |-> h, idHash |-> ih, latest |-> ih,
                    index |-> NULL, needsRebuild |-> FALSE, deferIndex |-> FALSE, deferGraph |-> FALSE,
                    savedLinks |-> NULL, flat |-> NULL, edges |-> <<>>, graph |-> NULL]
  BY DEF EmptyStore
<1> HIDE DEF h, ih
<1>4. EmptyStore \in StoreObject
  BY <1>1, <1>3 DEF StoreObject
<1>5. /\ EmptyStore.corpus = <<>> /\ EmptyStore.docSet = {} /\ EmptyStore.hashes = h /\ EmptyStore.idHash = ih
      /\ EmptyStore.latest = ih /\ EmptyStore.index = NULL /\ ~EmptyStore.deferIndex /\ ~EmptyStore.deferGraph
      /\ EmptyStore.edges = <<>> /\ ~EmptyStore.needsRebuild
  BY <1>3
<1>6. \A d : Own(EmptyStore.corpus, d) = {}
  BY <1>5 DEF Own
<1>7. ChunksOf(<<>>) = <<>> /\ Len(<<>>) <= Len(<<>>) /\ DOMAIN <<>> = {}
  BY DEF ChunksOf
<1>8. Fit(EmptyStore) /\ Settled(EmptyStore)
  BY <1>5, <1>6, <1>7 DEF Fit, Settled
<1> QED BY <1>2, <1>4, <1>5, <1>6, <1>8 DEF Paired, h, ih

LEMMA Blanked ==
  ASSUME NEW m \in StoreObject
  PROVE  LET n == Blank(m)
         IN  /\ n \in StoreObject /\ n.corpus = <<>> /\ n.index # NULL
             /\ n.idHash = [d \in Docs |-> NULL] /\ n.hashes = [c \in Contents |-> NULL] /\ n.latest = n.idHash
             /\ n.deferIndex = m.deferIndex /\ n.deferGraph = m.deferGraph
             /\ Paired(n)
             /\ Fit(m) => Fit(n)
<1> DEFINE n == Blank(m)
           q == initIndexes(m)
           h == EmptyStore.hashes
           ih == EmptyStore.idHash
           l == EmptyStore.latest
<1>1. /\ <<>> \in Seq(Element) /\ <<>> \in Seq(Chunk) /\ {} \in SUBSET Docs
      /\ h \in [Contents -> Docs \cup {NULL}] /\ ih \in [Docs -> Contents \cup {NULL}]
      /\ l \in [Docs -> Contents \cup {NULL}]
      /\ h = [c \in Contents |-> NULL] /\ ih = [d \in Docs |-> NULL] /\ l = ih
  BY Emptied, StoreFields DEF EmptyStore
<1>2. q \in StoreObject /\ q.index = <<>> /\ q.index # NULL /\ SameRest(m, q)
  BY Initialised
<1>3. n = [q EXCEPT !.corpus = <<>>, !.edges = <<>>, !.docSet = {}, !.hashes = h, !.idHash = ih, !.latest = l]
  BY DEF Blank
<1> HIDE DEF n, q, h, ih, l
<1>4. n \in StoreObject
  BY ZenonT(30), <1>1, <1>2, <1>3 DEF StoreObject
<1>5. /\ n.corpus = <<>> /\ n.index = <<>> /\ n.index # NULL /\ n.docSet = {} /\ n.edges = <<>>
      /\ n.hashes = h /\ n.idHash = ih /\ n.latest = l
      /\ n.deferIndex = m.deferIndex /\ n.deferGraph = m.deferGraph
  BY <1>2, <1>3 DEF StoreObject, SameRest
<1>6. Paired(n)
  BY <1>1, <1>5, NullAssumption DEF Paired
<1>7. /\ \A d : Own(n.corpus, d) = {} /\ ChunksOf(n.index) = ChunksOf(n.corpus)
      /\ Len(n.edges) <= Len(n.corpus) /\ DOMAIN n.edges = {}
  BY <1>5 DEF Own
<1>8. Fit(m) => Fit(n)
  BY <1>5, <1>7 DEF Fit
<1> QED BY <1>1, <1>4, <1>5, <1>6, <1>8 DEF n

\* The store that Load makes of a snapshot.
LEMMA LoadedStore ==
  ASSUME NEW s \in Snapshot, NEW owners \in Owners(s)
  PROVE  LET n == Loaded(s, owners)
         IN  /\ n \in StoreObject /\ Fit(n) /\ Settled(n)
             /\ s.corpus = <<>> => n = EmptyStore
             /\ s.corpus # <<>> => n.idHash = s.idHash /\ n.latest = s.latest /\ n.deferIndex
             /\ ChunksOf(n.corpus) = ChunksOf(s.corpus)
             /\ (\A d, e \in Docs : s.idHash[d] # NULL /\ s.idHash[d] = s.idHash[e] => d = e) => Paired(n)
<1> DEFINE n == Loaded(s, owners)
           c == s.corpus
           lc == LoadedCorpus(s)
           ds == {e.doc : e \in ToSet(c)}
           f == IF s.mode = "exact" THEN [i \in DOMAIN c |-> c[i].vec] ELSE NULL
<1>1. /\ c \in Seq(Element) /\ s.idHash \in [Docs -> Contents \cup {NULL}] /\ s.latest \in [Docs -> Contents \cup {NULL}]
      /\ s.links \in Seq(Texts) \cup {NULL}
  BY DEF Snapshot
<1>2. owners \in [Contents -> Docs \cup {NULL}]
      /\ \A x \in Contents : IF {d \in Docs : s.idHash[d] = x} = {} THEN owners[x] = NULL
                                                                   ELSE owners[x] \in {d \in Docs : s.idHash[d] = x}
  BY DEF Owners
<1>3. DOMAIN c = 1..Len(c) /\ Len(c) \in Nat /\ \A i \in DOMAIN c : c[i] \in Element
  <2>1. DOMAIN c = 1..Len(c) /\ Len(c) \in Nat
    BY <1>1
  <2> QED BY <1>1, <2>1, ElementOfSeq
<1>4. /\ lc \in Seq(Element) /\ DOMAIN lc = DOMAIN c
      /\ \A i \in DOMAIN c : ChunkOf(lc[i]) = ChunkOf(c[i]) /\ lc[i].doc = c[i].doc
  <2>1. lc = [i \in DOMAIN c |-> [c[i] EXCEPT !.vec = IF s.mode = "none" THEN c[i].text ELSE c[i].vec]]
    BY DEF LoadedCorpus
  <2>2. ASSUME NEW i \in DOMAIN c
        PROVE  LET e == [c[i] EXCEPT !.vec = IF s.mode = "none" THEN c[i].text ELSE c[i].vec]
               IN  e \in Element /\ ChunkOf(e) = ChunkOf(c[i]) /\ e.doc = c[i].doc
    <3> DEFINE x == c[i]
    <3>1. x \in Element
      BY <1>3
    <3> HIDE DEF x
    <3>2. LET e == [x EXCEPT !.vec = IF s.mode = "none" THEN x.text ELSE x.vec]
          IN  e \in Element /\ ChunkOf(e) = ChunkOf(x) /\ e.doc = x.doc
      BY <3>1 DEF Element, ChunkOf
    <3> QED BY <3>2 DEF x
  <2> HIDE DEF lc
  <2>3. \A i \in DOMAIN c : lc[i] \in Element /\ ChunkOf(lc[i]) = ChunkOf(c[i]) /\ lc[i].doc = c[i].doc
    BY <2>1, <2>2
  <2>4. DOMAIN lc = DOMAIN c /\ lc = [i \in 1..Len(c) |-> lc[i]]
    BY <1>3, <2>1
  <2>5. lc \in Seq(Element)
    BY <1>3, <2>3, <2>4
  <2> QED BY <2>3, <2>4, <2>5
<1>5. ChunksOf(lc) = ChunksOf(c)
  BY <1>4 DEF ChunksOf
<1>6. ds \in SUBSET Docs /\ \A d : d \in ds <=> Own(lc, d) # {}
  <2>1. \A i \in DOMAIN c : c[i].doc \in Docs
    BY <1>3 DEF Element
  <2>2. ds = {c[i].doc : i \in DOMAIN c}
    BY DEF ToSet
  <2> HIDE DEF ds, lc, c
  <2> QED BY <1>4, <2>1, <2>2 DEF Own
<1>7. f \in Seq(Texts) \cup {NULL}
  <2>1. CASE s.mode = "exact"
    <3>1. f = [i \in 1..Len(c) |-> c[i].vec]
      BY <1>3, <2>1
    <3>2. \A i \in 1..Len(c) : c[i].vec \in Texts
      BY <1>3 DEF Element
    <3> HIDE DEF f, c
    <3> QED BY <1>3, <3>1, <3>2
  <2>2. CASE s.mode # "exact"
    BY <2>2
  <2> QED BY <2>1, <2>2
<1>8. CASE c = <<>>
  <2>1. n = EmptyStore
    BY <1>8 DEF Loaded
  <2>2. ChunksOf(n.corpus) = ChunksOf(c)
    BY <1>8, <2>1, Emptied
  <2> QED BY <1>8, <2>1, <2>2, Emptied
<1>9. CASE c # <<>>
  <2>1. n = [EmptyStore EXCEPT
          !.corpus = lc, !.docSet = ds, !.hashes = owners, !.idHash = s.idHash, !.latest = s.latest,
          !.index = <<>>, !.deferIndex = TRUE, !.deferGraph = TRUE, !.savedLinks = s.links, !.flat = f]
    BY <1>9 DEF Loaded
  <2>2. <<>> \in Seq(Entry) /\ TRUE \in BOOLEAN /\ <<>> # NULL
    <3>1. <<>> \in Seq(Entry)
      OBVIOUS
    <3> QED BY <3>1, NullAssumption
  <2> HIDE DEF n, lc, ds, f
  <2>3. n \in StoreObject
    BY <1>1, <1>2, <1>4, <1>6, <1>7, <2>1, <2>2, Emptied DEF StoreObject
  <2>4. /\ n.corpus = lc /\ n.docSet = ds /\ n.hashes = owners /\ n.idHash = s.idHash /\ n.latest = s.latest
        /\ n.index = <<>> /\ n.deferIndex /\ n.deferGraph
    BY <2>1, Emptied DEF StoreObject
  <2>5. Fit(n) /\ Settled(n)
    BY <1>6, <2>2, <2>4 DEF Fit, Settled
  <2>6. (\A d, e \in Docs : s.idHash[d] # NULL /\ s.idHash[d] = s.idHash[e] => d = e) => Paired(n)
    <3> SUFFICES ASSUME \A d, e \in Docs : s.idHash[d] # NULL /\ s.idHash[d] = s.idHash[e] => d = e,
                        NEW x \in Contents, NEW d \in Docs
                 PROVE  owners[x] = d <=> s.idHash[d] = x
      BY <2>4 DEF Paired
    <3>1. x # NULL /\ d # NULL
      BY NullAssumption
    <3> QED BY <1>2, <3>1
  <2> QED BY <1>5, <1>9, <2>3, <2>4, <2>5, <2>6 DEF n
<1> QED BY <1>8, <1>9

LEMMA PreparedType ==
  ASSUME store \in StoreObject, NEW d \in [id : Docs, content : Contents]
  PROVE  /\ Prepared(d) \in Prep /\ Prepared(d).id = d.id /\ Prepared(d).content = d.content
         /\ Embeds(store.corpus) => Prepared(d).vecs = Pieces[d.content]
<1> DEFINE t == Pieces[d.content]
           k(x) == docEmbeddings(d.id, x)
           v == [i \in DOMAIN t |-> IF k(t[i]) = 0 THEN t[i] ELSE store.corpus[k(t[i])].vec]
<1>1. Prepared(d) = [id |-> d.id, content |-> d.content, vecs |-> v]
  BY DEF Prepared
<1>2. store.corpus \in Seq(Element) /\ Len(store.corpus) \in Nat
  BY StoreFields
<1>3. ASSUME NEW x PROVE k(x) # 0 => k(x) \in 1..Len(store.corpus) /\ store.corpus[k(x)].text = x
  <2> DEFINE I == {i \in 1..Len(store.corpus) : store.corpus[i].doc = d.id /\ store.corpus[i].text = x}
  <2>1. k(x) = IF I # {} THEN Max(I) ELSE 0
    BY DEF docEmbeddings, SelectLastInSeq
  <2>2. I \in SUBSET (1..Len(store.corpus)) /\ \A i \in I : store.corpus[i].text = x
    OBVIOUS
  <2> HIDE DEF k, I
  <2>3. I # {} => Max(I) \in I
    BY <1>2, <2>2, LastOne
  <2> DEFINE j == Max(I)
  <2> HIDE DEF j
  <2>4. k(x) # 0 => k(x) = j /\ j \in I
    BY <2>1, <2>3 DEF j
  <2> QED BY <2>2, <2>4
<1>4. t \in Seq(Texts) /\ Len(t) \in Nat /\ DOMAIN t = 1..Len(t) /\ \A i \in DOMAIN t : t[i] \in Texts
  BY PiecesType
<1> HIDE DEF k, t
<1>5. \A i \in DOMAIN t : v[i] \in Texts
  <2> SUFFICES ASSUME NEW i \in DOMAIN t, k(t[i]) # 0 PROVE store.corpus[k(t[i])].vec \in Texts
    BY <1>4
  <2>1. store.corpus[k(t[i])] \in Element
    BY <1>2, <1>3, ElementOfSeq
  <2> QED BY <2>1 DEF Element
<1>6. v = [i \in 1..Len(t) |-> v[i]]
  BY <1>4
<1> HIDE DEF v
<1>7. v \in Seq(Texts) /\ Len(v) = Len(t)
  BY <1>4, <1>5, <1>6
<1>8. ASSUME Embeds(store.corpus) PROVE v = t
  <2>1. \A i \in DOMAIN t : v[i] = t[i]
    BY <1>2, <1>3, <1>8 DEF Embeds, v
  <2> QED BY <1>4, <1>7, <2>1
<1> QED BY <1>1, <1>7, <1>8 DEF Prep, t

LEMMA SavedType ==
  ASSUME store \in StoreObject, store.index # NULL, NEW mode \in {"exact", "codes", "none"}
  PROVE  [corpus |-> store.corpus, idHash |-> store.idHash, latest |-> store.latest,
          links |-> hnswSnapshot, mode |-> mode] \in Snapshot
<1>1. /\ store.index \in Seq(Entry) /\ Len(store.index) \in Nat /\ DOMAIN store.index = 1..Len(store.index)
      /\ store.savedLinks # NULL => store.savedLinks \in Seq(Texts)
  BY StoreFields
<1> DEFINE x == store.index
           l == [i \in DOMAIN x |-> x[i].link]
<1>2. l \in Seq(Texts)
  <2>1. l = [i \in 1..Len(x) |-> l[i]]
    BY <1>1
  <2>2. ASSUME NEW i \in 1..Len(x) PROVE l[i] \in Texts
    <3>1. x[i] \in Entry
      BY <1>1, ElementOfSeq
    <3>2. l[i] = x[i].link
      BY <1>1
    <3> QED BY <3>1, <3>2 DEF Entry
  <2> HIDE DEF l, x
  <2> QED BY <1>1, <2>1, <2>2 DEF x
<1>3. hnswSnapshot \in {l, store.savedLinks, NULL}
  BY DEF hnswSnapshot
<1> HIDE DEF l
<1>4. hnswSnapshot \in Seq(Texts) \cup {NULL}
  BY <1>1, <1>2, <1>3
<1> QED BY <1>4, StoreFields DEF Snapshot

-----------------------------------------------------------------------------
(* The inductive invariant that needs no assumption about the program.      *)

Labels == {"idle", "preparing", "applying", "ingesting", "merging", "recording", "reindexing",
           "searching", "boosting"}

Fits(t) == t \in Task /\ \A i \in DOMAIN t.preps : Len(t.preps[i].vecs) = Len(Pieces[t.preps[i].content])

\* A client is only in a call that the program makes.
InCall ==
  \A c \in Clients :
    /\ pc[c] \in {"merging", "recording", "reindexing"} => "merge" \in use.calls
    /\ pc[c] = "ingesting" => "ingest" \in use.calls
    /\ pc[c] = "searching" => "retrieve" \in use.calls
    /\ pc[c] = "boosting" => "graph" \in use.calls

\* Where one call is made at a time, one client is in a call.
OneAtATime == use.atOnce = 1 => \A b, c \in Clients : pc[b] # "idle" /\ pc[c] # "idle" => b = c

\* What a query has built stays built until it has searched.
Built ==
  \A c \in Clients :
    /\ pc[c] \in {"searching", "boosting"} => ~store.deferIndex
    /\ pc[c] = "boosting" => ~store.deferGraph

\* No call is between a change of the arrays and its reindexLocked.
Quiet == writer = NULL /\ \A c \in Clients : pc[c] \notin {"ingesting", "recording", "reindexing"}

Shape ==
  /\ TypeOK
  /\ Fit(store)
  /\ InCall
  /\ OneAtATime
  /\ Built
  /\ Quiet => Settled(store)

\* Client c goes to l with task t, and what else it does keeps the shape.
LEMMA Step ==
  ASSUME Shape, use' = use, NEW c \in Clients, NEW l \in Labels, NEW t,
         pc' = [pc EXCEPT ![c] = l], task' = [task EXCEPT ![c] = t],
         Fits(t), l = "idle" => t = NoTask,
         store' \in StoreObject, Fit(store)', disk' = disk, writer' \in Clients \cup {NULL},
         \A b \in Clients : b # c => (writer = b <=> writer' = b),
         l = "applying" <=> writer' = c,
         store'.deferIndex => store.deferIndex, store'.deferGraph => store.deferGraph,
         l \in {"merging", "recording", "reindexing"} => "merge" \in use.calls,
         l = "ingesting" => "ingest" \in use.calls,
         l = "searching" => "retrieve" \in use.calls /\ ~store'.deferIndex,
         l = "boosting" => "graph" \in use.calls /\ ~store'.deferIndex /\ ~store'.deferGraph,
         l # "idle" /\ pc[c] = "idle" /\ use.atOnce = 1 => \A b \in Clients : pc[b] = "idle",
         Quiet' => Settled(store')
  PROVE  Shape'
<1>1. /\ use \in Uses /\ disk \in Snapshot \cup {NULL}
      /\ pc \in [Clients -> Labels] /\ task \in [Clients -> Task]
      /\ \A b \in Clients : Fits(task[b])
      /\ \A b \in Clients : pc[b] = "applying" <=> writer = b
      /\ \A b \in Clients : pc[b] = "idle" => task[b] = NoTask
  BY DEF Shape, TypeOK, Fits, Labels
<1>2. /\ \A b \in Clients : pc'[b] = IF b = c THEN l ELSE pc[b]
      /\ \A b \in Clients : task'[b] = IF b = c THEN t ELSE task[b]
  BY <1>1
<1>3. pc' \in [Clients -> Labels] /\ task' \in [Clients -> Task]
  BY <1>1 DEF Fits
<1>4. \A b \in Clients : Fits(task'[b])
  BY <1>1, <1>2
<1>5. TypeOK'
  <2>1. \A b \in Clients : pc'[b] = "applying" <=> writer' = b
    BY <1>1, <1>2
  <2>2. \A b \in Clients : pc'[b] = "idle" => task'[b] = NoTask
    BY <1>1, <1>2
  <2>3. \A b \in Clients : \A i \in DOMAIN task'[b].preps :
          Len(task'[b].preps[i].vecs) = Len(Pieces[task'[b].preps[i].content])
    BY <1>4 DEF Fits
  <2> QED BY <1>1, <1>3, <2>1, <2>2, <2>3 DEF TypeOK, Labels
<1>6. InCall'
  BY <1>2 DEF Shape, InCall
<1>7. OneAtATime'
  BY <1>2 DEF Shape, OneAtATime
<1>8. Built'
  BY <1>2 DEF Shape, Built
<1> QED BY <1>5, <1>6, <1>7, <1>8 DEF Shape

\* When a call is made in a program that makes one at a time, no client is in a call.
LEMMA AloneInCall ==
  ASSUME TypeOK, NEW c \in Clients, NEW call, Idle(c, call)
  PROVE  /\ pc[c] = "idle" /\ writer = NULL /\ call \in use.calls /\ task[c] = NoTask
         /\ use.atOnce = 1 => \A b \in Clients : pc[b] = "idle"
<1> DEFINE B == {b \in Clients : pc[b] # "idle"}
<1>1. pc[c] = "idle" /\ writer = NULL /\ call \in use.calls /\ Cardinality(B) < use.atOnce
  BY DEF Idle
<1>2. IsFiniteSet(B)
  BY ClientsAssumption, FS_Subset
<1>3. Cardinality(B) \in Nat /\ (Cardinality(B) = 0 <=> B = {})
  BY <1>2, FS_CardinalityType, FS_EmptySet
<1> HIDE DEF B
<1>4. use.atOnce = 1 => B = {}
  BY <1>1, <1>3
<1> QED BY <1>1, <1>4 DEF B, TypeOK

\* A task is well formed when its documents are prepared with a vector per chunk.
LEMMA FitsTask ==
  ASSUME NEW t
  PROVE  Fits(t) <=> t \in [todo : Seq(Document), preps : Seq(Prep), changed : BOOLEAN]
<1> DEFINE R == [id : Docs, content : Contents, vecs : Seq(Texts)]
<1>1. ASSUME NEW s PROVE s \in Seq(Prep) <=> s \in Seq(R) /\ \A i \in DOMAIN s : Len(s[i].vecs) = Len(Pieces[s[i].content])
  <2>1. ASSUME s \in Seq(Prep) PROVE s \in Seq(R) /\ \A i \in DOMAIN s : Len(s[i].vecs) = Len(Pieces[s[i].content])
    <3>1. Len(s) \in Nat /\ DOMAIN s = 1..Len(s) /\ s = [i \in 1..Len(s) |-> s[i]]
      BY <2>1
    <3>2. \A i \in 1..Len(s) : s[i] \in Prep
      BY <2>1
    <3>3. \A i \in 1..Len(s) : s[i] \in R /\ Len(s[i].vecs) = Len(Pieces[s[i].content])
      BY <3>2 DEF Prep
    <3> HIDE DEF R
    <3> QED BY <3>1, <3>3
  <2>2. ASSUME s \in Seq(R), \A i \in DOMAIN s : Len(s[i].vecs) = Len(Pieces[s[i].content]) PROVE s \in Seq(Prep)
    <3> HIDE DEF R
    <3>1. Len(s) \in Nat /\ DOMAIN s = 1..Len(s) /\ s = [i \in 1..Len(s) |-> s[i]]
      BY <2>2
    <3>2. \A i \in 1..Len(s) : s[i] \in R
      BY <2>2
    <3>3. \A i \in 1..Len(s) : s[i] \in Prep
      BY <2>2, <3>1, <3>2 DEF Prep, R
    <3> QED BY <3>1, <3>3
  <2> QED BY <2>1, <2>2
<1> HIDE DEF R
<1>2. ASSUME Fits(t) PROVE t \in [todo : Seq(Document), preps : Seq(Prep), changed : BOOLEAN]
  <2>1. t \in [todo : Seq(Document), preps : Seq(R), changed : BOOLEAN]
    BY <1>2 DEF Fits, Task, R, Document
  <2>2. t.preps \in Seq(Prep)
    BY <1>1, <1>2, <2>1 DEF Fits
  <2> QED BY <2>1, <2>2
<1>3. ASSUME t \in [todo : Seq(Document), preps : Seq(Prep), changed : BOOLEAN] PROVE Fits(t)
  <2>1. t.preps \in Seq(R) /\ \A i \in DOMAIN t.preps : Len(t.preps[i].vecs) = Len(Pieces[t.preps[i].content])
    BY <1>1, <1>3
  <2>2. t \in Task
    BY <1>3, <2>1 DEF Task, Document, R
  <2> QED BY <2>1, <2>2 DEF Fits
<1> QED BY <1>2, <1>3

LEMMA NoTaskFits == Fits(NoTask)
<1>1. <<>> \in Seq(Document) /\ <<>> \in Seq(Prep) /\ FALSE \in BOOLEAN
  OBVIOUS
<1>2. NoTask \in [todo : Seq(Document), preps : Seq(Prep), changed : BOOLEAN]
  BY <1>1 DEF NoTask
<1> QED BY <1>2, FitsTask

LEMMA BatchType ==
  ASSUME use \in Uses, NEW b \in Batches
  PROVE  b \in Seq(Document) /\ \A i \in DOMAIN b : b[i].content \in use.contents
<1> DEFINE D == [id : Docs, content : use.contents]
<1>1. use.contents \in SUBSET Contents
  BY UsesAssumption DEF Use
<1>2. PICK n \in Nat : b \in [1..n -> D]
  BY DEF Batches, BoundedSeq, SeqOf
<1>3. \A i \in 1..n : b[i] \in D
  BY <1>2
<1>4. \A i \in 1..n : b[i] \in Document /\ b[i].content \in use.contents
  BY <1>1, <1>3 DEF Document
<1> HIDE DEF D
<1> QED BY <1>2, <1>4

\* A document less to prepare, and one prepared document more or less.
LEMMA TaskSteps ==
  ASSUME NEW t, Fits(t)
  PROVE  /\ \A x \in Seq(Document) : Fits([t EXCEPT !.todo = x])
         /\ t.todo # <<>> => Head(t.todo) \in Document /\ Fits([t EXCEPT !.todo = Tail(@)])
         /\ t.todo # <<>> => \A p \in Prep : Fits([t EXCEPT !.todo = Tail(@), !.preps = Append(@, p)])
         /\ \A i \in DOMAIN t.preps : t.preps[i] \in Prep /\ Fits([t EXCEPT !.preps = RemoveAt(@, i)])
         /\ t.preps # <<>> => /\ Head(t.preps) \in Prep
                              /\ \A b \in BOOLEAN : Fits([t EXCEPT !.preps = Tail(@), !.changed = b])
<1> DEFINE R == [todo : Seq(Document), preps : Seq(Prep), changed : BOOLEAN]
<1>1. t \in R /\ \A u : u \in R => Fits(u)
  BY FitsTask
<1>2. t.todo \in Seq(Document) /\ t.preps \in Seq(Prep) /\ t.changed \in BOOLEAN
  BY <1>1
<1>3. /\ \A x \in Seq(Document) : [t EXCEPT !.todo = x] \in R
      /\ \A x \in Seq(Document), y \in Seq(Prep) : [t EXCEPT !.todo = x, !.preps = y] \in R
      /\ \A y \in Seq(Prep) : [t EXCEPT !.preps = y] \in R
      /\ \A y \in Seq(Prep), b \in BOOLEAN : [t EXCEPT !.preps = y, !.changed = b] \in R
  BY <1>1
<1> HIDE DEF R
<1>4. ASSUME t.todo # <<>> PROVE Head(t.todo) \in Document /\ Tail(t.todo) \in Seq(Document)
  <2> DEFINE q == t.todo
  <2>1. q \in Seq(Document) /\ q # <<>>
    BY <1>2, <1>4
  <2> HIDE DEF q
  <2> QED BY <2>1, HeadTailProperties DEF q
<1>5. ASSUME t.preps # <<>> PROVE Head(t.preps) \in Prep /\ Tail(t.preps) \in Seq(Prep)
  <2> DEFINE q == t.preps
  <2>1. q \in Seq(Prep) /\ q # <<>>
    BY <1>2, <1>5
  <2> HIDE DEF q
  <2> QED BY <2>1, HeadTailProperties DEF q
<1>6. ASSUME NEW i \in DOMAIN t.preps PROVE t.preps[i] \in Prep /\ RemoveAt(t.preps, i) \in Seq(Prep)
  <2> DEFINE q == t.preps
  <2>1. q \in Seq(Prep) /\ i \in 1..Len(q) /\ Len(q) \in Nat
    BY <1>2
  <2> HIDE DEF q
  <2>2. SubSeq(q, 1, i - 1) \in Seq(Prep) /\ SubSeq(q, i + 1, Len(q)) \in Seq(Prep)
    BY <2>1, SubSeqProperties
  <2>3. q[i] \in Prep
    BY <2>1, ElementOfSeq
  <2> QED BY <2>2, <2>3 DEF RemoveAt, q
<1>7. \A p \in Prep : Append(t.preps, p) \in Seq(Prep)
  BY <1>2
<1> QED BY <1>1, <1>3, <1>4, <1>5, <1>6, <1>7

LEMMA ShapeInit == Init => Shape
<1> SUFFICES ASSUME Init PROVE Shape
  OBVIOUS
<1>1. /\ use \in Uses /\ store = EmptyStore /\ disk = NULL /\ writer = NULL
      /\ pc = [c \in Clients |-> "idle"] /\ task = [c \in Clients |-> NoTask]
  BY DEF Init
<1>2. \A c \in Clients : pc[c] = "idle" /\ task[c] = NoTask /\ Fits(task[c]) /\ writer # c
  BY <1>1, NoTaskFits, NullAssumption
<1>3. pc \in [Clients -> Labels] /\ task \in [Clients -> Task]
  BY <1>1, NoTaskFits DEF Labels, Fits
<1>4. TypeOK
  BY <1>1, <1>2, <1>3, Emptied DEF TypeOK, Labels, Fits
<1> QED BY <1>1, <1>2, <1>4, Emptied DEF Shape, InCall, OneAtATime, Built

LEMMA ShapeAdd ==
  ASSUME Shape, use' = use, NEW c \in Clients
  PROVE  /\ \A batch \in Batches : AddStart(c, batch) => Shape'
         /\ AddPrepare(c) \/ AddFails(c) \/ AddLock(c) \/ AddApply(c) \/ AddUnlock(c) => Shape'
<1>1. /\ TypeOK /\ Fit(store) /\ store \in StoreObject /\ Fits(task[c]) /\ task \in [Clients -> Task]
      /\ pc \in [Clients -> Labels] /\ writer \in Clients \cup {NULL} /\ use \in Uses
      /\ \A b \in Clients : pc[b] = "applying" <=> writer = b
      /\ NULL \notin Clients
  BY NullAssumption DEF Shape, TypeOK, Fits, Labels
<1>2. ASSUME NEW batch \in Batches, AddStart(c, batch) PROVE Shape'
  <2>1. /\ pc[c] = "idle" /\ writer = NULL /\ task[c] = NoTask
        /\ use.atOnce = 1 => \A b \in Clients : pc[b] = "idle"
    BY <1>1, <1>2, AloneInCall DEF AddStart
  <2>2. PICK kept \in SUBSET DOMAIN batch :
          IF kept = {} THEN UNCHANGED <<pc, task>>
          ELSE Goto(c, "preparing") /\ task' = [task EXCEPT ![c].todo = Compacted(batch, kept)]
    BY <1>2 DEF AddStart
  <2>3. UNCHANGED <<store, disk, writer>>
    BY <1>2 DEF AddStart
  <2>4. Compacted(batch, kept) \in Seq(Document)
    BY <1>1, BatchType, Compacts
  <2>5. CASE kept = {}
    <3>1. pc' = [pc EXCEPT ![c] = "idle"] /\ task' = [task EXCEPT ![c] = NoTask] /\ pc' = pc
      BY <1>1, <2>1, <2>2, <2>5
    <3>2. Quiet' => Settled(store')
      BY <2>3, <3>1 DEF Quiet, Shape
    <3> QED BY <1>1, <2>1, <2>3, <3>1, <3>2, NoTaskFits, Step DEF Labels
  <2>6. CASE kept # {}
    <3> DEFINE t == [task[c] EXCEPT !.todo = Compacted(batch, kept)]
    <3>1. pc' = [pc EXCEPT ![c] = "preparing"] /\ task' = [task EXCEPT ![c] = t]
      BY <2>2, <2>6 DEF Goto
    <3>2. Fits(t)
      BY <1>1, <2>4, TaskSteps
    <3>3. Quiet' => Settled(store')
      BY <1>1, <2>1, <2>3, <3>1 DEF Quiet, Shape
    <3> HIDE DEF t
    <3> QED BY <1>1, <2>1, <2>3, <3>1, <3>2, <3>3, Step DEF Labels
  <2> QED BY <2>5, <2>6
<1>3. ASSUME AddPrepare(c) PROVE Shape'
  <2> DEFINE p == Prepared(Head(task[c].todo))
             t == IF p.vecs = <<>> THEN [task[c] EXCEPT !.todo = Tail(@)]
                                   ELSE [task[c] EXCEPT !.todo = Tail(@), !.preps = Append(@, p)]
  <2>1. pc[c] = "preparing" /\ writer = NULL /\ task[c].todo # <<>> /\ UNCHANGED <<store, disk, writer, pc>>
    BY <1>3 DEF AddPrepare
  <2>2. p \in Prep
    BY <1>1, <2>1, TaskSteps, PreparedType DEF Document
  <2>3. task' = [task EXCEPT ![c].todo = Tail(@), ![c].preps = IF p.vecs = <<>> THEN @ ELSE Append(@, p)]
    BY <1>3 DEF AddPrepare
  <2> HIDE DEF p
  <2>4. task' = [task EXCEPT ![c] = t]
    BY <1>1, <2>3 DEF Task
  <2>5. Fits(t)
    BY <1>1, <2>1, <2>2, TaskSteps
  <2>6. pc' = [pc EXCEPT ![c] = "preparing"]
    BY <1>1, <2>1
  <2>7. Quiet' => Settled(store')
    BY <2>1 DEF Quiet, Shape
  <2> HIDE DEF t
  <2> QED BY <1>1, <2>1, <2>4, <2>5, <2>6, <2>7, Step DEF Labels
<1>4. ASSUME AddFails(c) PROVE Shape'
  <2>1. /\ pc[c] = "preparing" /\ UNCHANGED <<store, disk, writer>>
        /\ pc' = [pc EXCEPT ![c] = "idle"] /\ task' = [task EXCEPT ![c] = NoTask]
    BY <1>4 DEF AddFails, Return, Goto
  <2>2. Quiet' => Settled(store')
    BY <1>1, <2>1 DEF Quiet, Shape
  <2> QED BY <1>1, <2>1, <2>2, NoTaskFits, Step DEF Labels
<1>5. ASSUME AddLock(c) PROVE Shape'
  <2>1. pc[c] = "preparing" /\ writer = NULL /\ disk' = disk
    BY <1>5 DEF AddLock
  <2>2. CASE task[c].preps = <<>>
    <3>1. /\ UNCHANGED <<store, writer>>
          /\ pc' = [pc EXCEPT ![c] = "idle"] /\ task' = [task EXCEPT ![c] = NoTask]
      BY <1>5, <2>2 DEF AddLock, Return, Goto
    <3>2. Quiet' => Settled(store')
      BY <1>1, <2>1, <3>1 DEF Quiet, Shape
    <3> QED BY <1>1, <2>1, <3>1, <3>2, NoTaskFits, Step DEF Labels
  <2>3. CASE task[c].preps # <<>>
    <3>1. /\ store' = ensureSearchLocked(store) /\ writer' = c
          /\ pc' = [pc EXCEPT ![c] = "applying"] /\ task' = task
      BY <1>5, <2>3 DEF AddLock, Goto
    <3>2. task' = [task EXCEPT ![c] = task[c]]
      BY <1>1, <3>1
    <3>3. store' \in StoreObject /\ Fit(store') /\ ~store'.deferIndex /\ store'.deferGraph = store.deferGraph
      BY <1>1, <3>1, EnsureSearch
    <3>4. ~Quiet'
      BY <1>1, <3>1 DEF Quiet
    <3>5. \A b \in Clients : b # c => (writer = b <=> writer' = b)
      BY <1>1, <2>1, <3>1
    <3>6. writer' = c /\ pc' = [pc EXCEPT ![c] = "applying"] /\ Fits(task[c]) /\ Fit(store)'
      BY <1>1, <3>1, <3>3
    <3> QED BY <2>1, <3>2, <3>3, <3>4, <3>5, <3>6, Step DEF Labels
  <2> QED BY <2>2, <2>3
<1>6. ASSUME AddApply(c) PROVE Shape'
  <2> DEFINE p == Head(task[c].preps)
             b == task[c].changed \/ ~Rejected(store, p)
             t == [task[c] EXCEPT !.preps = Tail(@), !.changed = b]
  <2>1. /\ pc[c] = "applying" /\ task[c].preps # <<>> /\ UNCHANGED <<disk, writer, pc>>
        /\ store' = applyPreparedLocked(store, p)
        /\ task' = [task EXCEPT ![c].preps = Tail(@), ![c].changed = @ \/ ~Rejected(store, p)]
    BY <1>6 DEF AddApply
  <2>2. p \in Prep /\ b \in BOOLEAN
    <3>1. task[c].changed \in BOOLEAN
      BY <1>1 DEF Task
    <3> QED BY <1>1, <2>1, <3>1, TaskSteps
  <2> HIDE DEF p
  <2>3. task' = [task EXCEPT ![c] = t]
    BY <1>1, <2>1 DEF Task
  <2> HIDE DEF b
  <2>4. Fits(t)
    BY <1>1, <2>1, <2>2, TaskSteps
  <2>5. store' \in StoreObject /\ Fit(store') /\ store'.deferIndex = store.deferIndex /\ store'.deferGraph = store.deferGraph
    BY <1>1, <2>1, <2>2, Applied
  <2>6. pc' = [pc EXCEPT ![c] = "applying"] /\ writer = c
    BY <1>1, <2>1
  <2>7. ~Quiet'
    BY <1>1, <2>1, <2>6 DEF Quiet
  <2> HIDE DEF t
  <2> QED BY <1>1, <2>1, <2>3, <2>4, <2>5, <2>6, <2>7, Step DEF Labels
<1>7. ASSUME AddUnlock(c) PROVE Shape'
  <2> DEFINE m == IF task[c].changed THEN shareVectorsLocked(store) ELSE store
  <2>1. /\ pc[c] = "applying" /\ store' = reindexLocked(m) /\ writer' = NULL /\ disk' = disk
        /\ pc' = [pc EXCEPT ![c] = "idle"] /\ task' = [task EXCEPT ![c] = NoTask]
    BY <1>7 DEF AddUnlock, Return, Goto
  <2>2. m \in StoreObject /\ Fit(m) /\ m.deferIndex = store.deferIndex /\ m.deferGraph = store.deferGraph
    BY <1>1, ShareFit
  <2> HIDE DEF m
  <2>3. store' \in StoreObject /\ Fit(store') /\ Settled(store')
        /\ store'.deferIndex = store.deferIndex /\ store'.deferGraph = store.deferGraph
    BY <2>1, <2>2, Reindexed
  <2>4. writer = c
    BY <1>1, <2>1
  <2> QED BY <1>1, <2>1, <2>3, <2>4, NoTaskFits, Step DEF Labels
<1> QED BY <1>2, <1>3, <1>4, <1>5, <1>6, <1>7

LEMMA SettledByLength ==
  ASSUME NEW m \in StoreObject, NEW n \in StoreObject, Settled(m), n.corpus = m.corpus,
         n.needsRebuild = m.needsRebuild, n.deferIndex = m.deferIndex, n.deferGraph = m.deferGraph,
         n.edges = m.edges
  PROVE  Settled(n)
  BY DEF Settled

\* A new list of documents: one per id and per content.
LEMMA SourceType ==
  ASSUME use \in Uses, NEW src \in Sources
  PROVE  src \in Batches /\ src \in Seq(Document) /\ Distinct(src) /\ \A i \in DOMAIN src : src[i].content \in use.contents
  BY BatchType DEF Sources, Distinct

LEMMA Deleted ==
  ASSUME NEW m \in StoreObject, NEW d \in Docs
  PROVE  LET gone == [removeDocLocked(m, d) EXCEPT !.latest[d] = NULL]
             n == IF Len(gone.corpus) # Len(m.corpus) THEN reindexLocked(gone) ELSE gone
         IN  /\ n \in StoreObject /\ n.deferIndex = m.deferIndex /\ n.deferGraph = m.deferGraph
             /\ Fit(m) => Fit(n) /\ (Settled(m) => Settled(n))
             /\ n.idHash = [m.idHash EXCEPT ![d] = NULL] /\ n.latest = [m.latest EXCEPT ![d] = NULL]
             /\ Paired(m) => Paired(n)
             /\ Own(n.corpus, d) = {}
             /\ \A e : e # d => /\ Own(m.corpus, e) = {} => Own(n.corpus, e) = {}
                                /\ \A c : Holds(m.corpus, e, c) => Holds(n.corpus, e, c)
<1> DEFINE r == removeDocLocked(m, d)
           gone == [r EXCEPT !.latest[d] = NULL]
           n == IF Len(gone.corpus) # Len(m.corpus) THEN reindexLocked(gone) ELSE gone
           l == [r.latest EXCEPT ![d] = NULL]
<1>1. /\ r \in StoreObject
      /\ r.idHash = [m.idHash EXCEPT ![d] = NULL] /\ r.latest = m.latest
      /\ Paired(m) => Paired(r)
      /\ Own(r.corpus, d) = {}
      /\ \A e : e # d => /\ Own(m.corpus, e) = {} <=> Own(r.corpus, e) = {}
                         /\ \A c : Holds(m.corpus, e, c) => Holds(r.corpus, e, c)
      /\ r.deferIndex = m.deferIndex /\ r.deferGraph = m.deferGraph
      /\ Len(r.corpus) = Len(m.corpus) => r.corpus = m.corpus /\ r.needsRebuild = m.needsRebuild
      /\ Fit(m) => Fit(r)
      /\ r.edges = m.edges
  BY Removed
<1> HIDE DEF r
<1>2. gone = [r EXCEPT !.latest = l]
  BY <1>1 DEF StoreObject
<1>3. l \in [Docs -> Contents \cup {NULL}] /\ l = [m.latest EXCEPT ![d] = NULL]
  BY <1>1, StoreFields
<1> HIDE DEF gone, l
<1>4. gone \in StoreObject /\ gone.latest = l
  BY <1>1, <1>2, <1>3 DEF StoreObject
<1>5. /\ gone.corpus = r.corpus /\ gone.idHash = r.idHash /\ gone.hashes = r.hashes /\ gone.docSet = r.docSet
      /\ gone.deferIndex = r.deferIndex /\ gone.deferGraph = r.deferGraph /\ gone.needsRebuild = r.needsRebuild
      /\ gone.index = r.index /\ gone.edges = r.edges /\ gone.graph = r.graph
  BY <1>1, <1>2 DEF StoreObject
<1>6. Fit(m) => Fit(gone)
  BY <1>1, <1>5 DEF Fit
<1>7. Paired(m) => Paired(gone)
  BY <1>1, <1>5 DEF Paired
<1>8. CASE Len(gone.corpus) = Len(m.corpus)
  <2>1. n = gone
    BY <1>8
  <2>2. gone.corpus = m.corpus /\ gone.needsRebuild = m.needsRebuild
    BY <1>1, <1>5, <1>8
  <2>3. Settled(m) => Settled(gone)
    BY <1>1, <1>4, <1>5, <2>2, SettledByLength
  <2> HIDE DEF n
  <2> QED BY <1>1, <1>3, <1>4, <1>5, <1>6, <1>7, <2>1, <2>3 DEF n, gone, r
<1>9. CASE Len(gone.corpus) # Len(m.corpus)
  <2>1. n = reindexLocked(gone)
    BY <1>9
  <2> HIDE DEF n
  <2>2. /\ n \in StoreObject /\ SameDocs(gone, n)
        /\ n.deferIndex = gone.deferIndex /\ n.deferGraph = gone.deferGraph
        /\ Fit(gone) => Fit(n) /\ Settled(n)
    BY <1>4, <2>1, Reindexed
  <2>3. gone.corpus \in Seq(Element) /\ n.corpus \in Seq(Element) /\ ChunksOf(gone.corpus) = ChunksOf(n.corpus)
    BY <1>4, <2>2, StoreFields DEF SameDocs
  <2>4. \A e : Own(gone.corpus, e) = Own(n.corpus, e) /\ \A c : Holds(gone.corpus, e, c) <=> Holds(n.corpus, e, c)
    BY <2>3, HoldsSame
  <2>5. Paired(m) => Paired(n)
    BY <1>7, <2>2 DEF Paired, SameDocs, SameRegistry
  <2>6. n.idHash = gone.idHash /\ n.latest = gone.latest
    BY <2>2 DEF SameDocs, SameRegistry
  <2> QED BY <1>1, <1>3, <1>4, <1>5, <1>6, <2>2, <2>4, <2>5, <2>6 DEF n, gone, r
<1> QED BY <1>8, <1>9

LEMMA BuiltStore ==
  ASSUME NEW m \in StoreObject, NEW docs \in Seq([id : Docs, content : Contents])
  PROVE  LET n == reindexLocked(shareVectorsLocked(recordAll(appendChunksLocked(Blank(m), AllElements(docs)), docs)))
         IN  /\ n \in StoreObject /\ n.deferIndex = m.deferIndex /\ n.deferGraph = m.deferGraph
             /\ Fit(m) => Fit(n) /\ Settled(n)
             /\ n.latest = n.idHash
             /\ \A d \in Docs : (\A i \in DOMAIN docs : docs[i].id # d) => n.idHash[d] = NULL /\ Own(n.corpus, d) = {}
             /\ Distinct(docs) =>
                  /\ \A i \in DOMAIN docs : n.idHash[docs[i].id] = docs[i].content
                                            /\ Holds(n.corpus, docs[i].id, docs[i].content)
                  /\ Paired(n)
<1> DEFINE els == AllElements(docs)
           b == Blank(m)
           a == appendChunksLocked(b, els)
           r == recordAll(a, docs)
           h == shareVectorsLocked(r)
           n == reindexLocked(h)
<1>1. /\ els \in Seq(Element)
      /\ Distinct(docs) => \A i \in DOMAIN docs : Holds(els, docs[i].id, docs[i].content)
      /\ \A e : (\A i \in DOMAIN docs : docs[i].id # e) => Own(els, e) = {}
  BY HoldsAll
<1> HIDE DEF els
<1>2. /\ b \in StoreObject /\ b.corpus = <<>> /\ b.index # NULL
      /\ b.idHash = [d \in Docs |-> NULL] /\ b.hashes = [c \in Contents |-> NULL] /\ b.latest = b.idHash
      /\ b.deferIndex = m.deferIndex /\ b.deferGraph = m.deferGraph
      /\ Paired(b)
      /\ Fit(m) => Fit(b)
  BY Blanked
<1> HIDE DEF b
<1>3. a \in StoreObject /\ SameRest(b, a) /\ a.corpus = b.corpus \o els /\ (Fit(b) => Fit(a))
  BY <1>1, <1>2, ChunksAppended
<1> HIDE DEF a
<1>4. a.corpus = els
  BY <1>1, <1>2, <1>3
<1>5. Paired(a) /\ a.latest = a.idHash
  BY <1>2, <1>3 DEF Paired, SameRest
<1>6. /\ r \in StoreObject /\ r.corpus = a.corpus /\ r.deferIndex = a.deferIndex /\ r.deferGraph = a.deferGraph
      /\ Fit(a) => Fit(r)
      /\ a.latest = a.idHash => r.latest = r.idHash
      /\ \A d \in Docs : (\A i \in DOMAIN docs : docs[i].id # d) => r.idHash[d] = a.idHash[d]
      /\ Distinct(docs) => \A i \in DOMAIN docs : r.idHash[docs[i].id] = docs[i].content
      /\ (/\ Distinct(docs) /\ Paired(a)
          /\ \A i \in DOMAIN docs : a.idHash[docs[i].id] = NULL /\ a.hashes[docs[i].content] = NULL)
           => Paired(r)
  BY <1>3, RecordedAll
<1> HIDE DEF r
<1>7. \A i \in DOMAIN docs : a.idHash[docs[i].id] = NULL /\ a.hashes[docs[i].content] = NULL
  <2> SUFFICES ASSUME NEW i \in DOMAIN docs PROVE a.idHash[docs[i].id] = NULL /\ a.hashes[docs[i].content] = NULL
    OBVIOUS
  <2>1. i \in 1..Len(docs)
    OBVIOUS
  <2>2. docs[i] \in [id : Docs, content : Contents]
    BY <2>1, ElementOfSeq
  <2> QED BY <1>2, <1>3, <2>2 DEF SameRest
<1>8. h \in StoreObject /\ SameDocs(r, h) /\ h = [r EXCEPT !.corpus = h.corpus] /\ (Fit(r) => Fit(h))
  BY <1>6, Share, ShareFit
<1> HIDE DEF h
<1>9. h.deferIndex = r.deferIndex /\ h.deferGraph = r.deferGraph
  BY <1>6, <1>8 DEF StoreObject
<1>10. /\ n \in StoreObject /\ SameDocs(h, n) /\ n.deferIndex = h.deferIndex /\ n.deferGraph = h.deferGraph
       /\ Fit(h) => Fit(n) /\ Settled(n)
  BY <1>8, Reindexed
<1> HIDE DEF n
<1>11. SameDocs(r, n)
  BY <1>8, <1>10 DEF SameDocs, SameRegistry
<1>12. r.corpus \in Seq(Element) /\ n.corpus \in Seq(Element) /\ ChunksOf(r.corpus) = ChunksOf(n.corpus)
  BY <1>6, <1>10, <1>11, StoreFields DEF SameDocs
<1>13. \A e : Own(els, e) = Own(n.corpus, e) /\ \A c : Holds(els, e, c) <=> Holds(n.corpus, e, c)
  BY <1>4, <1>6, <1>12, HoldsSame
<1>14. n.idHash = r.idHash /\ n.latest = r.latest /\ (Paired(r) => Paired(n))
  BY <1>11 DEF SameDocs, SameRegistry, Paired
<1>15. n.deferIndex = m.deferIndex /\ n.deferGraph = m.deferGraph
  BY <1>2, <1>3, <1>6, <1>9, <1>10 DEF SameRest
<1>16. Fit(m) => Fit(n) /\ Settled(n)
  BY <1>2, <1>3, <1>6, <1>8, <1>10
<1>17. \A d \in Docs : (\A i \in DOMAIN docs : docs[i].id # d) => n.idHash[d] = NULL /\ Own(n.corpus, d) = {}
  BY <1>1, <1>2, <1>3, <1>6, <1>13, <1>14 DEF SameRest
<1>18. Distinct(docs) => /\ \A i \in DOMAIN docs : n.idHash[docs[i].id] = docs[i].content
                                                   /\ Holds(n.corpus, docs[i].id, docs[i].content)
                         /\ Paired(n)
  BY <1>1, <1>5, <1>6, <1>7, <1>13, <1>14
<1> QED BY <1>5, <1>6, <1>10, <1>14, <1>15, <1>16, <1>17, <1>18 DEF n, h, r, a, b, els

LEMMA MergedStore ==
  ASSUME NEW m \in StoreObject, NEW docs \in Seq([id : Docs, content : Contents])
  PROVE  LET els == AllElements(docs)
             n == IF els = <<>> THEN m
                  ELSE shareVectorsLocked(appendChunksLocked(IF m.index = NULL THEN initIndexes(m) ELSE m, els))
         IN  /\ n \in StoreObject /\ n.deferIndex = m.deferIndex /\ n.deferGraph = m.deferGraph
             /\ Fit(m) => Fit(n)
             /\ n.hashes = m.hashes /\ n.idHash = m.idHash /\ n.latest = m.latest
             /\ ChunksOf(n.corpus) = ChunksOf(m.corpus \o els)
<1> DEFINE els == AllElements(docs)
           ready == IF m.index = NULL THEN initIndexes(m) ELSE m
           a == appendChunksLocked(ready, els)
           h == shareVectorsLocked(a)
           n == IF els = <<>> THEN m ELSE h
<1>1. els \in Seq(Element)
  BY HoldsAll
<1> HIDE DEF els
<1>2. /\ ready \in StoreObject /\ ready.index # NULL /\ ready.corpus = m.corpus /\ SameRest(m, ready)
      /\ Fit(m) => Fit(ready)
  <2>1. CASE m.index = NULL
    BY <2>1, Initialised
  <2>2. CASE m.index # NULL
    BY <2>2 DEF SameRest
  <2> QED BY <2>1, <2>2
<1> HIDE DEF ready
<1>3. a \in StoreObject /\ SameRest(ready, a) /\ a.corpus = ready.corpus \o els /\ (Fit(ready) => Fit(a))
  BY <1>1, <1>2, ChunksAppended
<1> HIDE DEF a
<1>4. h \in StoreObject /\ SameDocs(a, h) /\ h = [a EXCEPT !.corpus = h.corpus] /\ (Fit(a) => Fit(h))
  BY <1>3, Share, ShareFit
<1> HIDE DEF h
<1>5. h.deferIndex = a.deferIndex /\ h.deferGraph = a.deferGraph
  BY <1>3, <1>4 DEF StoreObject
<1>6. els = <<>> => m.corpus = m.corpus \o els
  <2>1. m.corpus \in Seq(Element)
    BY StoreFields
  <2> QED BY <2>1
<1>7. CASE els = <<>>
  BY <1>6, <1>7 DEF n, els
<1>8. CASE els # <<>>
  <2>1. n = h
    BY <1>8
  <2> HIDE DEF n
  <2>2. /\ n \in StoreObject /\ n.deferIndex = m.deferIndex /\ n.deferGraph = m.deferGraph
        /\ Fit(m) => Fit(n)
        /\ n.hashes = m.hashes /\ n.idHash = m.idHash /\ n.latest = m.latest
        /\ ChunksOf(n.corpus) = ChunksOf(m.corpus \o els)
    BY <1>2, <1>3, <1>4, <1>5, <2>1 DEF SameRest, SameDocs, SameRegistry
  <2> QED BY <2>2 DEF n, els, h, a, ready
<1> QED BY <1>7, <1>8

LEMMA ShapeOneStep ==
  ASSUME Shape, use' = use, NEW c \in Clients
  PROVE  /\ \A d \in Docs : DeleteDocument(c, d) => Shape'
         /\ \A docs \in Sources : Build(c, docs) => Shape'
<1>1. /\ TypeOK /\ Fit(store) /\ store \in StoreObject /\ Fits(task[c]) /\ task \in [Clients -> Task]
      /\ pc \in [Clients -> Labels] /\ writer \in Clients \cup {NULL} /\ use \in Uses
      /\ NULL \notin Clients
  BY NullAssumption DEF Shape, TypeOK, Fits, Labels
<1>2. ASSUME NEW call, Idle(c, call), UNCHANGED <<disk, writer, pc, task>>, store' \in StoreObject, Fit(store)',
             store'.deferIndex = store.deferIndex, store'.deferGraph = store.deferGraph,
             Settled(store) => Settled(store')
      PROVE  Shape'
  <2>1. /\ pc[c] = "idle" /\ writer = NULL /\ task[c] = NoTask
        /\ use.atOnce = 1 => \A b \in Clients : pc[b] = "idle"
    BY <1>1, <1>2, AloneInCall
  <2>2. pc' = [pc EXCEPT ![c] = "idle"] /\ task' = [task EXCEPT ![c] = NoTask] /\ disk' = disk /\ writer' = writer
    BY <1>1, <1>2, <2>1
  <2>3. Quiet' => Settled(store')
    BY <1>2 DEF Quiet, Shape
  <2>4. \A b \in Clients : b # c => (writer = b <=> writer' = b)
    BY <2>2
  <2>5. "idle" \in Labels /\ ("idle" = "applying" <=> writer' = c)
    BY <1>1, <2>1, <2>2 DEF Labels
  <2>6. store' \in StoreObject /\ Fit(store)' /\ writer' \in Clients \cup {NULL}
        /\ (store'.deferIndex => store.deferIndex) /\ (store'.deferGraph => store.deferGraph)
    BY <1>1, <1>2
  <2> HIDE DEF Quiet
  <2> QED BY <2>1, <2>2, <2>3, <2>4, <2>5, <2>6, NoTaskFits, Step
<1>3. ASSUME NEW d \in Docs, DeleteDocument(c, d) PROVE Shape'
  <2> DEFINE gone == [removeDocLocked(store, d) EXCEPT !.latest[d] = NULL]
  <2>1. /\ Idle(c, "delete") /\ UNCHANGED <<disk, writer, pc, task>>
        /\ store' = IF Len(gone.corpus) # Len(store.corpus) THEN reindexLocked(gone) ELSE gone
    BY <1>3 DEF DeleteDocument
  <2>2. /\ store' \in StoreObject /\ Fit(store') /\ store'.deferIndex = store.deferIndex
        /\ store'.deferGraph = store.deferGraph /\ (Settled(store) => Settled(store'))
    BY <1>1, <2>1, Deleted
  <2> QED BY <1>2, <2>1, <2>2
<1>4. ASSUME NEW docs \in Sources, Build(c, docs) PROVE Shape'
  <2>1. /\ Idle(c, "build") /\ UNCHANGED <<disk, writer, pc, task>>
        /\ store' = reindexLocked(shareVectorsLocked(recordAll(appendChunksLocked(Blank(store), AllElements(docs)), docs)))
    BY <1>4 DEF Build
  <2>2. docs \in Seq([id : Docs, content : Contents])
    BY <1>1, SourceType DEF Document
  <2>3. /\ store' \in StoreObject /\ Fit(store') /\ store'.deferIndex = store.deferIndex
        /\ store'.deferGraph = store.deferGraph /\ Settled(store')
    BY <1>1, <2>1, <2>2, BuiltStore
  <2> QED BY <1>2, <2>1, <2>3
<1> QED BY <1>3, <1>4

\* The last step of an ingestion or a merge: everything is built and reindexed.
LEMMA ShapeRefreshed ==
  ASSUME Shape, use' = use, NEW c \in Clients, pc[c] \in {"ingesting", "reindexing"}, writer = NULL,
         store' = reindexLocked(ensureGraphLocked(store)), UNCHANGED <<disk, writer>>,
         pc' = [pc EXCEPT ![c] = "idle"], task' = [task EXCEPT ![c] = NoTask]
  PROVE  Shape'
<1>1. Fit(store) /\ store \in StoreObject /\ NULL \notin Clients
  BY NullAssumption DEF Shape, TypeOK
<1> DEFINE m == ensureGraphLocked(store)
<1>2. m \in StoreObject /\ Fit(m) /\ ~m.deferIndex /\ ~m.deferGraph
  BY <1>1, EnsureGraph
<1>3. store' = reindexLocked(m)
  OBVIOUS
<1> HIDE DEF m
<1>4. store' \in StoreObject /\ Fit(store') /\ Settled(store') /\ ~store'.deferIndex /\ ~store'.deferGraph
  BY <1>2, <1>3, Reindexed
<1>5. \A b \in Clients : b # c => (writer = b <=> writer' = b)
  OBVIOUS
<1>6. disk' = disk /\ writer' \in Clients \cup {NULL} /\ writer' # c /\ Fit(store)' /\ "idle" \in Labels
  BY <1>1, <1>4 DEF Labels
<1> QED BY <1>4, <1>5, <1>6, NoTaskFits, Step

LEMMA ShapeIngest ==
  ASSUME Shape, use' = use, NEW c \in Clients
  PROVE  /\ \A docs \in Batches : IngestStart(c, docs) => Shape'
         /\ IngestPrepare(c) \/ IngestApply(c) \/ IngestEnd(c) => Shape'
<1>1. /\ TypeOK /\ Fit(store) /\ store \in StoreObject /\ Fits(task[c]) /\ task \in [Clients -> Task]
      /\ pc \in [Clients -> Labels] /\ writer \in Clients \cup {NULL} /\ use \in Uses
      /\ NULL \notin Clients
      /\ pc[c] = "ingesting" => "ingest" \in use.calls
  BY NullAssumption DEF Shape, TypeOK, Fits, Labels, InCall
<1>2. ASSUME NEW docs \in Batches, IngestStart(c, docs) PROVE Shape'
  <2> DEFINE t == [task[c] EXCEPT !.todo = docs]
  <2>1. /\ pc[c] = "idle" /\ writer = NULL /\ "ingest" \in use.calls
        /\ use.atOnce = 1 => \A b \in Clients : pc[b] = "idle"
    BY <1>1, <1>2, AloneInCall DEF IngestStart
  <2>2. /\ UNCHANGED <<store, disk, writer>>
        /\ pc' = [pc EXCEPT ![c] = "ingesting"] /\ task' = [task EXCEPT ![c] = t]
    BY <1>2 DEF IngestStart, Goto
  <2>3. Fits(t)
    BY <1>1, BatchType, TaskSteps
  <2>4. ~Quiet'
    BY <1>1, <2>2 DEF Quiet
  <2> HIDE DEF t
  <2> QED BY <1>1, <2>1, <2>2, <2>3, <2>4, Step DEF Labels
<1>3. ASSUME NEW t, Fits(t), pc[c] = "ingesting", writer = NULL, pc' = pc, task' = [task EXCEPT ![c] = t],
             UNCHANGED <<disk, writer>>, store' \in StoreObject, Fit(store)',
             store'.deferIndex = store.deferIndex, store'.deferGraph = store.deferGraph
      PROVE  Shape'
  <2>1. pc' = [pc EXCEPT ![c] = "ingesting"] /\ disk' = disk /\ writer' = writer /\ pc'[c] = "ingesting"
    BY <1>1, <1>3
  <2>2. ~Quiet'
    BY <2>1 DEF Quiet
  <2>3. \A b \in Clients : b # c => (writer = b <=> writer' = b)
    BY <2>1
  <2>4. "ingesting" \in Labels /\ ("ingesting" = "applying" <=> writer' = c)
    BY <1>1, <1>3, <2>1 DEF Labels
  <2> QED BY <1>1, <1>3, <2>1, <2>2, <2>3, <2>4, Step
<1>4. ASSUME IngestPrepare(c) PROVE Shape'
  <2> DEFINE d == Head(task[c].todo)
             t == [task[c] EXCEPT !.todo = Tail(@)]
             u == [task[c] EXCEPT !.todo = Tail(@), !.preps = Append(@, Prepared(d))]
  <2>1. /\ pc[c] = "ingesting" /\ writer = NULL /\ task[c].todo # <<>> /\ UNCHANGED <<store, disk, writer, pc>>
        /\ \/ task' = [task EXCEPT ![c].todo = Tail(@), ![c].preps = Append(@, Prepared(d))]
           \/ task' = [task EXCEPT ![c].todo = Tail(@)]
    BY <1>4 DEF IngestPrepare
  <2>2. d \in Document
    BY <1>1, <2>1, TaskSteps
  <2>3. Prepared(d) \in Prep
    BY <1>1, <2>2, PreparedType DEF Document
  <2> HIDE DEF d
  <2>4. Fits(t) /\ Fits(u)
    BY <1>1, <2>1, <2>3, TaskSteps
  <2>5. task' = [task EXCEPT ![c] = t] \/ task' = [task EXCEPT ![c] = u]
    BY <1>1, <2>1 DEF Task
  <2> HIDE DEF t, u
  <2>6. Fit(store)' /\ store' \in StoreObject
    BY <1>1, <2>1
  <2>7. CASE task' = [task EXCEPT ![c] = t]
    BY <1>3, <2>1, <2>4, <2>6, <2>7
  <2>8. CASE task' = [task EXCEPT ![c] = u]
    BY <1>3, <2>1, <2>4, <2>6, <2>8
  <2> QED BY <2>5, <2>7, <2>8
<1>5. ASSUME IngestApply(c) PROVE Shape'
  <2>1. pc[c] = "ingesting" /\ writer = NULL /\ UNCHANGED <<disk, writer, pc>>
    BY <1>5 DEF IngestApply
  <2>2. PICK i \in DOMAIN task[c].preps :
          /\ store' = applyPreparedLocked(store, task[c].preps[i])
          /\ task' = [task EXCEPT ![c].preps = RemoveAt(@, i)]
    BY <1>5 DEF IngestApply
  <2> DEFINE p == task[c].preps[i]
             t == [task[c] EXCEPT !.preps = RemoveAt(@, i)]
  <2>3. p \in Prep /\ Fits(t)
    BY <1>1, TaskSteps
  <2>4. task' = [task EXCEPT ![c] = t] /\ store' = applyPreparedLocked(store, p)
    BY <1>1, <2>2 DEF Task
  <2> HIDE DEF p, t
  <2>5. store' \in StoreObject /\ Fit(store') /\ store'.deferIndex = store.deferIndex /\ store'.deferGraph = store.deferGraph
    BY <1>1, <2>3, <2>4, Applied
  <2> QED BY <1>3, <2>1, <2>3, <2>4, <2>5
<1>6. ASSUME IngestEnd(c) PROVE Shape'
  BY <1>1, <1>6, ShapeRefreshed DEF IngestEnd, Return, Goto
<1> QED BY <1>2, <1>4, <1>5, <1>6

LEMMA ShapeMerge ==
  ASSUME Shape, use' = use, NEW c \in Clients
  PROVE  /\ \A src \in Sources : MergeDecide(c, src) => Shape'
         /\ MergeAppend(c) \/ MergeRecord(c) \/ MergeReindex(c) => Shape'
<1>1. /\ TypeOK /\ Fit(store) /\ store \in StoreObject /\ Fits(task[c]) /\ task \in [Clients -> Task]
      /\ pc \in [Clients -> Labels] /\ writer \in Clients \cup {NULL} /\ use \in Uses
      /\ NULL \notin Clients
      /\ pc[c] \in {"merging", "recording", "reindexing"} => "merge" \in use.calls
      /\ task[c].todo \in Seq([id : Docs, content : Contents])
  BY NullAssumption DEF Shape, TypeOK, Fits, Labels, InCall, Task
<1>2. ASSUME NEW src \in Sources, MergeDecide(c, src) PROVE Shape'
  <2> DEFINE new == Compacted(src, {i \in DOMAIN src : ~Known(src[i])})
             t == [task[c] EXCEPT !.todo = new]
  <2>1. /\ pc[c] = "idle" /\ writer = NULL /\ "merge" \in use.calls
        /\ use.atOnce = 1 => \A b \in Clients : pc[b] = "idle"
    BY <1>1, <1>2, AloneInCall DEF MergeDecide
  <2>2. /\ UNCHANGED <<store, disk, writer>>
        /\ pc' = [pc EXCEPT ![c] = "merging"] /\ task' = [task EXCEPT ![c] = t]
    BY <1>2 DEF MergeDecide, Goto
  <2>3. new \in Seq(Document)
    <3> DEFINE I == {i \in DOMAIN src : ~Known(src[i])}
    <3>1. I \in SUBSET (DOMAIN src) /\ src \in Seq(Document)
      BY <1>1, SourceType
    <3> HIDE DEF I
    <3> QED BY <3>1, Compacts DEF I
  <2> HIDE DEF new
  <2>4. Fits(t)
    BY <1>1, <2>3, TaskSteps
  <2>5. Quiet' => Settled(store')
    BY <1>1, <2>1, <2>2 DEF Quiet, Shape
  <2> HIDE DEF t
  <2> QED BY <1>1, <2>1, <2>2, <2>4, <2>5, Step DEF Labels
<1>3. ASSUME NEW l \in {"recording", "reindexing"}, pc[c] \in {"merging", "recording"}, writer = NULL,
             pc' = [pc EXCEPT ![c] = l], UNCHANGED <<disk, writer, task>>, store' \in StoreObject, Fit(store)',
             store'.deferIndex = store.deferIndex, store'.deferGraph = store.deferGraph
      PROVE  Shape'
  <2>1. task' = [task EXCEPT ![c] = task[c]] /\ disk' = disk /\ writer' = writer /\ pc'[c] = l
    BY <1>1, <1>3
  <2>2. ~Quiet'
    BY <1>3, <2>1 DEF Quiet
  <2>3. \A b \in Clients : b # c => (writer = b <=> writer' = b)
    BY <2>1
  <2>4. l \in Labels /\ (l = "applying" <=> writer' = c) /\ "merge" \in use.calls
        /\ l # "idle" /\ pc[c] # "idle" /\ l # "ingesting" /\ l # "searching" /\ l # "boosting"
    BY <1>1, <1>3, <2>1 DEF Labels
  <2> QED BY <1>1, <1>3, <2>1, <2>2, <2>3, <2>4, Step
<1>4. ASSUME MergeAppend(c) PROVE Shape'
  <2> DEFINE els == AllElements(task[c].todo)
  <2>1. /\ pc[c] = "merging" /\ writer = NULL /\ UNCHANGED <<disk, writer, task>>
        /\ pc' = [pc EXCEPT ![c] = "recording"]
        /\ store' = IF els = <<>> THEN store
                    ELSE shareVectorsLocked(appendChunksLocked(
                           IF store.index = NULL THEN initIndexes(store) ELSE store, els))
    BY <1>4 DEF MergeAppend, Goto
  <2>2. store' \in StoreObject /\ Fit(store') /\ store'.deferIndex = store.deferIndex /\ store'.deferGraph = store.deferGraph
    BY <1>1, <2>1, MergedStore
  <2> HIDE DEF els
  <2> QED BY <1>3, <2>1, <2>2
<1>5. ASSUME MergeRecord(c) PROVE Shape'
  <2>1. /\ pc[c] = "recording" /\ writer = NULL /\ UNCHANGED <<disk, writer, task>>
        /\ pc' = [pc EXCEPT ![c] = "reindexing"] /\ store' = recordAll(store, task[c].todo)
    BY <1>5 DEF MergeRecord, Goto
  <2>2. store' \in StoreObject /\ Fit(store') /\ store'.deferIndex = store.deferIndex /\ store'.deferGraph = store.deferGraph
    BY <1>1, <2>1, RecordedAll
  <2> QED BY <1>3, <2>1, <2>2
<1>6. ASSUME MergeReindex(c) PROVE Shape'
  BY <1>1, <1>6, ShapeRefreshed DEF MergeReindex, Return, Goto
<1> QED BY <1>2, <1>4, <1>5, <1>6

LEMMA ShapeRetrieve ==
  ASSUME Shape, use' = use, NEW c \in Clients, RetrieveEnsure(c) \/ RetrieveSearch(c)
  PROVE  Shape'
<1>1. /\ TypeOK /\ Fit(store) /\ store \in StoreObject /\ Fits(task[c]) /\ task \in [Clients -> Task]
      /\ pc \in [Clients -> Labels] /\ writer \in Clients \cup {NULL} /\ use \in Uses
      /\ NULL \notin Clients
  BY NullAssumption DEF Shape, TypeOK, Fits, Labels
<1>2. ASSUME NEW l \in {"searching", "boosting"}, NEW call, Idle(c, call), UNCHANGED <<disk, writer, task>>,
             pc' = [pc EXCEPT ![c] = l], store' \in StoreObject, Fit(store)', ~store'.deferIndex,
             l = "searching" => call = "retrieve",
             l = "boosting" => call = "graph" /\ ~store'.deferGraph,
             store'.deferGraph => store.deferGraph,
             Settled(store) => Settled(store')
      PROVE  Shape'
  <2>1. /\ pc[c] = "idle" /\ writer = NULL /\ task[c] = NoTask /\ call \in use.calls
        /\ use.atOnce = 1 => \A b \in Clients : pc[b] = "idle"
    BY <1>1, <1>2, AloneInCall
  <2>2. task' = [task EXCEPT ![c] = NoTask] /\ disk' = disk /\ writer' = writer
    BY <1>1, <1>2, <2>1
  <2>3. Quiet' => Settled(store')
    BY <1>1, <1>2, <2>1, <2>2 DEF Quiet, Shape
  <2>4. \A b \in Clients : b # c => (writer = b <=> writer' = b)
    BY <2>2
  <2>5. l \in Labels /\ (l = "applying" <=> writer' = c) /\ l # "ingesting" /\ l # "idle"
        /\ l \notin {"merging", "recording", "reindexing"}
    BY <1>1, <1>2, <2>1, <2>2 DEF Labels
  <2> HIDE DEF Quiet
  <2> QED BY ZenonT(30), <1>1, <1>2, <2>1, <2>2, <2>3, <2>4, <2>5, NoTaskFits, Step
<1>3. CASE RetrieveSearch(c)
  <2>1. /\ pc[c] \in {"searching", "boosting"} /\ writer = NULL /\ UNCHANGED <<store, disk, writer>>
        /\ pc' = [pc EXCEPT ![c] = "idle"] /\ task' = [task EXCEPT ![c] = NoTask]
    BY <1>3 DEF RetrieveSearch, Return, Goto
  <2>2. Quiet' => Settled(store')
    BY <1>1, <2>1 DEF Quiet, Shape
  <2> QED BY <1>1, <2>1, <2>2, NoTaskFits, Step DEF Labels
<1>4. CASE Idle(c, "retrieve") /\ store' = ensureSearchLocked(store) /\ Goto(c, "searching") /\ UNCHANGED <<disk, writer, task>>
  <2>1. /\ store' \in StoreObject /\ Fit(store') /\ ~store'.deferIndex
        /\ store'.deferGraph = store.deferGraph /\ (Settled(store) => Settled(store'))
    BY <1>1, <1>4, EnsureSearch
  <2>2. Idle(c, "retrieve") /\ pc' = [pc EXCEPT ![c] = "searching"] /\ UNCHANGED <<disk, writer, task>>
    BY <1>4 DEF Goto
  <2> QED BY <1>2, <2>1, <2>2
<1>5. CASE Idle(c, "graph") /\ store' = ensureGraphLocked(store) /\ Goto(c, "boosting") /\ UNCHANGED <<disk, writer, task>>
  <2>1. /\ store' \in StoreObject /\ Fit(store') /\ ~store'.deferIndex
        /\ ~store'.deferGraph /\ (Settled(store) => Settled(store'))
    BY <1>1, <1>5, EnsureGraph
  <2>2. Idle(c, "graph") /\ pc' = [pc EXCEPT ![c] = "boosting"] /\ UNCHANGED <<disk, writer, task>>
    BY <1>5 DEF Goto
  <2> QED BY <1>2, <2>1, <2>2
<1> QED BY <1>3, <1>4, <1>5 DEF RetrieveEnsure

LEMMA ShapeDisk ==
  ASSUME Shape, use' = use, (\E mode \in use.modes : Save(mode)) \/ Restart
  PROVE  Shape'
<1>1. /\ TypeOK /\ Fit(store) /\ store \in StoreObject /\ disk \in Snapshot \cup {NULL} /\ use \in Uses
  BY DEF Shape, TypeOK
<1>2. CASE \E mode \in use.modes : Save(mode)
  <2>1. PICK mode \in use.modes : Save(mode)
    BY <1>2
  <2>2. mode \in {"exact", "codes", "none"}
    BY <1>1, <2>1, UsesAssumption DEF Use
  <2>3. disk' \in Snapshot /\ UNCHANGED <<store, writer, pc, task>>
    BY <1>1, <2>1, <2>2, SavedType DEF Save
  <2>4. TypeOK'
    BY <1>1, <2>3 DEF TypeOK
  <2> QED BY <2>3, <2>4 DEF Shape, InCall, OneAtATime, Built, Quiet
<1>3. CASE Restart
  <2>1. /\ writer' = NULL /\ pc' = [c \in Clients |-> "idle"] /\ task' = [c \in Clients |-> NoTask] /\ disk' = disk
        /\ IF disk = NULL THEN store' = EmptyStore
           ELSE \E owners \in Owners(disk) : store' = Loaded(disk, owners)
    BY <1>3 DEF Restart
  <2>2. store' \in StoreObject /\ Fit(store') /\ Settled(store')
    <3>1. CASE disk = NULL
      BY <2>1, <3>1, Emptied
    <3>2. CASE disk # NULL
      <4>1. PICK owners \in Owners(disk) : store' = Loaded(disk, owners)
        BY <2>1, <3>2
      <4>2. disk \in Snapshot
        BY <1>1, <3>2
      <4> QED BY <4>1, <4>2, LoadedStore
    <3> QED BY <3>1, <3>2
  <2>3. \A c \in Clients : pc'[c] = "idle" /\ task'[c] = NoTask /\ Fits(task'[c]) /\ writer' # c
    BY <2>1, NoTaskFits, NullAssumption
  <2>4. pc' \in [Clients -> Labels] /\ task' \in [Clients -> Task]
    BY <2>1, NoTaskFits DEF Labels, Fits
  <2>5. TypeOK'
    BY <1>1, <2>1, <2>2, <2>3, <2>4 DEF TypeOK, Labels, Fits
  <2>6. InCall' /\ OneAtATime' /\ Built'
    BY <2>3 DEF InCall, OneAtATime, Built
  <2> QED BY <2>2, <2>5, <2>6 DEF Shape
<1> QED BY <1>2, <1>3

LEMMA ShapeNext == Shape /\ [Next]_vars => Shape'
<1> SUFFICES ASSUME Shape, [Next]_vars PROVE Shape'
  OBVIOUS
<1>1. CASE UNCHANGED vars
  BY <1>1 DEF vars, Shape, TypeOK, InCall, OneAtATime, Built, Quiet
<1>2. CASE Next
  <2>1. use' = use
    BY <1>2 DEF Next
  <2>2. CASE \E c \in Clients : Call(c)
    <3>1. PICK c \in Clients : Call(c)
      BY <2>2
    <3> QED BY <2>1, <3>1, ShapeAdd, ShapeOneStep, ShapeIngest, ShapeMerge, ShapeRetrieve DEF Call
  <2>3. CASE (\E mode \in use.modes : Save(mode)) \/ Restart
    BY <2>1, <2>3, ShapeDisk
  <2> QED BY <1>2, <2>2, <2>3 DEF Next
<1> QED BY <1>1, <1>2

\* In every reachable state of every program the store, the snapshot and the tasks of the
\* clients have their types (rag/store.go:66 ff), the write lock is held by the client that
\* applies a batch and by no other (store.go:410 to :470), and an idle client has no task.
THEOREM TypeCorrect == Spec => []TypeOK
<1>1. Spec => []Shape
  BY ShapeInit, ShapeNext, PTL DEF Spec
<1> QED BY <1>1, PTL DEF Shape

\* A query finds the index, and its graph, of the chunks that are there (store.go:713), if
\* no query is answered while documents are ingested or merged, where the code refreshes
\* the index only at the end.
THEOREM SearchFinds == ASSUME AnswersAlone(Uses) PROVE Spec => []SearchSeesCorpus
<1>1. Spec => []Shape
  BY ShapeInit, ShapeNext, PTL DEF Spec
<1>2. Shape => SearchSeesCorpus
  <2> SUFFICES ASSUME Shape, NEW c \in Clients, pc[c] \in {"searching", "boosting"}, writer = NULL,
                      store.corpus # <<>>
               PROVE  /\ store.index # NULL /\ ChunksOf(store.index) = ChunksOf(store.corpus)
                      /\ pc[c] = "boosting" =>
                           /\ store.graph # NULL
                           /\ store.graph.nodes = ChunksOf(store.corpus)
                           /\ store.graph.edges = ChunksOf(store.corpus)
    BY DEF SearchSeesCorpus
  <2>1. Quiet
    <3> SUFFICES ASSUME NEW b \in Clients, pc[b] \in {"ingesting", "recording", "reindexing"} PROVE FALSE
      BY DEF Quiet
    <3>1. use.calls \cap {"retrieve", "graph"} # {} /\ use.calls \cap {"ingest", "merge"} # {}
      BY DEF Shape, InCall
    <3>2. use.atOnce = 1
      BY <3>1, AnswersAlone(Uses) DEF AnswersAlone, Shape, TypeOK
    <3>3. b = c
      BY <3>2 DEF Shape, OneAtATime
    <3> QED BY <3>3
  <2>2. Settled(store) /\ Fit(store) /\ ~store.deferIndex /\ (pc[c] = "boosting" => ~store.deferGraph)
    BY <2>1 DEF Shape, Built
  <2>3. store.index # NULL /\ ChunksOf(store.index) = ChunksOf(store.corpus)
    BY <2>2 DEF Settled, Fit
  <2>4. ASSUME pc[c] = "boosting"
        PROVE  store.graph = [nodes |-> store.edges, edges |-> store.edges] /\ store.edges = ChunksOf(store.corpus)
               /\ store.graph # NULL
    <3>1. store \in StoreObject
      BY DEF Shape, TypeOK
    <3>2. store.corpus \in Seq(Element) /\ store.edges \in Seq(Chunk)
      BY <3>1, StoreFields
    <3>3. store.edges = ChunksOf(store.corpus) /\ Len(store.edges) = Len(store.corpus)
      BY <2>2, <2>4, <3>2, ChunksType DEF Settled
    <3>4. store.edges # <<>>
      BY <3>2, <3>3, EmptyArray
    <3>5. store.graph = [nodes |-> store.edges, edges |-> store.edges]
      BY <2>2, <2>4, <3>4 DEF Settled, Fit
    <3>6. store.graph \in Graph
      BY <3>2, <3>5 DEF Graph
    <3> QED BY <3>3, <3>5, <3>6, NullAssumption
  <2> QED BY <2>3, <2>4
<1> QED BY <1>1, <1>2, PTL

-----------------------------------------------------------------------------
(* The registry and the arrays.                                             *)

\* What the arrays s hold of document d whose registered content is c.
Kept(s, d, c) == IF c = NULL THEN Own(s, d) = {} ELSE Holds(s, d, c) /\ Pieces[c] # <<>>

\* A store whose registries are inverse and describe its arrays.
Faithful(m) ==
  /\ Paired(m)
  /\ m.latest = m.idHash
  /\ \A d \in Docs : Kept(m.corpus, d, m.idHash[d])

NoMerge == \A c \in Clients : pc[c] \notin {"merging", "recording"}

\* The documents a merge has appended and not yet recorded.
Pending(d) == \E c \in Clients : pc[c] = "recording" /\ \E i \in DOMAIN task[c].todo : task[c].todo[i].id = d

\* What a merge has decided to take over is new to the store until it is recorded.
Merging ==
  \A c \in Clients : pc[c] \in {"merging", "recording"} =>
    /\ Distinct(task[c].todo)
    /\ \A i \in DOMAIN task[c].todo :
         LET t == task[c].todo[i]
         IN  /\ store.idHash[t.id] = NULL /\ store.hashes[t.content] = NULL
             /\ Pieces[t.content] # <<>>
             /\ pc[c] = "recording" => Holds(store.corpus, t.id, t.content)

\* A snapshot can be loaded into such a store.
SavedFaithful ==
  disk # NULL =>
    /\ \A d, e \in Docs : disk.idHash[d] # NULL /\ disk.idHash[d] = disk.idHash[e] => d = e
    /\ disk.latest = disk.idHash
    /\ \A d \in Docs : Kept(disk.corpus, d, disk.idHash[d])

\* The inductive invariant of the registry.
Registered ==
  /\ Shape
  /\ Paired(store)
  /\ store.latest = store.idHash
  /\ \A d \in Docs : ~Pending(d) => Kept(store.corpus, d, store.idHash[d])
  /\ Merging
  /\ SavedFaithful

LEMMA RegistryStep ==
  ASSUME Shape', SavedFaithful, disk' = disk, NoMerge', Faithful(store)'
  PROVE  Registered'
<1>1. \A d \in Docs : (~Pending(d) => Kept(store.corpus, d, store.idHash[d]))'
  BY DEF Faithful
<1>2. Merging'
  BY DEF Merging, NoMerge
<1>3. SavedFaithful'
  BY DEF SavedFaithful
<1> QED BY <1>1, <1>2, <1>3 DEF Registered, Faithful

LEMMA RegistryQuiet ==
  ASSUME Registered, NoMerge
  PROVE  Faithful(store)
<1>1. \A d \in Docs : ~Pending(d)
  BY DEF NoMerge, Pending
<1> QED BY <1>1 DEF Registered, Faithful

\* The documents are the same, whatever the vectors and the indexes are.
LEMMA SameFaithful ==
  ASSUME NEW m \in StoreObject, NEW n \in StoreObject, SameDocs(m, n), Faithful(m)
  PROVE  Faithful(n)
<1>1. m.corpus \in Seq(Element) /\ n.corpus \in Seq(Element)
  BY StoreFields
<1>2. \A d \in Docs : Kept(n.corpus, d, n.idHash[d])
  BY <1>1, HoldsSame DEF SameDocs, SameRegistry, Faithful, Kept
<1> QED BY <1>2 DEF SameDocs, SameRegistry, Faithful, Paired

\* Nobody merges while another call is in progress.
LEMMA NoMergeBeside ==
  ASSUME MergesAlone(Uses), Shape, NEW c \in Clients,
         pc[c] \notin {"merging", "recording"},
         pc[c] = "idle" => (use.atOnce = 1 => \A b \in Clients : pc[b] = "idle")
  PROVE  NoMerge
<1> SUFFICES ASSUME NEW b \in Clients, pc[b] \in {"merging", "recording"} PROVE FALSE
  BY DEF NoMerge
<1>1. use.atOnce = 1
  BY MergesAlone(Uses) DEF MergesAlone, Shape, InCall, TypeOK
<1>2. pc[c] # "idle"
  BY <1>1
<1>3. b = c
  BY <1>1, <1>2 DEF Shape, OneAtATime
<1> QED BY <1>3

LEMMA MergeAlone ==
  ASSUME MergesAlone(Uses), Shape, NEW c \in Clients, pc[c] \in {"merging", "recording"}
  PROVE  \A b \in Clients : b # c => pc[b] = "idle"
<1>1. use.atOnce = 1
  BY MergesAlone(Uses) DEF MergesAlone, Shape, InCall, TypeOK
<1> QED BY <1>1 DEF Shape, OneAtATime

\* A step outside a merge that leaves the documents as they are.
LEMMA RegistrySame ==
  ASSUME MergesAlone(Uses), Registered, Shape', disk' = disk, NEW c \in Clients, NEW l \in Labels,
         l \notin {"merging", "recording"},
         pc' = [pc EXCEPT ![c] = l],
         pc[c] \notin {"merging", "recording"},
         pc[c] = "idle" => (use.atOnce = 1 => \A b \in Clients : pc[b] = "idle"),
         SameDocs(store, store')
  PROVE  Registered'
<1>1. NoMerge
  BY NoMergeBeside DEF Registered
<1>2. NoMerge'
  BY <1>1 DEF NoMerge, Registered, Shape, TypeOK
<1>3. Faithful(store)
  BY <1>1, RegistryQuiet
<1>4. store \in StoreObject /\ store' \in StoreObject
  BY DEF Registered, Shape, TypeOK
<1>5. Faithful(store')
  BY <1>3, <1>4, SameFaithful
<1> QED BY <1>2, <1>5, RegistryStep DEF Registered

\* A step of the store is a step of Corpus, or none, seen through the registry.
CorpusStep ==
  \/ Registry!Next
  \/ UNCHANGED <<store.idHash, IF disk = NULL THEN EmptyStore.idHash ELSE disk.idHash>>

LEMMA NoCorpusStep ==
  ASSUME SameDocs(store, store'), disk' = disk
  PROVE  CorpusStep
<1>1. UNCHANGED <<store.idHash, disk>>
  BY DEF SameDocs, SameRegistry
<1>2. EmptyStore' = EmptyStore
  BY DEF EmptyStore
<1> QED BY <1>1, <1>2 DEF CorpusStep

\* Steps that leave the documents as they are.
LEMMA RegistryAdd ==
  ASSUME MergesAlone(Uses), Registered, Shape', NEW c \in Clients,
         (\E batch \in Batches : AddStart(c, batch)) \/ AddPrepare(c) \/ AddFails(c) \/ AddLock(c) \/ AddUnlock(c)
  PROVE  Registered' /\ SameDocs(store, store') /\ disk' = disk
<1>1. TypeOK /\ store \in StoreObject /\ pc \in [Clients -> Labels] /\ pc[c] \in Labels /\ Fit(store) /\ Shape
  BY DEF Registered, Shape, TypeOK, Labels
<1>2. pc' = [pc EXCEPT ![c] = pc[c]] <=> pc' = pc
  BY <1>1
<1>3. SameDocs(store, store)
  BY DEF SameDocs, SameRegistry
<1>4. CASE \E batch \in Batches : AddStart(c, batch)
  <2>1. PICK batch \in Batches : AddStart(c, batch)
    BY <1>4
  <2>2. Idle(c, "add") /\ (pc' = pc \/ pc' = [pc EXCEPT ![c] = "preparing"]) /\ UNCHANGED <<store, disk>>
    BY <2>1 DEF AddStart, Goto
  <2>3. pc[c] = "idle" /\ (use.atOnce = 1 => \A b \in Clients : pc[b] = "idle")
    BY <1>1, <2>2, AloneInCall
  <2>4. PICK l \in {"idle", "preparing"} : pc' = [pc EXCEPT ![c] = l]
    BY <1>1, <1>2, <2>2, <2>3
  <2> QED BY <1>3, <2>2, <2>3, <2>4, RegistrySame DEF Labels
<1>5. CASE AddPrepare(c)
  <2>1. pc[c] = "preparing" /\ pc' = pc /\ UNCHANGED <<store, disk>>
    BY <1>5 DEF AddPrepare
  <2> QED BY <1>1, <1>2, <1>3, <2>1, RegistrySame
<1>6. CASE AddFails(c)
  <2>1. pc[c] = "preparing" /\ pc' = [pc EXCEPT ![c] = "idle"] /\ UNCHANGED <<store, disk>>
    BY <1>6 DEF AddFails, Return, Goto
  <2> QED BY <1>3, <2>1, RegistrySame DEF Labels
<1>7. CASE AddLock(c)
  <2>1. pc[c] = "preparing" /\ disk' = disk
        /\ \/ pc' = [pc EXCEPT ![c] = "idle"] /\ store' = store
           \/ pc' = [pc EXCEPT ![c] = "applying"] /\ store' = ensureSearchLocked(store)
    BY <1>7 DEF AddLock, Return, Goto
  <2>2. SameDocs(store, ensureSearchLocked(store))
    BY <1>1, EnsureSearch
  <2>3. PICK l \in {"idle", "applying"} : pc' = [pc EXCEPT ![c] = l]
    BY <2>1
  <2>4. SameDocs(store, store')
    BY <1>3, <2>1, <2>2
  <2> QED BY <2>1, <2>3, <2>4, RegistrySame DEF Labels
<1>8. CASE AddUnlock(c)
  <2>1. pc[c] = "applying" /\ disk' = disk /\ pc' = [pc EXCEPT ![c] = "idle"]
        /\ store' = reindexLocked(IF task[c].changed THEN shareVectorsLocked(store) ELSE store)
    BY <1>8 DEF AddUnlock, Return, Goto
  <2> DEFINE m == IF task[c].changed THEN shareVectorsLocked(store) ELSE store
  <2>2. m \in StoreObject /\ SameDocs(store, m)
    BY <1>1, <1>3, Share
  <2> HIDE DEF m
  <2>3. SameDocs(m, reindexLocked(m))
    BY <2>2, Reindexed
  <2>4. SameDocs(store, store')
    BY <2>1, <2>2, <2>3 DEF m, SameDocs, SameRegistry
  <2> QED BY <2>1, <2>4, RegistrySame DEF Labels
<1> QED BY <1>4, <1>5, <1>6, <1>7, <1>8

LEMMA RegistryOther ==
  ASSUME MergesAlone(Uses), Registered, Shape', NEW c \in Clients,
         \/ \E docs \in Batches : IngestStart(c, docs)
         \/ IngestPrepare(c) \/ IngestEnd(c) \/ MergeReindex(c) \/ RetrieveEnsure(c) \/ RetrieveSearch(c)
  PROVE  Registered' /\ SameDocs(store, store') /\ disk' = disk
<1>1. TypeOK /\ store \in StoreObject /\ pc \in [Clients -> Labels] /\ pc[c] \in Labels /\ Fit(store) /\ Shape
  BY DEF Registered, Shape, TypeOK, Labels
<1>2. pc' = [pc EXCEPT ![c] = pc[c]] <=> pc' = pc
  BY <1>1
<1>3. SameDocs(store, store)
  BY DEF SameDocs, SameRegistry
<1>4. SameDocs(store, ensureSearchLocked(store)) /\ SameDocs(store, ensureGraphLocked(store))
      /\ ensureGraphLocked(store) \in StoreObject
  BY <1>1, EnsureSearch, EnsureGraph
<1>5. SameDocs(store, reindexLocked(ensureGraphLocked(store)))
  <2> DEFINE m == ensureGraphLocked(store)
  <2>1. m \in StoreObject /\ SameDocs(store, m)
    BY <1>4
  <2> HIDE DEF m
  <2>2. SameDocs(m, reindexLocked(m))
    BY <2>1, Reindexed
  <2>3. SameDocs(store, reindexLocked(m))
    BY <2>1, <2>2 DEF SameDocs, SameRegistry
  <2> QED BY <2>3 DEF m
<1>6. CASE \E docs \in Batches : IngestStart(c, docs)
  <2>1. Idle(c, "ingest") /\ pc' = [pc EXCEPT ![c] = "ingesting"] /\ UNCHANGED <<store, disk>>
    BY <1>6 DEF IngestStart, Goto
  <2>2. pc[c] = "idle" /\ (use.atOnce = 1 => \A b \in Clients : pc[b] = "idle")
    BY <1>1, <2>1, AloneInCall
  <2> QED BY <1>3, <2>1, <2>2, RegistrySame DEF Labels
<1>7. CASE IngestPrepare(c)
  <2>1. pc[c] = "ingesting" /\ pc' = pc /\ UNCHANGED <<store, disk>>
    BY <1>7 DEF IngestPrepare
  <2> QED BY <1>1, <1>2, <1>3, <2>1, RegistrySame
<1>8. CASE IngestEnd(c) \/ MergeReindex(c)
  <2>1. pc[c] \in {"ingesting", "reindexing"} /\ pc' = [pc EXCEPT ![c] = "idle"] /\ disk' = disk
        /\ store' = reindexLocked(ensureGraphLocked(store))
    BY <1>8 DEF IngestEnd, MergeReindex, Return, Goto
  <2> QED BY <1>5, <2>1, RegistrySame DEF Labels
<1>9. CASE RetrieveEnsure(c)
  <2>1. (Idle(c, "retrieve") \/ Idle(c, "graph")) /\ disk' = disk
        /\ \/ pc' = [pc EXCEPT ![c] = "searching"] /\ store' = ensureSearchLocked(store)
           \/ pc' = [pc EXCEPT ![c] = "boosting"] /\ store' = ensureGraphLocked(store)
    BY <1>9 DEF RetrieveEnsure, Goto
  <2>2. pc[c] = "idle" /\ (use.atOnce = 1 => \A b \in Clients : pc[b] = "idle")
    BY <1>1, <2>1, AloneInCall
  <2>3. PICK l \in {"searching", "boosting"} : pc' = [pc EXCEPT ![c] = l]
    BY <2>1
  <2>4. SameDocs(store, store')
    BY <1>4, <2>1
  <2> QED BY <2>1, <2>2, <2>3, <2>4, RegistrySame DEF Labels
<1>10. CASE RetrieveSearch(c)
  <2>1. pc[c] \in {"searching", "boosting"} /\ pc' = [pc EXCEPT ![c] = "idle"] /\ UNCHANGED <<store, disk>>
    BY <1>10 DEF RetrieveSearch, Return, Goto
  <2> QED BY <1>3, <2>1, RegistrySame DEF Labels
<1> QED BY <1>6, <1>7, <1>8, <1>9, <1>10

\* A prepared document is put under its id, and its content was under no id, or nothing changes.
LEMMA AppliedFaithful ==
  ASSUME NEW m \in StoreObject, Fit(m), Faithful(m), NEW p \in Prep
  PROVE  LET n == applyPreparedLocked(m, p)
         IN  /\ Faithful(n)
             /\ \/ n.idHash = m.idHash
                \/ /\ n.idHash = [m.idHash EXCEPT ![p.id] = p.content]
                   /\ \A d \in Docs : m.idHash[d] # p.content
<1> DEFINE n == applyPreparedLocked(m, p)
<1>1. /\ n \in StoreObject
      /\ Rejected(m, p) => n.corpus = m.corpus /\ SameRegistry(m, n)
      /\ ~Rejected(m, p) =>
           /\ n.idHash = [m.idHash EXCEPT ![p.id] = p.content]
           /\ n.latest = [m.latest EXCEPT ![p.id] = p.content]
           /\ Holds(n.corpus, p.id, p.content)
           /\ \A d : d # p.id => /\ Own(m.corpus, d) = {} => Own(n.corpus, d) = {}
                                 /\ \A c : Holds(m.corpus, d, c) => Holds(n.corpus, d, c)
           /\ Paired(m) /\ (p.id \in m.docSet \/ m.idHash[p.id] = NULL) => Paired(n)
  BY Applied
<1> HIDE DEF n
<1>2. /\ m.idHash \in [Docs -> Contents \cup {NULL}] /\ m.latest \in [Docs -> Contents \cup {NULL}]
      /\ n.corpus \in Seq(Element) /\ m.corpus \in Seq(Element)
  BY <1>1, StoreFields
<1>3. CASE Rejected(m, p)
  <2>1. SameDocs(m, n)
    BY <1>1, <1>3 DEF SameDocs
  <2> QED BY <1>1, <2>1, SameFaithful DEF n, SameDocs, SameRegistry
<1>4. CASE ~Rejected(m, p)
  <2>1. p.id \in Docs /\ p.content \in Contents /\ p.content # NULL
    BY NullAssumption DEF Prep
  <2>2. Pieces[p.content] # <<>>
    <3>1. p.vecs # <<>> /\ p.vecs \in Seq(Texts) /\ Len(p.vecs) = Len(Pieces[p.content])
      BY <1>4 DEF Rejected, Prep
    <3> QED BY <3>1, <2>1, PiecesType
  <2>3. p.id \in m.docSet \/ m.idHash[p.id] = NULL
    <3> SUFFICES ASSUME m.idHash[p.id] # NULL PROVE p.id \in m.docSet
      OBVIOUS
    <3>1. Holds(m.corpus, p.id, m.idHash[p.id]) /\ Pieces[m.idHash[p.id]] # <<>> /\ m.idHash[p.id] \in Contents
      BY <1>2, <2>1 DEF Faithful, Kept
    <3>2. 1 \in DOMAIN Pieces[m.idHash[p.id]]
      BY <3>1, PiecesType
    <3>3. Own(m.corpus, p.id) # {}
      BY <3>1, <3>2 DEF Holds
    <3> QED BY <2>1, <3>3 DEF Fit
  <2>4. Paired(n)
    BY <1>1, <1>4, <2>3 DEF Faithful
  <2>5. n.latest = n.idHash
    BY <1>1, <1>4 DEF Faithful
  <2>6. \A d \in Docs : Kept(n.corpus, d, n.idHash[d])
    <3> TAKE d \in Docs
    <3>1. CASE d = p.id
      BY <1>1, <1>2, <1>4, <2>1, <2>2, <3>1 DEF Kept
    <3>2. CASE d # p.id
      <4>1. n.idHash[d] = m.idHash[d] /\ Kept(m.corpus, d, m.idHash[d])
        BY <1>1, <1>2, <1>4, <3>2 DEF Faithful
      <4> QED BY <1>1, <1>4, <3>2, <4>1 DEF Kept
    <3> QED BY <3>1, <3>2
  <2>7. ASSUME NEW d \in Docs, m.idHash[d] = p.content PROVE FALSE
    <3>1. m.hashes[p.content] = d
      BY <2>1, <2>7 DEF Faithful, Paired
    <3>2. d = p.id
      BY <1>4, <3>1, NullAssumption DEF Rejected
    <3>3. m.idHash[p.id] = p.content /\ p.id \in m.docSet
      BY <2>1, <2>3, <2>7, <3>2
    <3> QED BY <1>4, <3>3 DEF Rejected
  <2>8. Faithful(n)
    BY <2>4, <2>5, <2>6 DEF Faithful
  <2> QED BY <1>1, <1>4, <2>7, <2>8 DEF n
<1> QED BY <1>3, <1>4

LEMMA CorpusPut ==
  ASSUME NEW p \in Prep, disk' = disk, store'.idHash = [store.idHash EXCEPT ![p.id] = p.content],
         \A d \in Docs : store.idHash[d] # p.content
  PROVE  CorpusStep
<1>1. p.id \in Docs /\ p.content \in Contents
  BY DEF Prep
<1>2. EmptyStore' = EmptyStore
  BY DEF EmptyStore
<1>3. ~Registry!Held(p.content)
  BY DEF Registry!Held
<1>4. Registry!Put(p.id, p.content)
  BY <1>2, <1>3 DEF Registry!Put
<1>5. Registry!Next
  BY <1>1, <1>4 DEF Registry!Next
<1> QED BY <1>5 DEF CorpusStep

LEMMA RegistryApplied ==
  ASSUME MergesAlone(Uses), Registered, Shape', NEW c \in Clients, AddApply(c) \/ IngestApply(c)
  PROVE  Registered' /\ CorpusStep
<1>1. TypeOK /\ store \in StoreObject /\ pc \in [Clients -> Labels] /\ pc[c] \in Labels /\ Fit(store) /\ Shape
      /\ Fits(task[c])
  BY DEF Registered, Shape, TypeOK, Labels, Fits
<1>2. PICK p \in Prep : pc[c] \in {"applying", "ingesting"} /\ pc' = pc /\ disk' = disk
                        /\ store' = applyPreparedLocked(store, p)
  <2>1. CASE AddApply(c)
    <3>1. Head(task[c].preps) \in Prep
      BY <1>1, <2>1, TaskSteps DEF AddApply
    <3> QED BY <2>1, <3>1 DEF AddApply
  <2>2. CASE IngestApply(c)
    <3>1. PICK i \in DOMAIN task[c].preps : store' = applyPreparedLocked(store, task[c].preps[i])
      BY <2>2 DEF IngestApply
    <3>2. task[c].preps[i] \in Prep
      BY <1>1, <3>1, TaskSteps
    <3> QED BY <2>2, <3>1, <3>2 DEF IngestApply
  <2> QED BY <2>1, <2>2
<1>3. NoMerge /\ NoMerge'
  <2>1. NoMerge
    BY <1>1, <1>2, NoMergeBeside
  <2> QED BY <1>2, <2>1 DEF NoMerge
<1>4. Faithful(store)
  BY <1>3, RegistryQuiet
<1>5. /\ Faithful(store')
      /\ \/ store'.idHash = store.idHash
         \/ /\ store'.idHash = [store.idHash EXCEPT ![p.id] = p.content]
            /\ \A d \in Docs : store.idHash[d] # p.content
  BY <1>1, <1>2, <1>4, AppliedFaithful
<1>6. Registered'
  BY <1>2, <1>3, <1>5, RegistryStep DEF Registered
<1>7. EmptyStore' = EmptyStore
  BY DEF EmptyStore
<1>8. CASE store'.idHash = store.idHash
  BY <1>2, <1>6, <1>7, <1>8 DEF CorpusStep
<1> QED BY <1>2, <1>5, <1>6, <1>8, CorpusPut

LEMMA DeletedFaithful ==
  ASSUME NEW m \in StoreObject, Faithful(m), NEW d \in Docs
  PROVE  LET gone == [removeDocLocked(m, d) EXCEPT !.latest[d] = NULL]
             n == IF Len(gone.corpus) # Len(m.corpus) THEN reindexLocked(gone) ELSE gone
         IN  Faithful(n) /\ n.idHash = [m.idHash EXCEPT ![d] = NULL]
<1> DEFINE gone == [removeDocLocked(m, d) EXCEPT !.latest[d] = NULL]
           n == IF Len(gone.corpus) # Len(m.corpus) THEN reindexLocked(gone) ELSE gone
<1>1. /\ n.idHash = [m.idHash EXCEPT ![d] = NULL] /\ n.latest = [m.latest EXCEPT ![d] = NULL]
      /\ Paired(m) => Paired(n)
      /\ Own(n.corpus, d) = {}
      /\ \A e : e # d => /\ Own(m.corpus, e) = {} => Own(n.corpus, e) = {}
                         /\ \A c : Holds(m.corpus, e, c) => Holds(n.corpus, e, c)
  BY Deleted
<1> HIDE DEF n, gone
<1>2. m.idHash \in [Docs -> Contents \cup {NULL}]
  BY StoreFields
<1>3. \A e \in Docs : Kept(n.corpus, e, n.idHash[e])
  BY <1>1, <1>2 DEF Faithful, Kept
<1>4. Faithful(n)
  BY <1>1, <1>3 DEF Faithful
<1> QED BY <1>1, <1>4 DEF n, gone

LEMMA RegistryDeleted ==
  ASSUME MergesAlone(Uses), Registered, Shape', NEW c \in Clients, NEW d \in Docs, DeleteDocument(c, d)
  PROVE  Registered' /\ CorpusStep
<1>1. TypeOK /\ store \in StoreObject /\ Shape
  BY DEF Registered, Shape, TypeOK
<1>2. Idle(c, "delete") /\ pc' = pc /\ disk' = disk
  BY DEF DeleteDocument
<1>3. pc[c] = "idle" /\ (use.atOnce = 1 => \A b \in Clients : pc[b] = "idle")
  BY <1>1, <1>2, AloneInCall
<1>4. NoMerge /\ NoMerge'
  <2>1. NoMerge
    BY <1>1, <1>3, NoMergeBeside
  <2> QED BY <1>2, <2>1 DEF NoMerge
<1>5. Faithful(store)
  BY <1>4, RegistryQuiet
<1>6. Faithful(store') /\ store'.idHash = [store.idHash EXCEPT ![d] = NULL]
  BY <1>1, <1>5, DeletedFaithful DEF DeleteDocument
<1>7. Registered'
  BY <1>2, <1>4, <1>6, RegistryStep DEF Registered
<1>8. EmptyStore' = EmptyStore
  BY DEF EmptyStore
<1>9. Registry!Remove(d)
  BY <1>2, <1>6, <1>8 DEF Registry!Remove
<1>10. Registry!Next
  BY <1>9 DEF Registry!Next
<1> QED BY <1>7, <1>10 DEF CorpusStep

\* A registry paired with the hashes gives no content to two documents.
LEMMA PairedOnce ==
  ASSUME NEW m \in StoreObject, Paired(m)
  PROVE  \A d, e \in Docs : m.idHash[d] # NULL /\ m.idHash[d] = m.idHash[e] => d = e
<1>1. m.idHash \in [Docs -> Contents \cup {NULL}]
  BY StoreFields
<1> QED BY <1>1 DEF Paired

LEMMA RegistryBuilt ==
  ASSUME MergesAlone(Uses), Chunked(Uses), Registered, Shape', NEW c \in Clients, NEW docs \in Sources, Build(c, docs)
  PROVE  Registered' /\ CorpusStep
<1>1. TypeOK /\ store \in StoreObject /\ Shape /\ use \in Uses
  BY DEF Registered, Shape, TypeOK
<1>2. Idle(c, "build") /\ pc' = pc /\ disk' = disk
      /\ store' = reindexLocked(shareVectorsLocked(recordAll(appendChunksLocked(Blank(store), AllElements(docs)), docs)))
  BY DEF Build
<1>3. pc[c] = "idle" /\ (use.atOnce = 1 => \A b \in Clients : pc[b] = "idle") /\ "build" \in use.calls
  BY <1>1, <1>2, AloneInCall
<1>4. NoMerge /\ NoMerge'
  <2>1. NoMerge
    BY <1>1, <1>3, NoMergeBeside
  <2> QED BY <1>2, <2>1 DEF NoMerge
<1>5. docs \in Seq([id : Docs, content : Contents]) /\ Distinct(docs)
      /\ \A i \in DOMAIN docs : docs[i].content \in use.contents /\ docs[i].id \in Docs
  <2>1. docs \in Seq(Document) /\ Distinct(docs) /\ \A i \in DOMAIN docs : docs[i].content \in use.contents
    BY <1>1, SourceType
  <2>2. \A i \in DOMAIN docs : docs[i] \in Document
    BY <2>1, ElementOfSeq
  <2> QED BY <2>1, <2>2 DEF Document
<1>6. \A i \in DOMAIN docs : Pieces[docs[i].content] # <<>>
  BY <1>1, <1>3, <1>5, Chunked(Uses) DEF Chunked
<1>7. /\ store'.latest = store'.idHash
      /\ \A d \in Docs : (\A i \in DOMAIN docs : docs[i].id # d) => store'.idHash[d] = NULL /\ Own(store'.corpus, d) = {}
      /\ \A i \in DOMAIN docs : store'.idHash[docs[i].id] = docs[i].content
                                /\ Holds(store'.corpus, docs[i].id, docs[i].content)
      /\ Paired(store')
  BY <1>1, <1>2, <1>5, BuiltStore
<1>8. \A d \in Docs : Kept(store'.corpus, d, store'.idHash[d])
  <2> TAKE d \in Docs
  <2>1. CASE \E i \in DOMAIN docs : docs[i].id = d
    <3>1. PICK i \in DOMAIN docs : docs[i].id = d
      BY <2>1
    <3>2. docs[i].content # NULL
      <4>1. docs[i].content \in Contents
        BY <1>1, <1>5, UsesAssumption DEF Use
      <4> QED BY <4>1, NullAssumption
    <3> QED BY <1>6, <1>7, <3>1, <3>2 DEF Kept
  <2>2. CASE \A i \in DOMAIN docs : docs[i].id # d
    BY <1>7, <2>2 DEF Kept
  <2> QED BY <2>1, <2>2
<1>9. Faithful(store)'
  BY <1>7, <1>8 DEF Faithful
<1>10. Registered'
  BY <1>2, <1>4, <1>9, RegistryStep DEF Registered
<1>11. store' \in StoreObject
  BY DEF Shape, TypeOK
<1>12. Registry!Replace(store'.idHash)
  <2>1. \A d, e \in Docs : d # e /\ store'.idHash[d] # NULL => store'.idHash[d] # store'.idHash[e]
    BY <1>7, <1>11, PairedOnce
  <2>2. EmptyStore' = EmptyStore
    BY DEF EmptyStore
  <2> QED BY <1>2, <2>1, <2>2 DEF Registry!Replace
<1>13. store'.idHash \in [Docs -> Contents \cup {NULL}]
  BY <1>11, StoreFields
<1>14. Registry!Next
  BY <1>12, <1>13 DEF Registry!Next
<1> QED BY <1>10, <1>14 DEF CorpusStep

LEMMA RegistryDecided ==
  ASSUME MergesAlone(Uses), Chunked(Uses), Registered, Shape', NEW c \in Clients, NEW src \in Sources, MergeDecide(c, src)
  PROVE  Registered' /\ CorpusStep
<1> DEFINE I == {i \in DOMAIN src : ~Known(src[i])}
           t == Compacted(src, I)
<1>1. TypeOK /\ store \in StoreObject /\ Shape /\ use \in Uses /\ pc \in [Clients -> Labels] /\ task \in [Clients -> Task]
  BY DEF Registered, Shape, TypeOK, Labels
<1>2. Idle(c, "merge") /\ UNCHANGED <<store, disk>> /\ pc' = [pc EXCEPT ![c] = "merging"]
      /\ task' = [task EXCEPT ![c].todo = t]
  BY DEF MergeDecide, Goto
<1>3. pc[c] = "idle" /\ (use.atOnce = 1 => \A b \in Clients : pc[b] = "idle") /\ "merge" \in use.calls
  BY <1>1, <1>2, AloneInCall
<1>4. NoMerge
  BY <1>1, <1>3, NoMergeBeside
<1>5. Faithful(store)
  BY <1>4, RegistryQuiet
<1>6. src \in Seq(Document) /\ Distinct(src) /\ \A i \in DOMAIN src : src[i].content \in use.contents
  BY <1>1, SourceType
<1>7. /\ \A n \in DOMAIN t : t[n] = src[Ordered(I)[n]] /\ Ordered(I)[n] \in I /\ n \in Nat
      /\ \A m, n \in DOMAIN t : m < n <=> Ordered(I)[m] < Ordered(I)[n]
      /\ I \in SUBSET Nat
  <2>1. I \in SUBSET DOMAIN src
    OBVIOUS
  <2> HIDE DEF I
  <2> QED BY <1>6, <2>1, Compacts
<1>8. task'[c].todo = t
  BY <1>1, <1>2 DEF Task
<1> HIDE DEF t
<1>9. Distinct(t)
  <2> SUFFICES ASSUME NEW m \in DOMAIN t, NEW n \in DOMAIN t, m # n
               PROVE  t[m].id # t[n].id /\ t[m].content # t[n].content
    BY DEF Distinct
  <2>1. m \in Nat /\ n \in Nat /\ Ordered(I)[m] \in I /\ Ordered(I)[n] \in I
    BY <1>7
  <2>2. Ordered(I)[m] # Ordered(I)[n]
    <3>1. Ordered(I)[m] \in Nat /\ Ordered(I)[n] \in Nat
      BY <1>7, <2>1
    <3>2. m < n \/ n < m
      BY <2>1
    <3>3. (m < n => Ordered(I)[m] < Ordered(I)[n]) /\ (n < m => Ordered(I)[n] < Ordered(I)[m])
      BY ZenonT(30), <1>7
    <3> QED BY <3>1, <3>2, <3>3
  <2> QED BY <1>6, <1>7, <2>1, <2>2 DEF Distinct
<1>10. \A n \in DOMAIN t : store.idHash[t[n].id] = NULL /\ store.hashes[t[n].content] = NULL /\ Pieces[t[n].content] # <<>>
  <2> TAKE n \in DOMAIN t
  <2>1. t[n] = src[Ordered(I)[n]] /\ Ordered(I)[n] \in DOMAIN src /\ ~Known(src[Ordered(I)[n]])
    BY <1>7
  <2>2. t[n].content \in use.contents
    BY <1>6, <2>1
  <2>3. Pieces[t[n].content] # <<>>
    BY <1>1, <1>3, <2>2, Chunked(Uses) DEF Chunked
  <2> QED BY <2>1, <2>3 DEF Known
<1>11. \A b \in Clients : pc'[b] \in {"merging", "recording"} => b = c /\ pc'[b] = "merging"
  BY <1>1, <1>2, <1>4 DEF NoMerge
<1>12. Merging'
  BY <1>2, <1>8, <1>9, <1>10, <1>11 DEF Merging
<1>13. \A d \in Docs : (~Pending(d) => Kept(store.corpus, d, store.idHash[d]))'
  BY <1>2, <1>5 DEF Faithful
<1>14. SavedFaithful'
  BY <1>2 DEF Registered, SavedFaithful
<1>15. Registered'
  BY <1>2, <1>5, <1>12, <1>13, <1>14 DEF Registered, Faithful, Paired
<1>16. SameDocs(store, store')
  BY <1>2 DEF SameDocs, SameRegistry
<1> QED BY <1>2, <1>15, <1>16, NoCorpusStep

LEMMA RegistryAppended ==
  ASSUME MergesAlone(Uses), Registered, Shape', NEW c \in Clients, MergeAppend(c)
  PROVE  Registered' /\ CorpusStep
<1> DEFINE docs == task[c].todo
           els == AllElements(docs)
<1>1. TypeOK /\ store \in StoreObject /\ store' \in StoreObject /\ Shape /\ pc \in [Clients -> Labels]
      /\ task \in [Clients -> Task]
  BY DEF Registered, Shape, TypeOK, Labels
<1>2. pc[c] = "merging" /\ UNCHANGED <<disk, task>> /\ pc' = [pc EXCEPT ![c] = "recording"]
      /\ store' = IF els = <<>> THEN store
                  ELSE shareVectorsLocked(appendChunksLocked(
                         IF store.index = NULL THEN initIndexes(store) ELSE store, els))
  BY DEF MergeAppend, Goto
<1>3. docs \in Seq([id : Docs, content : Contents])
  BY <1>1 DEF Task
<1>4. /\ store'.hashes = store.hashes /\ store'.idHash = store.idHash /\ store'.latest = store.latest
      /\ ChunksOf(store'.corpus) = ChunksOf(store.corpus \o els)
  BY <1>1, <1>2, <1>3, MergedStore
<1>5. /\ Distinct(docs)
      /\ \A i \in DOMAIN docs : store.idHash[docs[i].id] = NULL /\ store.hashes[docs[i].content] = NULL
                                /\ Pieces[docs[i].content] # <<>>
  BY <1>2 DEF Registered, Merging
<1>6. /\ els \in Seq(Element)
      /\ \A i \in DOMAIN docs : Holds(els, docs[i].id, docs[i].content)
      /\ \A e : (\A i \in DOMAIN docs : docs[i].id # e) => Own(els, e) = {}
  BY <1>3, <1>5, HoldsAll
<1>7. \A b \in Clients : b # c => pc[b] = "idle"
  BY <1>1, <1>2, MergeAlone
<1>8. \A d \in Docs : Kept(store.corpus, d, store.idHash[d])
  <2>1. \A d \in Docs : ~Pending(d)
    BY <1>2, <1>7 DEF Pending
  <2> QED BY <2>1 DEF Registered
<1>9. store.corpus \in Seq(Element) /\ store'.corpus \in Seq(Element) /\ store.corpus \o els \in Seq(Element)
  BY <1>1, <1>6, StoreFields
<1> HIDE DEF docs, els
<1>10. \A i \in DOMAIN docs : docs[i].id \in Docs
  <2>1. \A i \in DOMAIN docs : docs[i] \in [id : Docs, content : Contents]
    <3>1. DOMAIN docs = 1..Len(docs)
      BY <1>3
    <3> QED BY <1>3, <3>1, ElementOfSeq
  <2> QED BY <2>1
<1>11. \A d \in Docs : \A x : Own(els, d) = {} /\ Kept(store.corpus, d, x) => Kept(store'.corpus, d, x)
  <2> SUFFICES ASSUME NEW d \in Docs, NEW x, Own(els, d) = {}, Kept(store.corpus, d, x)
               PROVE  Kept(store'.corpus, d, x)
    OBVIOUS
  <2>1. Own(store.corpus, d) = {} => Own(store.corpus \o els, d) = {}
    BY <1>6, <1>9, OwnAppended
  <2>2. Holds(store.corpus, d, x) => Holds(store.corpus \o els, d, x)
    BY <1>6, <1>9, HoldsBefore
  <2>3. Kept(store.corpus \o els, d, x)
    BY <2>1, <2>2 DEF Kept
  <2> QED BY <1>4, <1>9, <2>3, HoldsSame DEF Kept
<1>12. \A i \in DOMAIN docs : Holds(store'.corpus, docs[i].id, docs[i].content)
  <2> TAKE i \in DOMAIN docs
  <2>1. Own(store.corpus, docs[i].id) = {}
    BY <1>5, <1>8, <1>10 DEF Kept
  <2>2. Holds(store.corpus \o els, docs[i].id, docs[i].content)
    BY <1>6, <1>9, <2>1, HoldsAfter
  <2> QED BY <1>4, <1>9, <2>2, HoldsSame
<1>13. pc'[c] = "recording" /\ task'[c].todo = docs /\ \A b \in Clients : b # c => pc'[b] = "idle"
  BY <1>1, <1>2, <1>7 DEF docs
<1>14. \A d \in Docs : (~Pending(d) => Kept(store.corpus, d, store.idHash[d]))'
  <2> SUFFICES ASSUME NEW d \in Docs, ~Pending(d)' PROVE Kept(store'.corpus, d, store'.idHash[d])
    BY DEF Kept, Holds, Own
  <2>1. \A i \in DOMAIN docs : docs[i].id # d
    BY <1>13 DEF Pending
  <2>2. Own(els, d) = {}
    BY <1>6, <2>1
  <2> QED BY <1>4, <1>8, <1>11, <2>2
<1>15. Merging'
  <2> SUFFICES ASSUME NEW b \in Clients, pc'[b] \in {"merging", "recording"}
               PROVE  /\ Distinct(task'[b].todo)
                      /\ \A i \in DOMAIN task'[b].todo :
                           LET t == task'[b].todo[i]
                           IN  /\ store'.idHash[t.id] = NULL /\ store'.hashes[t.content] = NULL
                               /\ Pieces[t.content] # <<>>
                               /\ pc'[b] = "recording" => Holds(store'.corpus, t.id, t.content)
    BY DEF Merging
  <2>1. task'[b].todo = docs
    BY <1>13
  <2> QED BY <1>4, <1>5, <1>12, <2>1
<1>16. SavedFaithful'
  BY <1>2 DEF Registered, SavedFaithful
<1>17. Paired(store') /\ store'.latest = store'.idHash
  BY <1>4 DEF Registered, Paired
<1>18. Registered'
  BY <1>14, <1>15, <1>16, <1>17 DEF Registered
<1>19. EmptyStore' = EmptyStore
  BY DEF EmptyStore
<1> QED BY <1>2, <1>4, <1>18, <1>19 DEF CorpusStep

LEMMA RegistryRecorded ==
  ASSUME MergesAlone(Uses), Registered, Shape', NEW c \in Clients, MergeRecord(c)
  PROVE  Registered' /\ CorpusStep
<1> DEFINE docs == task[c].todo
<1>1. TypeOK /\ store \in StoreObject /\ store' \in StoreObject /\ Shape /\ pc \in [Clients -> Labels]
      /\ task \in [Clients -> Task]
  BY DEF Registered, Shape, TypeOK, Labels
<1>2. pc[c] = "recording" /\ UNCHANGED <<disk, task>> /\ pc' = [pc EXCEPT ![c] = "reindexing"]
      /\ store' = recordAll(store, docs)
  BY DEF MergeRecord, Goto
<1>3. docs \in Seq([id : Docs, content : Contents])
  BY <1>1 DEF Task
<1>4. /\ Distinct(docs)
      /\ \A i \in DOMAIN docs : /\ store.idHash[docs[i].id] = NULL /\ store.hashes[docs[i].content] = NULL
                                /\ Pieces[docs[i].content] # <<>>
                                /\ Holds(store.corpus, docs[i].id, docs[i].content)
  BY <1>2 DEF Registered, Merging
<1>5. Paired(store) /\ store.latest = store.idHash /\ SavedFaithful
  BY DEF Registered
<1> HIDE DEF docs
<1>6. /\ store'.corpus = store.corpus
      /\ store'.latest = store'.idHash
      /\ \A d \in Docs : (\A i \in DOMAIN docs : docs[i].id # d) => store'.idHash[d] = store.idHash[d]
      /\ \A i \in DOMAIN docs : store'.idHash[docs[i].id] = docs[i].content
      /\ Paired(store')
  BY <1>1, <1>2, <1>3, <1>4, <1>5, RecordedAll
<1>7. \A b \in Clients : b # c => pc[b] = "idle"
  BY <1>1, <1>2, MergeAlone
<1>8. \A d \in Docs : (\A i \in DOMAIN docs : docs[i].id # d) => ~Pending(d)
  BY <1>2, <1>7 DEF Pending, docs
<1>9. \A i \in DOMAIN docs : docs[i].id \in Docs /\ docs[i].content \in Contents /\ docs[i].content # NULL
  <2>1. \A i \in DOMAIN docs : docs[i] \in [id : Docs, content : Contents]
    <3>1. DOMAIN docs = 1..Len(docs)
      BY <1>3
    <3> QED BY <1>3, <3>1, ElementOfSeq
  <2> QED BY <2>1, NullAssumption
<1>10. \A d \in Docs : Kept(store'.corpus, d, store'.idHash[d])
  <2> TAKE d \in Docs
  <2>1. CASE \E i \in DOMAIN docs : docs[i].id = d
    BY <1>4, <1>6, <1>9, <2>1 DEF Kept
  <2>2. CASE \A i \in DOMAIN docs : docs[i].id # d
    BY <1>6, <1>8, <2>2 DEF Registered
  <2> QED BY <2>1, <2>2
<1>11. NoMerge'
  BY <1>1, <1>2, <1>7 DEF NoMerge
<1>12. Faithful(store)'
  BY <1>6, <1>10 DEF Faithful
<1>13. Registered'
  BY <1>2, <1>5, <1>11, <1>12, RegistryStep
<1> DEFINE src == [d \in Docs |-> IF \E i \in DOMAIN docs : docs[i].id = d THEN store'.idHash[d] ELSE NULL]
<1>14. store'.idHash \in [Docs -> Contents \cup {NULL}] /\ store.idHash \in [Docs -> Contents \cup {NULL}]
  BY <1>1, StoreFields
<1>15. src \in [Docs -> Contents \cup {NULL}]
  BY <1>14
<1>16. ASSUME NEW d \in Docs, src[d] # NULL
       PROVE  /\ store.idHash[d] = NULL /\ ~Registry!Held(src[d])
              /\ \A e \in Docs \ {d} : src[e] # src[d]
  <2>1. PICK i \in DOMAIN docs : docs[i].id = d
    BY <1>16
  <2>2. src[d] = docs[i].content
    BY <1>6, <2>1
  <2>3. ASSUME NEW e \in Docs, store.idHash[e] = docs[i].content PROVE FALSE
    <3>1. store.hashes[docs[i].content] = e
      BY <1>5, <1>9, <2>3 DEF Paired
    <3> QED BY <1>4, <3>1, NullAssumption
  <2>4. ~Registry!Held(src[d])
    BY <2>2, <2>3 DEF Registry!Held
  <2>5. ASSUME NEW e \in Docs \ {d}, src[e] = src[d] PROVE FALSE
    <3>1. store'.idHash[e] = store'.idHash[d] /\ store'.idHash[d] # NULL
      BY <1>16, <2>1, <2>5
    <3> QED BY <1>1, <1>6, <3>1, PairedOnce
  <2> QED BY <1>4, <2>1, <2>4, <2>5
<1>17. store'.idHash = [d \in Docs |-> IF src[d] # NULL THEN src[d] ELSE store.idHash[d]]
  <2>1. ASSUME NEW d \in Docs PROVE store'.idHash[d] = IF src[d] # NULL THEN src[d] ELSE store.idHash[d]
    <3>1. CASE \E i \in DOMAIN docs : docs[i].id = d
      BY <1>6, <1>9, <3>1
    <3>2. CASE \A i \in DOMAIN docs : docs[i].id # d
      BY <1>6, <3>2
    <3> QED BY <3>1, <3>2
  <2> HIDE DEF src
  <2> QED BY <1>14, <2>1
<1> HIDE DEF src
<1>18. EmptyStore' = EmptyStore
  BY DEF EmptyStore
<1>19. Registry!Absorb(src)
  BY <1>2, <1>16, <1>17, <1>18 DEF Registry!Absorb
<1>20. Registry!Next
  BY <1>15, <1>19 DEF Registry!Next
<1> QED BY <1>13, <1>20 DEF CorpusStep

LEMMA RegistrySaved ==
  ASSUME MergesAlone(Uses), Registered, Shape', NEW mode \in use.modes, Save(mode)
  PROVE  Registered' /\ CorpusStep
<1>1. TypeOK /\ store \in StoreObject /\ Shape /\ disk' \in Snapshot \cup {NULL} /\ use \in Uses /\ IsFiniteSet(Clients)
  BY ClientsAssumption DEF Registered, Shape, TypeOK
<1>2. /\ UNCHANGED <<store, writer, pc, task>>
      /\ disk' = [corpus |-> store.corpus, idHash |-> store.idHash, latest |-> store.latest,
                  links |-> hnswSnapshot, mode |-> mode]
      /\ \/ Cardinality({b \in Clients : pc[b] # "idle"}) < use.atOnce
         \/ \E c \in Clients : pc[c] = "ingesting"
  BY DEF Save
<1>3. disk'.corpus = store.corpus /\ disk'.idHash = store.idHash /\ disk'.latest = store.latest
  BY <1>2
<1>4. disk' # NULL
  <2>1. store.index # NULL /\ mode \in {"exact", "codes", "none"}
    BY <1>1, UsesAssumption DEF Save, Use
  <2> QED BY <1>1, <1>2, <2>1, SavedType, NullAssumption
<1>5. NoMerge
  <2> SUFFICES ASSUME NEW c \in Clients, pc[c] \in {"merging", "recording"} PROVE FALSE
    BY DEF NoMerge
  <2>1. use.atOnce = 1
    BY <1>1, MergesAlone(Uses) DEF MergesAlone, Shape, InCall
  <2>2. \A b \in Clients : b # c => pc[b] = "idle"
    BY <1>1, MergeAlone
  <2>3. Cardinality({b \in Clients : pc[b] # "idle"}) < 1
    BY <1>2, <2>1, <2>2
  <2> DEFINE B == {b \in Clients : pc[b] # "idle"}
  <2>4. B = {c}
    BY <2>2
  <2>5. Cardinality({c}) = 1
    BY FS_Singleton
  <2> QED BY <2>3, <2>4, <2>5
<1>6. Faithful(store)
  BY <1>5, RegistryQuiet
<1>7. SavedFaithful'
  <2>1. \A d, e \in Docs : store.idHash[d] # NULL /\ store.idHash[d] = store.idHash[e] => d = e
    BY <1>1, <1>6, PairedOnce DEF Faithful
  <2> QED BY <1>3, <1>6, <2>1 DEF SavedFaithful, Faithful
<1>8. \A d \in Docs : (~Pending(d) => Kept(store.corpus, d, store.idHash[d]))'
  BY <1>2, <1>6 DEF Faithful
<1>9. Merging'
  BY <1>2, <1>5 DEF Merging, NoMerge
<1>10. Registered'
  BY <1>2, <1>6, <1>7, <1>8, <1>9 DEF Registered, Faithful
<1>11. Registry!Save
  BY <1>2, <1>3, <1>4 DEF Registry!Save
<1> QED BY <1>10, <1>11 DEF CorpusStep, Registry!Next

LEMMA EmptyFaithful == Faithful(EmptyStore)
<1>1. \A d \in Docs : EmptyStore.idHash[d] = NULL
  BY Emptied
<1> QED BY <1>1, Emptied DEF Faithful, Kept

LEMMA RegistryRestarted ==
  ASSUME Registered, Shape', Restart
  PROVE  Registered' /\ CorpusStep
<1>1. /\ pc' = [c \in Clients |-> "idle"] /\ disk' = disk
      /\ IF disk = NULL THEN store' = EmptyStore
         ELSE \E owners \in Owners(disk) : store' = Loaded(disk, owners)
  BY DEF Restart
<1>2. SavedFaithful /\ disk \in Snapshot \cup {NULL} /\ store' \in StoreObject
  BY DEF Registered, Shape, TypeOK
<1>3. NoMerge'
  BY <1>1 DEF NoMerge
<1>4. Faithful(store') /\ store'.idHash = IF disk = NULL THEN EmptyStore.idHash ELSE disk.idHash
  <2>1. CASE disk = NULL
    BY <1>1, <2>1, EmptyFaithful
  <2>2. CASE disk # NULL
    <3>1. PICK owners \in Owners(disk) : store' = Loaded(disk, owners)
      BY <1>1, <2>2
    <3>2. /\ disk.corpus = <<>> => store' = EmptyStore
          /\ disk.corpus # <<>> => store'.idHash = disk.idHash /\ store'.latest = disk.latest /\ store'.deferIndex
          /\ ChunksOf(store'.corpus) = ChunksOf(disk.corpus)
          /\ (\A d, e \in Docs : disk.idHash[d] # NULL /\ disk.idHash[d] = disk.idHash[e] => d = e) => Paired(store')
      BY <1>2, <2>2, <3>1, LoadedStore
    <3>3. /\ \A d, e \in Docs : disk.idHash[d] # NULL /\ disk.idHash[d] = disk.idHash[e] => d = e
          /\ disk.latest = disk.idHash
          /\ \A d \in Docs : Kept(disk.corpus, d, disk.idHash[d])
      BY <1>2, <2>2 DEF SavedFaithful
    <3>4. disk.corpus \in Seq(Element) /\ disk.idHash \in [Docs -> Contents \cup {NULL}] /\ store'.corpus \in Seq(Element)
      BY <1>2, <2>2, StoreFields DEF Snapshot
    <3>5. CASE disk.corpus = <<>>
      <4>1. ASSUME NEW d \in Docs, disk.idHash[d] # NULL PROVE FALSE
        <5>1. Holds(disk.corpus, d, disk.idHash[d]) /\ Pieces[disk.idHash[d]] # <<>> /\ disk.idHash[d] \in Contents
          BY <3>3, <3>4, <4>1 DEF Kept
        <5>2. 1 \in DOMAIN Pieces[disk.idHash[d]]
          BY <5>1, PiecesType
        <5>3. Own(disk.corpus, d) # {}
          BY <5>1, <5>2 DEF Holds
        <5> QED BY <3>5, <5>3 DEF Own
      <4>2. disk.idHash = [d \in Docs |-> NULL]
        BY <3>4, <4>1
      <4> QED BY <2>2, <3>2, <3>5, <4>2, Emptied, EmptyFaithful
    <3>6. CASE disk.corpus # <<>>
      <4>1. \A d \in Docs : Kept(store'.corpus, d, disk.idHash[d])
        BY <3>2, <3>3, <3>4, HoldsSame DEF Kept
      <4> QED BY <2>2, <3>2, <3>3, <3>6, <4>1 DEF Faithful
    <3> QED BY <3>5, <3>6
  <2> QED BY <2>1, <2>2
<1>5. Registered'
  BY <1>1, <1>2, <1>3, <1>4, RegistryStep
<1>6. EmptyStore' = EmptyStore
  BY DEF EmptyStore
<1>7. Registry!Reopen
  BY <1>1, <1>4, <1>6 DEF Registry!Reopen
<1> QED BY <1>5, <1>7 DEF CorpusStep, Registry!Next

LEMMA RegistryNext == ASSUME MergesAlone(Uses), Chunked(Uses) PROVE Registered /\ [Next]_vars => Registered' /\ CorpusStep
<1> SUFFICES ASSUME Registered, [Next]_vars PROVE Registered' /\ CorpusStep
  OBVIOUS
<1>1. Shape'
  BY ShapeNext DEF Registered
<1>2. CASE UNCHANGED vars
  <2>1. SameDocs(store, store') /\ disk' = disk
    BY <1>2 DEF vars, SameDocs, SameRegistry
  <2>2. Registered'
    BY <1>1, <1>2 DEF vars, Registered, Paired, Pending, Merging, SavedFaithful
  <2> QED BY <2>1, <2>2, NoCorpusStep
<1>3. CASE Next
  <2>1. CASE \E c \in Clients : Call(c)
    <3>1. PICK c \in Clients : Call(c)
      BY <2>1
    <3>2. CASE (\E batch \in Batches : AddStart(c, batch)) \/ AddPrepare(c) \/ AddFails(c) \/ AddLock(c) \/ AddUnlock(c)
      BY <1>1, <3>2, RegistryAdd, NoCorpusStep
    <3>3. CASE \/ \E docs \in Batches : IngestStart(c, docs)
               \/ IngestPrepare(c) \/ IngestEnd(c) \/ MergeReindex(c) \/ RetrieveEnsure(c) \/ RetrieveSearch(c)
      BY <1>1, <3>3, RegistryOther, NoCorpusStep
    <3>4. CASE AddApply(c) \/ IngestApply(c)
      BY <1>1, <3>4, RegistryApplied
    <3>5. CASE \E d \in Docs : DeleteDocument(c, d)
      BY <1>1, <3>5, RegistryDeleted
    <3>6. CASE \E docs \in Sources : Build(c, docs)
      BY <1>1, <3>6, RegistryBuilt
    <3>7. CASE \E src \in Sources : MergeDecide(c, src)
      BY <1>1, <3>7, RegistryDecided
    <3>8. CASE MergeAppend(c)
      BY <1>1, <3>8, RegistryAppended
    <3>9. CASE MergeRecord(c)
      BY <1>1, <3>9, RegistryRecorded
    <3> QED BY <3>1, <3>2, <3>3, <3>4, <3>5, <3>6, <3>7, <3>8, <3>9 DEF Call
  <2>2. CASE \E mode \in use.modes : Save(mode)
    BY <1>1, <2>2, RegistrySaved
  <2>3. CASE Restart
    BY <1>1, <2>3, RegistryRestarted
  <2> QED BY <1>3, <2>1, <2>2, <2>3 DEF Next
<1> QED BY <1>2, <1>3

LEMMA RegistryInit == Init => Registered /\ Registry!Init
<1> SUFFICES ASSUME Init PROVE Registered /\ Registry!Init
  OBVIOUS
<1>1. Shape /\ store = EmptyStore /\ disk = NULL /\ \A c \in Clients : pc[c] = "idle"
  BY ShapeInit DEF Init
<1>2. Merging /\ SavedFaithful
  BY <1>1 DEF Merging, SavedFaithful
<1>3. Registered
  BY <1>1, <1>2, EmptyFaithful DEF Registered, Faithful
<1>4. Registry!Init
  BY <1>1, Emptied DEF Registry!Init, Registry!Nothing
<1> QED BY <1>3, <1>4

LEMMA RegistryHeld == Registered => CorpusIsRegistry
<1> SUFFICES ASSUME Registered PROVE CorpusIsRegistry
  OBVIOUS
<1>1. TypeOK /\ store \in StoreObject /\ Fit(store)
  BY DEF Registered, Shape, TypeOK
<1>2. HashesAgree /\ LatestIsCurrent
  BY DEF Registered, Paired, HashesAgree, LatestIsCurrent
<1>3. store.corpus \in Seq(Element) /\ store.idHash \in [Docs -> Contents \cup {NULL}]
  BY <1>1, StoreFields
<1>4. ASSUME \A c \in Clients : pc[c] # "recording", NEW d \in Docs
      PROVE  LET own == Compacted(store.corpus, {i \in DOMAIN store.corpus : store.corpus[i].doc = d})
             IN  IF store.idHash[d] = NULL THEN own = <<>> /\ d \notin store.docSet
                 ELSE [i \in DOMAIN own |-> own[i].text] = Pieces[store.idHash[d]]
                      /\ \A i \in DOMAIN own : own[i].pos = i
  <2>1. Kept(store.corpus, d, store.idHash[d])
    BY <1>4 DEF Registered, Pending
  <2>2. Own(store.corpus, d) \in SUBSET DOMAIN store.corpus
    BY DEF Own
  <2> DEFINE own == Compacted(store.corpus, Own(store.corpus, d))
  <2>3. CASE store.idHash[d] = NULL
    <3>1. Own(store.corpus, d) = {}
      BY <2>1, <2>3 DEF Kept
    <3>2. own \in Seq(Element) /\ Len(own) = Cardinality({})
      BY <1>3, <2>2, <3>1, Compacts
    <3>3. own = <<>>
      BY <3>2, FS_EmptySet, EmptyArray
    <3>4. d \notin store.docSet
      BY <1>1, <3>1 DEF Fit
    <3> QED BY <2>3, <3>3, <3>4 DEF Own
  <2>4. CASE store.idHash[d] # NULL
    <3>1. Holds(store.corpus, d, store.idHash[d]) /\ store.idHash[d] \in Contents
      BY <1>3, <2>1, <2>4 DEF Kept
    <3>2. [i \in DOMAIN own |-> own[i].text] = Pieces[store.idHash[d]] /\ \A i \in DOMAIN own : own[i].pos = i
      BY <1>3, <3>1, HoldsExactly
    <3> QED BY <2>4, <3>2 DEF Own
  <2> QED BY <2>3, <2>4
<1> QED BY <1>1, <1>2, <1>4 DEF CorpusIsRegistry

\* Whatever calls are made, in whatever order their critical sections come, and whenever
\* the process is restarted, the arrays hold exactly the chunks of the current content of
\* each registered document and the two registries of hashes are inverse (rag/store.go:66
\* ff, rag/update.go), if a merge is the only call in progress and no document without
\* chunks is built or merged.
THEOREM RegistryHolds == ASSUME MergesAlone(Uses), Chunked(Uses) PROVE Spec => []CorpusIsRegistry
<1>1. Spec => []Registered
  <2>1. Init => Registered
    BY RegistryInit
  <2>2. Registered /\ [Next]_vars => Registered'
    BY RegistryNext
  <2> QED BY <2>1, <2>2, PTL DEF Spec
<1>2. Registered => CorpusIsRegistry
  BY RegistryHeld
<1> QED BY <1>1, <1>2, PTL

\* Under the same conditions every step of the store is, seen through the registry, one
\* call of Corpus or none: identical content is a no-op (store.go:349), a call changes the
\* document it is about, a merge takes over what is new, and a restart brings back the
\* last save.
THEOREM Implements == ASSUME MergesAlone(Uses), Chunked(Uses) PROVE Spec => ImplementsCorpus
<1>1. Init => Registered /\ Registry!Init
  BY RegistryInit
<1>2. Registered /\ [Next]_vars => Registered' /\ CorpusStep
  BY RegistryNext
<1>3. CorpusStep => [Registry!Next]_<<store.idHash, IF disk = NULL THEN EmptyStore.idHash ELSE disk.idHash>>
  BY DEF CorpusStep
<1> QED BY <1>1, <1>2, <1>3, PTL DEF Spec, ImplementsCorpus, Registry!Spec

-----------------------------------------------------------------------------
(* The three copies of a vector.                                            *)

\* Every link was computed for the vector it leads to, and an index that is not to be
\* rebuilt is that of the arrays.
Current(m) ==
  /\ m.index # NULL => \A i \in DOMAIN m.index : m.index[i].link = m.index[i].vec
  /\ ~m.deferIndex /\ ~m.needsRebuild /\ m.index # NULL => m.index = Indexed(m.corpus)

\* Vectors that were read from disk are those of arrays of their length.
ReadFor(v, s) == Len(s) = Len(v) => \A i \in DOMAIN s : v[i] = s[i].vec

Linked(m) ==
  /\ Current(m)
  /\ m.deferIndex => /\ m.savedLinks # NULL => ReadFor(m.savedLinks, m.corpus)
                     /\ m.flat # NULL => ReadFor(m.flat, m.corpus)

\* What was read is that of arrays that are only made shorter, or only made longer.
Shrinking(m) ==
  /\ m.savedLinks # NULL => Len(m.corpus) <= Len(m.savedLinks)
  /\ m.flat # NULL => Len(m.corpus) <= Len(m.flat)

Extending(m) ==
  /\ m.savedLinks # NULL => Len(m.savedLinks) <= Len(m.corpus)
  /\ m.flat # NULL => Len(m.flat) <= Len(m.corpus)
  /\ m.index # NULL /\ Len(m.index) < Len(m.corpus)

LEMMA SameCurrent ==
  ASSUME NEW m, NEW n, n.corpus = m.corpus, n.index = m.index, n.needsRebuild = m.needsRebuild,
         n.deferIndex = m.deferIndex, Current(m)
  PROVE  Current(n)
  BY DEF Current

\* An index that was just built is of the arrays, so sharing its vectors changes nothing.
LEMMA CurrentFresh ==
  ASSUME NEW m \in StoreObject, m.index = Indexed(m.corpus)
  PROVE  m.index # NULL /\ Current(m) /\ shareVectorsLocked(m) = m
<1>1. m.corpus \in Seq(Element)
  BY StoreFields
<1>2. /\ m.index \in Seq(Entry) /\ Len(m.index) = Len(m.corpus) /\ Matches(m.index, m.corpus)
      /\ \A i \in DOMAIN m.corpus : m.index[i].link = m.corpus[i].vec
  BY <1>1, IndexedType
<1>3. m.index # NULL
  BY <1>2, NullAssumption
<1>4. shareVectorsLocked(m) = m
  BY <1>2, <1>3, Share
<1>5. Current(m)
  BY <1>2 DEF Current, Matches
<1> QED BY <1>3, <1>4, <1>5

LEMMA CurrentShared ==
  ASSUME NEW m \in StoreObject, Current(m), ~m.deferIndex
  PROVE  LET n == shareVectorsLocked(m)
         IN  /\ n \in StoreObject /\ SameDocs(m, n) /\ Current(n) /\ ~n.deferIndex
             /\ (m.index # NULL /\ m.needsRebuild => Len(m.index) # Len(m.corpus)) => n.corpus = m.corpus
<1> DEFINE n == shareVectorsLocked(m)
<1>1. /\ n \in StoreObject /\ SameDocs(m, n) /\ n = [m EXCEPT !.corpus = n.corpus]
      /\ m.index # NULL /\ Len(m.index) # Len(m.corpus) => n = m
  BY Share
<1>2. m.index = NULL => n = m
  BY DEF shareVectorsLocked
<1>3. m.index # NULL /\ ~m.needsRebuild => n = m
  BY CurrentFresh DEF Current
<1> HIDE DEF n
<1>4. n.index = m.index /\ n.needsRebuild = m.needsRebuild /\ n.deferIndex = m.deferIndex
  BY <1>1 DEF StoreObject
<1>5. CASE n = m
  BY <1>1, <1>5 DEF n
<1>6. CASE n # m
  <2>1. m.index # NULL /\ m.needsRebuild /\ Len(m.index) = Len(m.corpus)
    BY <1>1, <1>2, <1>3, <1>6
  <2>2. Current(n)
    BY <1>4, <2>1 DEF Current
  <2> QED BY <1>1, <1>4, <2>1, <2>2 DEF n
<1> QED BY <1>5, <1>6

\* Links and vectors that were read from disk are adopted only as they would be computed.
LEMMA LinkedEnsured ==
  ASSUME NEW m \in StoreObject, Linked(m)
  PROVE  LET n == ensureSearchLocked(m)
         IN  /\ n \in StoreObject /\ SameDocs(m, n) /\ Current(n) /\ ~n.deferIndex /\ n.corpus = m.corpus
             /\ m.deferIndex => ~n.needsRebuild
             /\ ~m.deferIndex => n = m
<1> DEFINE n == ensureSearchLocked(m)
           x == Indexed(m.corpus)
           b == [m EXCEPT !.index = x, !.deferIndex = FALSE, !.needsRebuild = FALSE, !.savedLinks = NULL, !.flat = NULL]
<1>1. n \in StoreObject /\ SameDocs(m, n)
  BY EnsureSearch
<1>2. CASE ~m.deferIndex
  <2>1. n = m
    BY <1>2 DEF ensureSearchLocked
  <2> QED BY <1>1, <1>2, <2>1 DEF Linked
<1>3. CASE m.deferIndex
  <2>1. m.corpus \in Seq(Element) /\ x \in Seq(Entry)
    BY StoreFields, IndexedType
  <2>2. rebuildIndexesLocked(m) = [m EXCEPT !.index = x]
    BY DEF rebuildIndexesLocked
  <2>3. ASSUME Restorable(m) PROVE restoreHNSWLocked(m) = [m EXCEPT !.index = x]
    <3>1. \A i \in DOMAIN m.corpus : m.savedLinks[i] = m.corpus[i].vec
      BY <1>3, <2>3 DEF Restorable, Linked, ReadFor
    <3>2. \A i \in DOMAIN m.corpus :
            (IF m.flat # NULL /\ Len(m.flat) = Len(m.corpus) THEN m.flat[i] ELSE m.corpus[i].vec) = m.corpus[i].vec
      BY <1>3 DEF Linked, ReadFor
    <3> QED BY <3>1, <3>2 DEF restoreHNSWLocked, Indexed
  <2>4. n = shareVectorsLocked(b)
    BY <1>3, <2>2, <2>3 DEF ensureSearchLocked
  <2> HIDE DEF n, x
  <2>5. b \in StoreObject
    <3>1. FALSE \in BOOLEAN
      OBVIOUS
    <3> QED BY <2>1, <3>1 DEF StoreObject
  <2>6. b.index = x /\ b.corpus = m.corpus /\ ~b.deferIndex /\ ~b.needsRebuild
    BY <2>5 DEF StoreObject
  <2> HIDE DEF b
  <2>7. n = b /\ Current(b)
    BY <2>4, <2>5, <2>6, CurrentFresh DEF x
  <2> QED BY <1>1, <1>3, <2>6, <2>7 DEF n
<1> QED BY <1>2, <1>3

LEMMA LinkedReindexed ==
  ASSUME NEW m \in StoreObject, Linked(m)
  PROVE  LET n == reindexLocked(m)
         IN  /\ n \in StoreObject /\ SameDocs(m, n) /\ Linked(n) /\ n.deferIndex = m.deferIndex
             /\ n.corpus = m.corpus
<1> DEFINE n == reindexLocked(m)
           b == rebuildIndexesLocked(m)
           q == [shareVectorsLocked(b) EXCEPT !.needsRebuild = FALSE, !.edges = <<>>]
           r == IF m.needsRebuild THEN q ELSE m
<1>1. n \in StoreObject /\ SameDocs(m, n) /\ n.deferIndex = m.deferIndex
  BY Reindexed
<1>2. CASE m.deferIndex
  <2>1. n = m
    BY <1>2 DEF reindexLocked
  <2> QED BY <1>1, <2>1
<1>3. CASE ~m.deferIndex
  <2>1. n \in {r, rebuildGraph(r), rebuildGraph(discoverEdges(r))}
    BY <1>3 DEF reindexLocked
  <2>2. b \in StoreObject /\ b = [m EXCEPT !.index = b.index] /\ b.index = Indexed(m.corpus)
    BY Rebuilt
  <2> HIDE DEF n, b
  <2>3. b.corpus = m.corpus /\ b.deferIndex = m.deferIndex
    BY <2>2 DEF StoreObject
  <2>4. shareVectorsLocked(b) = b
    BY <2>2, <2>3, CurrentFresh
  <2>5. q.corpus = m.corpus /\ q.index = Indexed(q.corpus) /\ q.deferIndex = m.deferIndex /\ q \in StoreObject
    <3>1. q = [b EXCEPT !.needsRebuild = FALSE, !.edges = <<>>]
      BY <2>4
    <3>2. <<>> \in Seq(Chunk) /\ FALSE \in BOOLEAN
      OBVIOUS
    <3> HIDE DEF q
    <3> QED BY <2>2, <2>3, <3>1, <3>2 DEF StoreObject
  <2> HIDE DEF q
  <2>6. Current(r) /\ r.corpus = m.corpus /\ r \in StoreObject
    BY <2>5, CurrentFresh DEF Linked
  <2> HIDE DEF r
  <2>7. /\ n.corpus = r.corpus /\ n.index = r.index /\ n.needsRebuild = r.needsRebuild /\ n.deferIndex = r.deferIndex
    BY <2>1, <2>6 DEF rebuildGraph, discoverEdges, StoreObject
  <2>8. Current(n)
    BY <2>6, <2>7, SameCurrent
  <2> QED BY <1>1, <1>3, <2>6, <2>7, <2>8 DEF Linked, n
<1> QED BY <1>2, <1>3

LEMMA LinkedGraph ==
  ASSUME NEW m \in StoreObject, Linked(m)
  PROVE  LET n == ensureGraphLocked(m)
         IN  /\ n \in StoreObject /\ SameDocs(m, n) /\ Linked(n) /\ ~n.deferIndex /\ n.corpus = m.corpus
<1> DEFINE n == ensureGraphLocked(m)
           s == ensureSearchLocked(m)
           q == [s EXCEPT !.deferGraph = FALSE, !.edges = <<>>]
<1>1. s \in StoreObject /\ SameDocs(m, s) /\ Current(s) /\ ~s.deferIndex /\ s.corpus = m.corpus
  BY LinkedEnsured
<1>2. n = IF ~s.deferGraph THEN s ELSE reindexLocked(q)
  BY DEF ensureGraphLocked
<1> HIDE DEF n, s
<1>3. /\ q \in StoreObject /\ ~q.deferIndex /\ q.corpus = s.corpus /\ q.index = s.index
      /\ q.needsRebuild = s.needsRebuild /\ q.deferIndex = s.deferIndex
  <2>1. <<>> \in Seq(Chunk) /\ FALSE \in BOOLEAN
    OBVIOUS
  <2> QED BY <1>1, <2>1 DEF StoreObject
<1>4. SameDocs(s, q)
  BY <1>1, <1>3 DEF SameDocs, SameRegistry, StoreObject
<1> HIDE DEF q
<1>5. Linked(q)
  BY <1>1, <1>3, SameCurrent DEF Linked
<1>6. LET r == reindexLocked(q) IN r \in StoreObject /\ SameDocs(q, r) /\ Linked(r) /\ ~r.deferIndex /\ r.corpus = q.corpus
  BY <1>3, <1>5, LinkedReindexed
<1>7. CASE ~s.deferGraph
  BY <1>1, <1>2, <1>7 DEF Linked, n
<1>8. CASE s.deferGraph
  <2>1. n = reindexLocked(q)
    BY <1>2, <1>8
  <2>2. SameDocs(m, n)
    BY <1>1, <1>4, <1>6, <2>1 DEF SameDocs, SameRegistry
  <2> QED BY <1>1, <1>3, <1>6, <2>1, <2>2 DEF n
<1> QED BY <1>7, <1>8

\* What documents were taken away from is no longer what was read.
LEMMA ReadRemoved ==
  ASSUME NEW v, NEW s \in Seq(Element), NEW id, Len(v) \in Nat, ReadFor(v, s), Len(s) <= Len(v)
  PROVE  LET t == Compacted(s, KeptWithout(s, id)) IN ReadFor(v, t) /\ Len(t) <= Len(v)
<1> DEFINE t == Compacted(s, KeptWithout(s, id))
<1>1. t \in Seq(Element) /\ Len(t) <= Len(s) /\ (Len(t) = Len(s) <=> Own(s, id) = {}) /\ (Own(s, id) = {} => t = s)
  BY HoldsRemoved
<1> HIDE DEF t
<1>2. Len(t) \in Nat /\ Len(s) \in Nat
  BY <1>1
<1> QED BY <1>1, <1>2 DEF ReadFor, t

LEMMA EmbedsRemoved ==
  ASSUME NEW s \in Seq(Element), NEW id, Embeds(s)
  PROVE  Embeds(Compacted(s, KeptWithout(s, id)))
<1> DEFINE I == KeptWithout(s, id)
           t == Compacted(s, I)
<1>1. I \in SUBSET (DOMAIN s)
  BY DEF KeptWithout
<1> HIDE DEF I
<1>2. \A n \in DOMAIN t : t[n] = s[Ordered(I)[n]] /\ Ordered(I)[n] \in I
  BY <1>1, Compacts
<1> QED BY <1>1, <1>2 DEF Embeds, I

LEMMA LinkedRemoved ==
  ASSUME NEW m \in StoreObject, NEW id \in Docs, Linked(m), m.deferIndex => Shrinking(m)
  PROVE  LET n == removeDocLocked(m, id)
         IN  /\ n \in StoreObject /\ Linked(n) /\ n.index = m.index /\ n.deferIndex = m.deferIndex
             /\ n.deferIndex => Shrinking(n)
             /\ Embeds(m.corpus) => Embeds(n.corpus)
<1> DEFINE n == removeDocLocked(m, id)
<1>1. /\ n \in StoreObject /\ n.index = m.index /\ n.deferIndex = m.deferIndex
      /\ Len(n.corpus) = Len(m.corpus) => n.corpus = m.corpus /\ n.needsRebuild = m.needsRebuild
  BY Removed
<1>2. /\ n.corpus = Compacted(m.corpus, KeptWithout(m.corpus, id))
      /\ n.needsRebuild = (m.needsRebuild \/ Len(n.corpus) # Len(m.corpus))
      /\ n.savedLinks = m.savedLinks /\ n.flat = m.flat
  BY DEF removeDocLocked, StoreObject
<1> HIDE DEF n
<1>3. m.corpus \in Seq(Element) /\ m.needsRebuild \in BOOLEAN
      /\ (m.savedLinks # NULL => m.savedLinks \in Seq(Texts)) /\ (m.flat # NULL => m.flat \in Seq(Texts))
  BY StoreFields
<1>4. Current(n)
  BY <1>1, <1>2 DEF Linked, Current
<1>5. /\ m.deferIndex /\ m.savedLinks # NULL => ReadFor(m.savedLinks, n.corpus) /\ Len(n.corpus) <= Len(m.savedLinks)
      /\ m.deferIndex /\ m.flat # NULL => ReadFor(m.flat, n.corpus) /\ Len(n.corpus) <= Len(m.flat)
  <2>1. /\ m.savedLinks # NULL => Len(m.savedLinks) \in Nat
        /\ m.flat # NULL => Len(m.flat) \in Nat
    BY <1>3
  <2> QED BY <1>2, <1>3, <2>1, ReadRemoved DEF Linked, Shrinking
<1>6. Embeds(m.corpus) => Embeds(n.corpus)
  BY <1>2, <1>3, EmbedsRemoved
<1> QED BY <1>1, <1>2, <1>4, <1>5, <1>6 DEF Linked, Shrinking, n

LEMMA LinkedDeleted ==
  ASSUME NEW m \in StoreObject, NEW d \in Docs, Linked(m), m.deferIndex => Shrinking(m)
  PROVE  LET gone == [removeDocLocked(m, d) EXCEPT !.latest[d] = NULL]
             n == IF Len(gone.corpus) # Len(m.corpus) THEN reindexLocked(gone) ELSE gone
         IN  /\ Linked(n) /\ n.deferIndex = m.deferIndex /\ (n.deferIndex => Shrinking(n))
             /\ Embeds(m.corpus) => Embeds(n.corpus)
<1> DEFINE r == removeDocLocked(m, d)
           gone == [r EXCEPT !.latest[d] = NULL]
           n == IF Len(gone.corpus) # Len(m.corpus) THEN reindexLocked(gone) ELSE gone
<1>1. /\ r \in StoreObject /\ Linked(r) /\ r.deferIndex = m.deferIndex /\ (Embeds(m.corpus) => Embeds(r.corpus))
      /\ r.deferIndex => Shrinking(r)
  BY LinkedRemoved
<1> HIDE DEF r
<1>2. /\ gone \in StoreObject /\ gone.corpus = r.corpus /\ gone.index = r.index /\ gone.needsRebuild = r.needsRebuild
      /\ gone.deferIndex = r.deferIndex /\ gone.savedLinks = r.savedLinks /\ gone.flat = r.flat
  <2> DEFINE l == [r.latest EXCEPT ![d] = NULL]
  <2>1. l \in [Docs -> Contents \cup {NULL}] /\ gone = [r EXCEPT !.latest = l]
    BY <1>1, StoreFields
  <2> HIDE DEF l
  <2> QED BY <1>1, <2>1 DEF StoreObject
<1> HIDE DEF gone
<1>3. Linked(gone) /\ (gone.deferIndex => Shrinking(gone))
  BY <1>1, <1>2, SameCurrent DEF Linked, Shrinking
<1>4. LET q == reindexLocked(gone)
      IN  Linked(q) /\ q.deferIndex = gone.deferIndex /\ q.corpus = gone.corpus /\ (gone.deferIndex => q = gone)
  BY <1>2, <1>3, LinkedReindexed DEF reindexLocked
<1>5. Linked(n) /\ n.deferIndex = m.deferIndex /\ n.corpus = r.corpus /\ (n.deferIndex => Shrinking(n))
  BY <1>1, <1>2, <1>3, <1>4
<1> QED BY <1>1, <1>5 DEF n, gone, r

LEMMA IndexedAppended ==
  ASSUME NEW s \in Seq(Element), NEW t \in Seq(Element)
  PROVE  Indexed(s) \o Indexed(t) = Indexed(s \o t)
<1> DEFINE x == Indexed(s)
           y == Indexed(t)
           u == s \o t
           z == Indexed(u)
<1>1. /\ x \in Seq(Entry) /\ Len(x) = Len(s) /\ y \in Seq(Entry) /\ Len(y) = Len(t)
      /\ u \in Seq(Element) /\ Len(u) = Len(s) + Len(t)
      /\ \A i \in DOMAIN s : u[i] = s[i]
      /\ \A i \in DOMAIN t : u[Len(s) + i] = t[i]
  BY IndexedType, OwnAppended
<1> DEFINE e(c) == [doc |-> c.doc, pos |-> c.pos, text |-> c.text, vec |-> c.vec, link |-> c.vec]
<1>2. /\ \A i \in DOMAIN s : x[i] = e(s[i])
      /\ \A i \in DOMAIN t : y[i] = e(t[i])
      /\ \A i \in DOMAIN u : z[i] = e(u[i])
  BY DEF Indexed
<1>3. z \in Seq(Entry) /\ Len(z) = Len(u)
  <2> HIDE DEF u
  <2> QED BY <1>1, IndexedType
<1> HIDE DEF x, y, z, u, e
<1>4. x \o y \in Seq(Entry) /\ Len(x \o y) = Len(z)
  <2>1. x \in Seq(Entry) /\ y \in Seq(Entry)
    BY <1>1
  <2>2. x \o y \in Seq(Entry) /\ Len(x \o y) = Len(x) + Len(y)
    BY <2>1
  <2> QED BY <1>1, <1>3, <2>2
<1>5. \A i \in 1..Len(z) : (x \o y)[i] = z[i]
  <2> SUFFICES ASSUME NEW i \in 1..Len(z) PROVE (x \o y)[i] = z[i]
    OBVIOUS
  <2>1. CASE i <= Len(s)
    <3>1. i \in DOMAIN s /\ i \in DOMAIN u
      BY <1>1, <1>3, <2>1
    <3>2. (x \o y)[i] = x[i]
      BY <1>1, <1>3, <2>1
    <3> QED BY <1>1, <1>2, <3>1, <3>2
  <2>2. CASE ~(i <= Len(s))
    <3>1. i - Len(s) \in DOMAIN t /\ i \in DOMAIN u /\ Len(s) + (i - Len(s)) = i
      BY <1>1, <1>3, <2>2
    <3>2. (x \o y)[i] = y[i - Len(s)]
      BY <1>1, <1>3, <2>2
    <3>3. u[i] = t[i - Len(s)]
      BY <1>1, <3>1
    <3> QED BY <1>2, <3>1, <3>2, <3>3
  <2> QED BY <2>1, <2>2
<1>6. x \o y = z
  <2> DEFINE w == x \o y
  <2>1. w \in Seq(Entry) /\ Len(w) = Len(z) /\ \A i \in 1..Len(z) : w[i] = z[i]
    BY <1>4, <1>5
  <2> HIDE DEF w
  <2>2. w = z
    BY <1>3, <2>1
  <2> QED BY <2>2 DEF w
<1> QED BY <1>6 DEF x, y, z, u

LEMMA EmbedsAppended ==
  ASSUME NEW s \in Seq(Element), NEW t \in Seq(Element), Embeds(s), Embeds(t)
  PROVE  Embeds(s \o t)
<1> DEFINE u == s \o t
<1>1. /\ u \in Seq(Element) /\ Len(u) = Len(s) + Len(t)
      /\ \A i \in DOMAIN s : u[i] = s[i]
      /\ \A i \in DOMAIN t : u[Len(s) + i] = t[i]
  BY OwnAppended
<1> HIDE DEF u
<1>2. \A i \in DOMAIN u : i \in DOMAIN s \/ (i - Len(s) \in DOMAIN t /\ Len(s) + (i - Len(s)) = i)
  BY <1>1
<1>3. \A i \in DOMAIN u : u[i].vec = u[i].text
  BY <1>1, <1>2 DEF Embeds
<1> QED BY <1>3 DEF u, Embeds

\* Elements with the embeddings of their texts.
LEMMA EmbedsElements ==
  ASSUME NEW p, p.vecs = Pieces[p.content]
  PROVE  Embeds(Elements(p, p.vecs))
<1> DEFINE e(i) == [doc |-> p.id, pos |-> i, text |-> Pieces[p.content][i], vec |-> p.vecs[i]]
<1>1. \A i \in DOMAIN p.vecs : e(i).text = e(i).vec
  OBVIOUS
<1>2. Elements(p, p.vecs) = [i \in DOMAIN p.vecs |-> e(i)]
  BY DEF Elements
<1> HIDE DEF e
<1> QED BY <1>1, <1>2 DEF Embeds

\* Chunks at the end of the arrays and of the index.
LEMMA CurrentAppended ==
  ASSUME NEW m \in StoreObject, NEW els \in Seq(Element), m.index # NULL, Current(m)
  PROVE  LET n == appendChunksLocked(m, els)
         IN  n \in StoreObject /\ Current(n) /\ n.deferIndex = m.deferIndex /\ n.index # NULL
             /\ n.corpus = m.corpus \o els /\ n.needsRebuild = m.needsRebuild
<1> DEFINE n == appendChunksLocked(m, els)
           y == Indexed(els)
<1>1. /\ n \in StoreObject /\ SameRest(m, n) /\ n.corpus = m.corpus \o els /\ n.index = m.index \o y
      /\ n.index # NULL
  BY ChunksAppended
<1>2. m.index \in Seq(Entry) /\ y \in Seq(Entry) /\ m.corpus \in Seq(Element) /\ \A i \in DOMAIN y : y[i].link = y[i].vec
  BY StoreFields, IndexedType DEF Matches
<1> HIDE DEF n, y
<1>3. \A i \in DOMAIN n.index : n.index[i].link = n.index[i].vec
  <2> DEFINE x == m.index
  <2>1. x \in Seq(Entry) /\ n.index = x \o y /\ \A i \in DOMAIN x : x[i].link = x[i].vec
    BY <1>1, <1>2 DEF Current
  <2> HIDE DEF x
  <2> SUFFICES ASSUME NEW i \in DOMAIN (x \o y) PROVE (x \o y)[i].link = (x \o y)[i].vec
    BY <2>1
  <2>2. CASE i <= Len(x)
    <3>1. (x \o y)[i] = x[i] /\ i \in DOMAIN x
      BY <1>2, <2>1, <2>2
    <3> QED BY <2>1, <3>1
  <2>3. CASE ~(i <= Len(x))
    <3>1. (x \o y)[i] = y[i - Len(x)] /\ i - Len(x) \in DOMAIN y
      BY <1>2, <2>1, <2>3
    <3> QED BY <1>2, <3>1
  <2> QED BY <2>2, <2>3
<1>4. ~m.deferIndex /\ ~m.needsRebuild => n.index = Indexed(n.corpus)
  BY <1>1, <1>2, IndexedAppended DEF Current, y
<1>5. Current(n)
  BY <1>1, <1>3, <1>4 DEF Current, SameRest
<1> QED BY <1>1, <1>5 DEF n, SameRest

LEMMA LengthRemoved ==
  ASSUME NEW s \in Seq(Element), NEW d, NEW c \in Contents, Holds(s, d, c)
  PROVE  LET t == Compacted(s, KeptWithout(s, d))
         IN  Len(t) \in Nat /\ Len(Pieces[c]) \in Nat /\ Len(s) \in Nat /\ Len(t) + Len(Pieces[c]) = Len(s)
<1> DEFINE I == Own(s, d)
           J == KeptWithout(s, d)
           D == 1..Len(s)
           t == Compacted(s, J)
           own == Compacted(s, I)
<1>1. DOMAIN s = D /\ Len(s) \in Nat
  OBVIOUS
<1>2. I \in SUBSET (DOMAIN s) /\ J = D \ I /\ I \in SUBSET D
  BY <1>1 DEF Own, KeptWithout
<1>3. t \in Seq(Element) /\ Len(t) = Cardinality(J)
  <2>1. J \in SUBSET (DOMAIN s)
    BY DEF KeptWithout
  <2> HIDE DEF J
  <2> QED BY <2>1, Compacts
<1>4. own \in Seq(Element) /\ Len(own) = Cardinality(I)
  <2> HIDE DEF I
  <2> QED BY <1>2, Compacts
<1>5. [i \in DOMAIN own |-> own[i].text] = Pieces[c]
  BY HoldsExactly
<1>6. IsFiniteSet(D) /\ Cardinality(D) = Len(s)
  <2> DEFINE n == Len(s)
  <2>1. n \in Nat
    BY <1>1
  <2> HIDE DEF n
  <2>2. 1 \in Int /\ n \in Int
    BY <2>1
  <2>3. IsFiniteSet(1..n) /\ Cardinality(1..n) = n
    BY <2>1, <2>2, FS_Interval
  <2> QED BY <2>3 DEF n
<1> HIDE DEF I, J, D, t, own
<1>7. Len(own) = Len(Pieces[c])
  <2>1. DOMAIN own = DOMAIN Pieces[c]
    BY <1>5
  <2> QED BY <1>4, <2>1, PiecesType
<1>8. IsFiniteSet(I) /\ Cardinality(I) \in Nat /\ D \cap I = I
  BY <1>2, <1>6, FS_Subset, FS_CardinalityType
<1>9. Cardinality(J) = Cardinality(D) - Cardinality(D \cap I)
  BY <1>2, <1>6, FS_Difference
<1>10. Cardinality(J) = Len(s) - Len(Pieces[c])
  BY <1>4, <1>6, <1>7, <1>8, <1>9
<1>11. Len(t) \in Nat /\ Len(Pieces[c]) \in Nat
  BY <1>3, PiecesType
<1> QED BY <1>1, <1>3, <1>10, <1>11 DEF t, J

\* An index that is there, or the empty one that is made for an empty array.
LEMMA CurrentReady ==
  ASSUME NEW m \in StoreObject, Fit(m), Current(m), ~m.deferIndex
  PROVE  LET n == IF m.index = NULL THEN initIndexes(m) ELSE m
         IN  /\ n \in StoreObject /\ Current(n) /\ ~n.deferIndex /\ n.index # NULL
             /\ n.corpus = m.corpus /\ n.needsRebuild = m.needsRebuild /\ SameRegistry(m, n)
             /\ m.index # NULL => n = m
<1> DEFINE n == IF m.index = NULL THEN initIndexes(m) ELSE m
<1>1. CASE m.index = NULL
  <2>1. /\ n \in StoreObject /\ n.index = <<>> /\ n.index # NULL /\ n.corpus = m.corpus
        /\ SameRegistry(m, n) /\ SameRest(m, n)
    BY <1>1, Initialised
  <2>2. m.corpus = <<>>
    BY <1>1 DEF Fit
  <2> HIDE DEF n
  <2>3. Current(n)
    <3>1. Indexed(<<>>) = <<>>
      BY DEF Indexed
    <3> QED BY <2>1, <2>2, <3>1 DEF Current
  <2> QED BY <1>1, <2>1, <2>3 DEF SameRest, n
<1>2. CASE m.index # NULL
  BY <1>2 DEF SameRegistry
<1> QED BY <1>1, <1>2

LEMMA RecordedArrays ==
  ASSUME NEW m \in StoreObject, NEW id \in Docs, NEW c \in Contents
  PROVE  LET n == recordVersionLocked(recordHashLocked(m, id, c), id, c)
         IN  /\ n \in StoreObject /\ n.corpus = m.corpus /\ n.index = m.index
             /\ n.needsRebuild = m.needsRebuild /\ n.deferIndex = m.deferIndex
<1> DEFINE n == recordVersionLocked(recordHashLocked(m, id, c), id, c)
<1>1. n.corpus = m.corpus /\ n.index = m.index /\ n.needsRebuild = m.needsRebuild /\ n.deferIndex = m.deferIndex
  BY DEF recordVersionLocked, recordHashLocked, StoreObject
<1>2. n \in StoreObject
  BY Recorded
<1> HIDE DEF n
<1> QED BY <1>1, <1>2 DEF n

\* A document that replaces another leaves an index that is as long as the arrays were,
\* and arrays that differ from it by what the two documents do.
LEMMA CurrentApplied ==
  ASSUME NEW m \in StoreObject, Fit(m), Current(m), ~m.deferIndex, NEW p \in Prep,
         Kept(m.corpus, p.id, m.idHash[p.id])
  PROVE  LET n == applyPreparedLocked(m, p)
             c == m.idHash[p.id]
         IN  /\ n \in StoreObject /\ Current(n) /\ ~n.deferIndex
             /\ Embeds(m.corpus) /\ p.vecs = Pieces[p.content] => Embeds(n.corpus)
             /\ ~m.needsRebuild /\ n.needsRebuild =>
                  /\ n.index # NULL /\ c \in Contents /\ c # p.content
                  /\ Len(n.index) = Len(m.corpus)
                  /\ Len(n.corpus) + Len(Pieces[c]) = Len(m.corpus) + Len(Pieces[p.content])
<1> DEFINE n == applyPreparedLocked(m, p)
           c == m.idHash[p.id]
           els == Elements(p, p.vecs)
           ready == IF m.index = NULL THEN initIndexes(m) ELSE m
           gone == removeDocLocked(ready, p.id)
           inst == IF p.id \in m.docSet THEN appendToArraysLocked(gone, els)
                   ELSE IF ready.needsRebuild THEN appendToArraysLocked(ready, els)
                                              ELSE appendChunksLocked(ready, els)
<1>0. p \in [id : Docs, content : Contents, vecs : Seq(Texts)]
  BY DEF Prep
<1>1. p.id \in Docs /\ p.content \in Contents /\ p.vecs \in Seq(Texts) /\ Len(p.vecs) = Len(Pieces[p.content])
  BY <1>0 DEF Prep
<1>2. els \in Seq(Element) /\ (p.vecs = Pieces[p.content] => Embeds(els)) /\ Len(els) = Len(p.vecs)
  <2> DEFINE d == [id |-> p.id, content |-> p.content]
  <2>1. d \in [id : Docs, content : Contents] /\ d.id = p.id /\ d.content = p.content
    BY <1>1
  <2>2. els = Elements(d, p.vecs)
    BY <2>1 DEF Elements
  <2>3. DOMAIN els = DOMAIN p.vecs
    BY DEF Elements
  <2>4. p.vecs = Pieces[p.content] => Embeds(els)
    BY EmbedsElements
  <2> HIDE DEF d, els
  <2>5. els \in Seq(Element)
    BY <1>0, <1>1, <2>1, <2>2, HoldsElements
  <2> QED BY <1>1, <2>3, <2>4, <2>5
<1>3. /\ ready \in StoreObject /\ Current(ready) /\ ~ready.deferIndex /\ ready.index # NULL
      /\ ready.corpus = m.corpus /\ ready.needsRebuild = m.needsRebuild /\ SameRegistry(m, ready)
      /\ m.index # NULL => ready = m
  BY CurrentReady
<1>4. n = IF p.vecs = <<>> THEN m
          ELSE IF Rejected(m, p) THEN ready
          ELSE recordVersionLocked(recordHashLocked(inst, p.id, p.content), p.id, p.content)
  BY DEF applyPreparedLocked
<1>5. m.corpus \in Seq(Element) /\ m.needsRebuild \in BOOLEAN /\ m.idHash \in [Docs -> Contents \cup {NULL}]
  BY StoreFields
<1> HIDE DEF n, els, ready, c
<1>6. CASE p.vecs = <<>>
  BY <1>4, <1>6 DEF n
<1>7. CASE p.vecs # <<>> /\ Rejected(m, p)
  BY <1>3, <1>4, <1>7 DEF n
<1>8. CASE p.vecs # <<>> /\ ~Rejected(m, p)
  <2>1. n = recordVersionLocked(recordHashLocked(inst, p.id, p.content), p.id, p.content)
    BY <1>4, <1>8
  <2>2. CASE p.id \in m.docSet
    <3>1. Own(m.corpus, p.id) # {}
      BY <1>1, <2>2 DEF Fit
    <3>2. m.index # NULL
      BY <3>1 DEF Fit, Own
    <3>3. ready = m
      BY <1>3, <3>2
    <3>4. /\ gone \in StoreObject /\ Linked(gone) /\ gone.index = m.index /\ gone.deferIndex = m.deferIndex
          /\ Embeds(m.corpus) => Embeds(gone.corpus)
      BY <1>1, <3>3, LinkedRemoved DEF Linked
    <3>5. gone.needsRebuild
      BY <1>1, <3>1, <3>3, Removed
    <3>6. gone.corpus = Compacted(m.corpus, KeptWithout(m.corpus, p.id))
      BY <3>3 DEF removeDocLocked, StoreObject
    <3>7. inst = appendToArraysLocked(gone, els)
      BY <2>2
    <3> HIDE DEF gone, inst
    <3>8. inst \in StoreObject /\ SameRest(gone, inst) /\ inst.corpus = gone.corpus \o els /\ inst.index = gone.index
      BY <1>2, <3>4, <3>7, ArraysAppended
    <3>9. /\ n \in StoreObject /\ n.corpus = inst.corpus /\ n.index = inst.index
          /\ n.needsRebuild = inst.needsRebuild /\ n.deferIndex = inst.deferIndex
      <4>1. inst \in StoreObject /\ p.id \in Docs /\ p.content \in Contents
        BY <1>1, <3>8
      <4> QED BY <2>1, <4>1, RecordedArrays
    <3>10. Current(n) /\ ~n.deferIndex /\ n.index = m.index
      BY <3>4, <3>5, <3>8, <3>9 DEF SameRest, Linked, Current
    <3>11. gone.corpus \in Seq(Element)
      BY <3>4, StoreFields
    <3>12. Embeds(m.corpus) /\ p.vecs = Pieces[p.content] => Embeds(n.corpus)
      BY <1>2, <3>4, <3>8, <3>9, <3>11, EmbedsAppended
    <3>13. c \in Contents /\ c # p.content /\ Holds(m.corpus, p.id, c)
      <4>1. c # p.content
        BY <1>8, <2>2 DEF Rejected, c
      <4>2. c # NULL
        BY <3>1 DEF Kept, c
      <4>3. c \in Contents
        BY <1>1, <1>5, <4>2 DEF c
      <4>4. Holds(m.corpus, p.id, c)
        BY <4>2 DEF Kept, c
      <4> QED BY <4>1, <4>3, <4>4
    <3>14. Len(gone.corpus) \in Nat /\ Len(Pieces[c]) \in Nat /\ Len(m.corpus) \in Nat
           /\ Len(gone.corpus) + Len(Pieces[c]) = Len(m.corpus)
      BY ZenonT(30), <1>5, <3>6, <3>13, LengthRemoved
    <3>15. Len(n.corpus) = Len(gone.corpus) + Len(els)
      <4> DEFINE s == gone.corpus
      <4>1. s \in Seq(Element) /\ n.corpus = s \o els
        BY <3>8, <3>9, <3>11
      <4> HIDE DEF s
      <4>2. els \in Seq(Element)
        BY <1>2
      <4>3. Len(s \o els) = Len(s) + Len(els)
        BY ONLY <4>1, <4>2
      <4> QED BY <4>1, <4>3 DEF s
    <3>16. Len(Pieces[p.content]) \in Nat /\ Len(els) = Len(Pieces[p.content])
      BY <1>1, <1>2, PiecesType
    <3>17. Len(n.corpus) + Len(Pieces[c]) = Len(m.corpus) + Len(Pieces[p.content])
      <4> DEFINE g == Len(gone.corpus)
                 o == Len(Pieces[c])
                 b == Len(Pieces[p.content])
      <4>1. g \in Nat /\ o \in Nat /\ b \in Nat /\ g + o = Len(m.corpus) /\ Len(n.corpus) = g + b
        BY <3>14, <3>15, <3>16
      <4> HIDE DEF g, o, b
      <4>2. (g + b) + o = (g + o) + b
        BY <4>1
      <4> QED BY <4>1, <4>2 DEF o, b
    <3>18. ~m.needsRebuild => Len(n.index) = Len(m.corpus)
      <4>1. ~m.needsRebuild => m.index = Indexed(m.corpus)
        BY <3>2 DEF Current
      <4> QED BY <1>5, <3>10, <4>1, IndexedType
    <3> QED BY <3>2, <3>9, <3>10, <3>12, <3>13, <3>17, <3>18 DEF n, c
  <2>3. CASE p.id \notin m.docSet
    <3>1. /\ inst \in StoreObject /\ Current(inst) /\ ~inst.deferIndex /\ inst.corpus = m.corpus \o els
          /\ inst.needsRebuild = m.needsRebuild
      <4>1. CASE m.needsRebuild
        <5>1. inst = appendToArraysLocked(ready, els)
          BY <1>3, <2>3, <4>1
        <5> HIDE DEF inst
        <5>2. inst \in StoreObject /\ SameRest(ready, inst) /\ inst.corpus = ready.corpus \o els /\ inst.index = ready.index
          BY <1>2, <1>3, <5>1, ArraysAppended
        <5> QED BY <1>3, <4>1, <5>2 DEF SameRest, Current
      <4>2. CASE ~m.needsRebuild
        <5>1. inst = appendChunksLocked(ready, els)
          BY <1>3, <2>3, <4>2
        <5> HIDE DEF inst
        <5>2. /\ inst \in StoreObject /\ Current(inst) /\ inst.deferIndex = ready.deferIndex
              /\ inst.corpus = ready.corpus \o els /\ inst.needsRebuild = ready.needsRebuild
          <6>1. els \in Seq(Element)
            BY <1>2
          <6> QED BY <1>3, <5>1, <6>1, CurrentAppended
        <5> QED BY <1>3, <5>2
      <4> QED BY <1>5, <4>1, <4>2
    <3> HIDE DEF inst
    <3>2. /\ n \in StoreObject /\ n.corpus = inst.corpus /\ n.index = inst.index
          /\ n.needsRebuild = inst.needsRebuild /\ n.deferIndex = inst.deferIndex
      BY <1>1, <2>1, <3>1, RecordedArrays
    <3>3. Current(n)
      BY <3>1, <3>2, SameCurrent
    <3>4. Embeds(m.corpus) /\ p.vecs = Pieces[p.content] => Embeds(n.corpus)
      BY <1>2, <1>5, <3>1, <3>2, EmbedsAppended
    <3> QED BY <3>1, <3>2, <3>3, <3>4 DEF n
  <2> QED BY <2>2, <2>3
<1> QED BY <1>6, <1>7, <1>8

LEMMA CurrentBuilt ==
  ASSUME NEW m \in StoreObject, ~m.deferIndex, NEW docs \in Seq([id : Docs, content : Contents])
  PROVE  LET n == reindexLocked(shareVectorsLocked(recordAll(appendChunksLocked(Blank(m), AllElements(docs)), docs)))
         IN  Current(n) /\ ~n.deferIndex /\ Embeds(n.corpus)
<1> DEFINE els == AllElements(docs)
           b == Blank(m)
           a == appendChunksLocked(b, els)
           r == recordAll(a, docs)
           n == reindexLocked(shareVectorsLocked(r))
<1>1. els \in Seq(Element) /\ Embeds(els)
  BY HoldsAll
<1> HIDE DEF els
<1>2. b \in StoreObject /\ b.corpus = <<>> /\ b.index # NULL /\ b.deferIndex = m.deferIndex
  BY Blanked
<1>3. b.index = <<>>
  BY DEF Blank, initIndexes, StoreObject
<1> HIDE DEF b
<1>4. /\ a \in StoreObject /\ SameRest(b, a) /\ a.corpus = b.corpus \o els /\ a.index = b.index \o Indexed(els)
  BY <1>1, <1>2, ChunksAppended
<1> HIDE DEF a
<1>5. r \in StoreObject
  BY <1>4, RecordedAll
<1>6. r.corpus = a.corpus /\ r.index = a.index /\ r.deferIndex = a.deferIndex
  BY <1>4 DEF recordAll, StoreObject
<1> HIDE DEF r
<1>7. r.corpus = els /\ r.index = Indexed(els) /\ ~r.deferIndex
  <2>1. Indexed(els) \in Seq(Entry)
    BY <1>1, IndexedType
  <2>2. <<>> \o els = els /\ <<>> \o Indexed(els) = Indexed(els)
    BY <1>1, <2>1
  <2> QED BY <1>2, <1>3, <1>4, <1>6, <2>2 DEF SameRest
<1>8. shareVectorsLocked(r) = r /\ Linked(r)
  BY <1>5, <1>7, CurrentFresh DEF Linked
<1>9. Linked(n) /\ n.deferIndex = r.deferIndex /\ n.corpus = r.corpus
  BY <1>5, <1>8, LinkedReindexed
<1> QED BY <1>1, <1>7, <1>9 DEF Linked, n, r, a, b, els

LEMMA CurrentMerged ==
  ASSUME NEW m \in StoreObject, Fit(m), Current(m), ~m.deferIndex, NEW docs \in Seq([id : Docs, content : Contents])
  PROVE  LET els == AllElements(docs)
             n == IF els = <<>> THEN m
                  ELSE shareVectorsLocked(appendChunksLocked(IF m.index = NULL THEN initIndexes(m) ELSE m, els))
         IN  Current(n) /\ ~n.deferIndex /\ (Embeds(m.corpus) /\ ~m.needsRebuild => Embeds(n.corpus))
<1> DEFINE els == AllElements(docs)
           ready == IF m.index = NULL THEN initIndexes(m) ELSE m
           a == appendChunksLocked(ready, els)
           h == shareVectorsLocked(a)
<1>1. els \in Seq(Element) /\ Embeds(els) /\ m.corpus \in Seq(Element)
  BY HoldsAll, StoreFields
<1> HIDE DEF els
<1>2. /\ ready \in StoreObject /\ Current(ready) /\ ~ready.deferIndex /\ ready.index # NULL
      /\ ready.corpus = m.corpus /\ ready.needsRebuild = m.needsRebuild
  BY CurrentReady
<1> HIDE DEF ready
<1>3. /\ a \in StoreObject /\ Current(a) /\ ~a.deferIndex /\ a.corpus = ready.corpus \o els
      /\ a.needsRebuild = ready.needsRebuild
  BY <1>1, <1>2, CurrentAppended
<1> HIDE DEF a
<1>4. /\ Current(h) /\ ~h.deferIndex
      /\ (a.index # NULL /\ a.needsRebuild => Len(a.index) # Len(a.corpus)) => h.corpus = a.corpus
  BY <1>3, CurrentShared
<1> HIDE DEF h
<1>5. Embeds(m.corpus) /\ ~m.needsRebuild => Embeds(h.corpus)
  BY <1>1, <1>2, <1>3, <1>4, EmbedsAppended
<1> QED BY <1>4, <1>5 DEF els, ready, a, h

\* Chunks merged into a store whose indexes are still to be built: the index is shorter
\* than the arrays, and what was read is from now on shorter too.
LEMMA LinkedExtended ==
  ASSUME NEW m \in StoreObject, Linked(m), Extending(m), NEW docs \in Seq([id : Docs, content : Contents])
  PROVE  LET els == AllElements(docs)
             n == IF els = <<>> THEN m
                  ELSE shareVectorsLocked(appendChunksLocked(IF m.index = NULL THEN initIndexes(m) ELSE m, els))
         IN  m.deferIndex => Linked(n) /\ Extending(n) /\ n.deferIndex /\ (Embeds(m.corpus) => Embeds(n.corpus))
<1> DEFINE els == AllElements(docs)
           a == appendChunksLocked(m, els)
           n == IF els = <<>> THEN m
                ELSE shareVectorsLocked(appendChunksLocked(IF m.index = NULL THEN initIndexes(m) ELSE m, els))
<1> SUFFICES ASSUME m.deferIndex
             PROVE  Linked(n) /\ Extending(n) /\ n.deferIndex /\ (Embeds(m.corpus) => Embeds(n.corpus))
  OBVIOUS
<1>1. els \in Seq(Element) /\ Embeds(els) /\ m.corpus \in Seq(Element)
  BY HoldsAll, StoreFields
<1>2. m.index # NULL /\ m.index \in Seq(Entry)
      /\ (m.savedLinks # NULL => m.savedLinks \in Seq(Texts)) /\ (m.flat # NULL => m.flat \in Seq(Texts))
  BY StoreFields DEF Extending
<1> HIDE DEF els
<1>3. CASE els = <<>>
  BY <1>3
<1>4. CASE els # <<>>
  <2>1. n = shareVectorsLocked(a)
    BY <1>2, <1>4
  <2>2. /\ a \in StoreObject /\ Current(a) /\ a.deferIndex /\ a.index # NULL /\ a.corpus = m.corpus \o els
        /\ a.index = m.index \o Indexed(els)
    BY <1>1, <1>2, CurrentAppended, ChunksAppended DEF Linked
  <2>3. a.savedLinks = m.savedLinks /\ a.flat = m.flat
    BY DEF appendChunksLocked, appendToArraysLocked, StoreObject
  <2> HIDE DEF a, n
  <2> DEFINE y == Indexed(els)
             s == m.corpus
             x == m.index
             i == Len(x)
             j == Len(s)
             k == Len(els)
  <2>4. y \in Seq(Entry) /\ Len(y) = k
    BY <1>1, IndexedType
  <2>5. Len(a.index) = i + Len(y)
    <3>1. x \in Seq(Entry) /\ y \in Seq(Entry) /\ a.index = x \o y
      BY <1>2, <2>2, <2>4
    <3> HIDE DEF x, y
    <3>2. Len(x \o y) = Len(x) + Len(y)
      BY ONLY <3>1
    <3> QED BY <3>1, <3>2
  <2>6. Len(a.corpus) = j + k
    <3>1. s \in Seq(Element) /\ a.corpus = s \o els
      BY <1>1, <2>2
    <3> HIDE DEF s
    <3>2. Len(s \o els) = Len(s) + Len(els)
      BY ONLY <1>1, <3>1
    <3> QED BY <3>1, <3>2
  <2>7. i \in Nat /\ j \in Nat /\ k \in Nat /\ k > 0 /\ i < j
    <3>1. x \in Seq(Entry) /\ s \in Seq(Element) /\ els \in Seq(Element) /\ els # <<>> /\ i < j
      BY <1>1, <1>2, <1>4 DEF Extending
    <3> HIDE DEF x, s
    <3> QED BY <3>1
  <2>8. /\ m.savedLinks # NULL => Len(m.savedLinks) \in Nat /\ Len(m.savedLinks) <= j
        /\ m.flat # NULL => Len(m.flat) \in Nat /\ Len(m.flat) <= j
    BY <1>2 DEF Extending
  <2> HIDE DEF i, j, k, x, s, y
  <2>9. Len(a.index) < Len(a.corpus)
    BY <2>4, <2>5, <2>6, <2>7
  <2>10. /\ m.savedLinks # NULL => Len(m.savedLinks) < Len(a.corpus)
         /\ m.flat # NULL => Len(m.flat) < Len(a.corpus)
    BY <2>6, <2>7, <2>8
  <2>11. Len(a.index) # Len(a.corpus) /\ Len(a.corpus) \in Nat
    BY <2>4, <2>5, <2>6, <2>7
  <2>12. n = a
    BY <2>1, <2>11 DEF shareVectorsLocked
  <2>13. Linked(a)
    BY <2>2, <2>3, <2>8, <2>10, <2>11 DEF Linked, ReadFor
  <2>14. Extending(a)
    BY <2>2, <2>3, <2>8, <2>9, <2>10, <2>11 DEF Extending
  <2>15. Embeds(m.corpus) => Embeds(a.corpus)
    BY <1>1, <2>2, EmbedsAppended
  <2> QED BY <2>2, <2>12, <2>13, <2>14, <2>15
<1> QED BY <1>3, <1>4 DEF els, n

LEMMA LinkedEmpty == Linked(EmptyStore) /\ Embeds(EmptyStore.corpus)
<1>1. EmptyStore.index = NULL /\ ~EmptyStore.deferIndex /\ EmptyStore.corpus = <<>>
  BY DEF EmptyStore
<1> QED BY <1>1 DEF Linked, Current, Embeds

LinksOf(s) == [i \in DOMAIN s |-> s[i].vec]

LEMMA LinkedLoaded ==
  ASSUME NEW s \in Snapshot, NEW owners \in Owners(s), s.links # NULL => s.links = LinksOf(s.corpus),
         s.mode = "none" => Embeds(s.corpus)
  PROVE  LET n == Loaded(s, owners)
         IN  Linked(n) /\ (n.deferIndex => Shrinking(n) /\ Extending(n)) /\ (Embeds(s.corpus) => Embeds(n.corpus))
<1> DEFINE n == Loaded(s, owners)
           c == s.corpus
           f == IF s.mode = "exact" THEN LinksOf(c) ELSE NULL
<1>1. CASE c = <<>>
  <2>1. n = EmptyStore
    BY <1>1 DEF Loaded
  <2>2. ~n.deferIndex
    BY <2>1 DEF EmptyStore
  <2> QED BY <2>1, <2>2, LinkedEmpty
<1>2. CASE c # <<>>
  <2>1. c \in Seq(Element)
    BY DEF Snapshot
  <2>2. \A i \in DOMAIN c : c[i] \in Element
    <3>1. DOMAIN c = 1..Len(c)
      BY <2>1
    <3> QED BY <2>1, <3>1, ElementOfSeq
  <2>3. LoadedCorpus(s) = c
    <3> DEFINE lc == LoadedCorpus(s)
    <3>1. lc = [i \in DOMAIN c |-> [c[i] EXCEPT !.vec = IF s.mode = "none" THEN c[i].text ELSE c[i].vec]]
      BY DEF LoadedCorpus
    <3>2. ASSUME NEW i \in DOMAIN c
          PROVE  [c[i] EXCEPT !.vec = IF s.mode = "none" THEN c[i].text ELSE c[i].vec] = c[i]
      <4> DEFINE e == c[i]
      <4>1. e \in Element /\ (s.mode = "none" => e.vec = e.text)
        BY <2>2, <3>2 DEF Embeds
      <4> HIDE DEF e
      <4>2. [e EXCEPT !.vec = e.vec] = e
        BY <4>1 DEF Element
      <4>3. [e EXCEPT !.vec = IF s.mode = "none" THEN e.text ELSE e.vec] = e
        BY <4>1, <4>2
      <4> QED BY <4>3 DEF e
    <3> HIDE DEF lc
    <3>3. \A i \in DOMAIN c : lc[i] = c[i]
      BY <3>1, <3>2
    <3>4. c = [i \in DOMAIN c |-> c[i]]
      BY <2>1
    <3>5. lc = [i \in DOMAIN c |-> lc[i]]
      BY <3>1
    <3> QED BY <3>3, <3>4, <3>5 DEF lc
  <2>4. /\ n.corpus = c /\ n.index = <<>> /\ n.deferIndex
        /\ n.savedLinks = s.links /\ n.flat = f
    BY <1>2, <2>3 DEF Loaded, EmptyStore, LinksOf
  <2> HIDE DEF n
  <2>5. ReadFor(LinksOf(c), c) /\ Len(LinksOf(c)) = Len(c) /\ Len(c) \in Nat /\ Len(c) > 0
    <3>1. DOMAIN LinksOf(c) = DOMAIN c /\ \A i \in DOMAIN c : LinksOf(c)[i] = c[i].vec
      BY DEF LinksOf
    <3>2. Len(LinksOf(c)) = Len(c) /\ Len(c) \in Nat
      <4>1. LinksOf(c) = [i \in 1..Len(c) |-> c[i].vec] /\ Len(c) \in Nat
        BY <2>1 DEF LinksOf
      <4> QED BY <4>1
    <3>3. Len(c) > 0
      BY <1>2, <2>1
    <3> QED BY <3>1, <3>2, <3>3 DEF ReadFor
  <2>6. Current(n)
    BY <2>4 DEF Current
  <2>7. n.flat # NULL => n.flat = LinksOf(c)
    BY <2>4
  <2>8. Linked(n)
    BY <2>4, <2>5, <2>6, <2>7 DEF Linked
  <2>9. n.index # NULL /\ Len(n.index) = 0
    <3>1. <<>> \in Seq(Entry)
      OBVIOUS
    <3> QED BY <2>4, <3>1, NullAssumption
  <2>10. Shrinking(n) /\ Extending(n)
    BY <2>4, <2>5, <2>7, <2>9 DEF Shrinking, Extending
  <2> QED BY <2>4, <2>8, <2>10 DEF n
<1> QED BY <1>1, <1>2

LEMMA LinksSaved ==
  ASSUME store \in StoreObject, Linked(store), store.index # NULL, hnswSnapshot # NULL
  PROVE  hnswSnapshot = LinksOf(store.corpus)
<1> DEFINE s == store.corpus
           x == store.index
<1>1. s \in Seq(Element) /\ DOMAIN s = 1..Len(s) /\ (store.savedLinks # NULL => store.savedLinks \in Seq(Texts))
  BY StoreFields
<1>2. CASE ~store.deferIndex /\ ~store.needsRebuild /\ Len(store.index) = Len(store.corpus)
  <2>1. hnswSnapshot = [i \in DOMAIN x |-> x[i].link]
    BY <1>2 DEF hnswSnapshot
  <2>2. x = Indexed(s)
    BY <1>2 DEF Linked, Current
  <2>3. DOMAIN x = DOMAIN s /\ \A i \in DOMAIN s : x[i].link = s[i].vec
    BY <1>1, <2>2, IndexedType DEF Matches
  <2> HIDE DEF x, s
  <2> QED BY <2>1, <2>3 DEF LinksOf, s
<1>3. CASE ~(~store.deferIndex /\ ~store.needsRebuild /\ Len(store.index) = Len(store.corpus))
  <2>1. hnswSnapshot = store.savedLinks /\ store.deferIndex /\ store.savedLinks # NULL /\ Len(store.savedLinks) = Len(s)
    BY <1>3 DEF hnswSnapshot
  <2>2. \A i \in DOMAIN s : store.savedLinks[i] = s[i].vec
    BY <2>1 DEF Linked, ReadFor
  <2> DEFINE l == store.savedLinks
  <2>3. l \in Seq(Texts) /\ Len(l) = Len(s) /\ \A i \in DOMAIN s : l[i] = s[i].vec
    BY <1>1, <2>1, <2>2
  <2> HIDE DEF l, s
  <2>4. l = [i \in DOMAIN s |-> l[i]]
    BY <1>1, <2>3
  <2>5. l = [i \in DOMAIN s |-> s[i].vec]
    BY <2>3, <2>4
  <2> QED BY <2>1, <2>5 DEF LinksOf, l, s
<1> QED BY <1>2, <1>3

LEMMA Shortened ==
  ASSUME NEW S, NEW s \in Seq(S)
  PROVE  /\ s # <<>> => Head(s) \in S /\ Tail(s) \in Seq(S) /\ Len(s) \in Nat /\ Len(Tail(s)) = Len(s) - 1
         /\ \A i \in DOMAIN s : s[i] \in S /\ RemoveAt(s, i) \in Seq(S)
         /\ \A x \in S : Append(s, x) \in Seq(S) /\ Len(s) \in Nat /\ Len(Append(s, x)) = Len(s) + 1
<1>1. ASSUME s # <<>> PROVE Head(s) \in S /\ Tail(s) \in Seq(S) /\ Len(s) \in Nat /\ Len(Tail(s)) = Len(s) - 1
  BY <1>1, HeadTailProperties
<1>2. ASSUME NEW i \in DOMAIN s PROVE s[i] \in S /\ RemoveAt(s, i) \in Seq(S)
  <2>1. i \in 1..Len(s) /\ Len(s) \in Nat
    OBVIOUS
  <2>2. SubSeq(s, 1, i - 1) \in Seq(S) /\ SubSeq(s, i + 1, Len(s)) \in Seq(S)
    BY <2>1, SubSeqProperties
  <2>3. s[i] \in S
    BY <2>1, ElementOfSeq
  <2> QED BY <2>2, <2>3 DEF RemoveAt
<1>3. ASSUME NEW x \in S PROVE Append(s, x) \in Seq(S) /\ Len(s) \in Nat /\ Len(Append(s, x)) = Len(s) + 1
  OBVIOUS
<1> QED BY <1>1, <1>2, <1>3

-----------------------------------------------------------------------------
(* The inductive invariant of the vectors.                                  *)

Wanted == [id : Docs, content : use.contents]

\* What a call holds are documents of the program.
Passed(l, t) ==
  /\ t.todo \in Seq(Wanted)
  /\ t.preps \in Seq({p \in Prep : p.content \in use.contents})
  /\ l \in {"preparing", "applying"} => "add" \in use.calls

\* So are those that are registered; and only a program that saves reads what was saved.
Given ==
  /\ \A d \in Docs : store.idHash[d] \in use.contents \cup {NULL}
  /\ disk # NULL => disk.mode \in use.modes /\ \A d \in Docs : disk.idHash[d] \in use.contents \cup {NULL}
  /\ "save" \notin use.calls => ~store.deferIndex /\ disk = NULL
  /\ \A c \in Clients : Passed(pc[c], task[c])
  /\ \A c \in Clients : pc[c] = "applying" => ~store.deferIndex

\* The vectors of a prepared document are the embeddings of its chunks.
Fresh(t) == t.preps \in Seq({p \in Prep : p.vecs = Pieces[p.content]})

\* A batch of at most one document: before it is applied nothing is to be rebuilt, and
\* afterwards an index that is to be rebuilt is told from the arrays by its length.
OneDocument(l, t, m) ==
  /\ l = "preparing" => Len(t.todo) + Len(t.preps) <= 1
  /\ l = "applying" =>
       IF t.preps = <<>>
       THEN m.index # NULL /\ m.needsRebuild => Len(m.index) # Len(m.corpus)
       ELSE Len(t.preps) = 1 /\ ~m.needsRebuild

\* While the indexes of a loaded store are to be built, merges only make its arrays
\* longer, and everything else only makes them shorter.
Loading(m) == m.deferIndex => IF "merge" \in use.calls THEN Extending(m) ELSE Shrinking(m)

Embedded ==
  /\ Embeds(store.corpus)
  /\ disk # NULL => Embeds(disk.corpus)
  /\ \A c \in Clients : Fresh(task[c]) /\ OneDocument(pc[c], task[c], store)

Vectors ==
  /\ Registered
  /\ Linked(store) /\ Loading(store)
  /\ SnapshotLinksMatch
  /\ Given
  /\ LengthsDiffer(use) => Embedded

LEMMA VectorsStep ==
  ASSUME Vectors, Registered', use' = use, disk' = disk, NEW c \in Clients, NEW l \in Labels, NEW t,
         pc' = [pc EXCEPT ![c] = l], task' = [task EXCEPT ![c] = t],
         Linked(store'),
         store' = store \/ \A b \in Clients : b # c => pc[b] # "applying",
         \A d \in Docs : store'.idHash[d] \in use.contents \cup {NULL},
         store'.deferIndex => store.deferIndex, Loading(store'),
         Passed(l, t), l = "applying" => ~store'.deferIndex,
         LengthsDiffer(use) => Embeds(store'.corpus) /\ Fresh(t) /\ OneDocument(l, t, store')
  PROVE  Vectors'
<1>1. pc \in [Clients -> Labels] /\ task \in [Clients -> Task]
  BY DEF Vectors, Registered, Shape, TypeOK, Labels
<1>2. \A b \in Clients : pc'[b] = (IF b = c THEN l ELSE pc[b]) /\ task'[b] = (IF b = c THEN t ELSE task[b])
  BY <1>1
<1>3. SnapshotLinksMatch'
  BY DEF Vectors, SnapshotLinksMatch
<1>4. \A b \in Clients : Passed(pc[b], task[b])'
  BY <1>2 DEF Vectors, Given, Passed, Wanted
<1>5. \A b \in Clients : (pc[b] = "applying" => ~store.deferIndex)'
  BY <1>2 DEF Vectors, Given
<1>6. Given'
  BY <1>4, <1>5 DEF Vectors, Given
<1>7. ASSUME LengthsDiffer(use) PROVE Embedded'
  <2>1. Embedded
    BY <1>7 DEF Vectors
  <2>2. ASSUME NEW b \in Clients PROVE Fresh(task'[b]) /\ OneDocument(pc'[b], task'[b], store')
    <3>1. CASE b = c
      BY <1>2, <1>7, <3>1
    <3>2. CASE b # c
      <4>1. pc'[b] = pc[b] /\ task'[b] = task[b] /\ Fresh(task[b]) /\ OneDocument(pc[b], task[b], store)
        BY <1>2, <2>1, <3>2 DEF Embedded
      <4>2. store' = store \/ pc[b] # "applying"
        BY <3>2
      <4>3. OneDocument(pc[b], task[b], store')
        BY <4>1, <4>2 DEF OneDocument
      <4> QED BY <4>1, <4>3
    <3> QED BY <3>1, <3>2
  <2> QED BY <1>7, <2>1, <2>2 DEF Embedded
<1>8. (LengthsDiffer(use) => Embedded)'
  BY <1>7 DEF LengthsDiffer
<1>9. Loading(store)'
  BY DEF Loading
<1> QED BY <1>3, <1>6, <1>8, <1>9 DEF Vectors

LEMMA NoTaskPassed == Passed("idle", NoTask) /\ Fresh(NoTask)
<1>1. \A S : <<>> \in Seq(S)
  OBVIOUS
<1>2. NoTask.todo = <<>> /\ NoTask.preps = <<>>
  BY DEF NoTask
<1> QED BY <1>1, <1>2 DEF Passed, Fresh

\* No client but c applies a batch, which holds the lock.
LEMMA NoneApplies ==
  ASSUME TypeOK, NEW c \in Clients, writer = NULL \/ pc[c] = "applying"
  PROVE  \A b \in Clients : b # c => pc[b] # "applying"
  BY NullAssumption DEF TypeOK

\* What holds before any step of a client.
LEMMA VectorsNow ==
  ASSUME Vectors, NEW c \in Clients
  PROVE  /\ TypeOK /\ Shape /\ Registered /\ Fit(store) /\ store \in StoreObject /\ use \in Uses
         /\ pc \in [Clients -> Labels] /\ pc[c] \in Labels /\ task \in [Clients -> Task] /\ Fits(task[c])
         /\ task[c] \in [todo : Seq(Document), preps : Seq(Prep), changed : BOOLEAN]
         /\ store.corpus \in Seq(Element) /\ store.idHash \in [Docs -> Contents \cup {NULL}]
         /\ Linked(store) /\ Loading(store) /\ Passed(pc[c], task[c])
         /\ \A d \in Docs : store.idHash[d] \in use.contents \cup {NULL}
         /\ pc[c] = "applying" => ~store.deferIndex
         /\ LengthsDiffer(use) => Embeds(store.corpus) /\ Fresh(task[c]) /\ OneDocument(pc[c], task[c], store)
<1>1. TypeOK /\ Shape /\ Registered /\ Fit(store) /\ store \in StoreObject /\ use \in Uses
  BY DEF Vectors, Registered, Shape, TypeOK
<1>2. pc \in [Clients -> Labels] /\ pc[c] \in Labels /\ task \in [Clients -> Task] /\ Fits(task[c])
  BY <1>1 DEF TypeOK, Labels, Fits
<1>3. task[c] \in [todo : Seq(Document), preps : Seq(Prep), changed : BOOLEAN]
  BY <1>2, FitsTask
<1>4. store.corpus \in Seq(Element) /\ store.idHash \in [Docs -> Contents \cup {NULL}]
  BY <1>1, StoreFields
<1>5. /\ Linked(store) /\ Loading(store) /\ Passed(pc[c], task[c])
      /\ \A d \in Docs : store.idHash[d] \in use.contents \cup {NULL}
      /\ pc[c] = "applying" => ~store.deferIndex
  BY DEF Vectors, Given
<1>6. LengthsDiffer(use) => Embeds(store.corpus) /\ Fresh(task[c]) /\ OneDocument(pc[c], task[c], store)
  BY DEF Vectors, Embedded
<1> QED BY <1>1, <1>2, <1>3, <1>4, <1>5, <1>6

\* Steps that only choose documents, or let them go.
LEMMA VectorsChosen ==
  ASSUME MergesAlone(Uses), UpdatesAlone(Uses), Vectors, Registered', use' = use, NEW c \in Clients,
         \/ \E batch \in Batches : AddStart(c, batch)
         \/ AddFails(c)
         \/ \E docs \in Batches : IngestStart(c, docs)
         \/ \E src \in Sources : MergeDecide(c, src)
         \/ RetrieveSearch(c)
  PROVE  Vectors'
<1>1. /\ TypeOK /\ use \in Uses /\ pc \in [Clients -> Labels] /\ task \in [Clients -> Task] /\ Linked(store)
      /\ Loading(store) /\ Passed(pc[c], task[c]) /\ (\A d \in Docs : store.idHash[d] \in use.contents \cup {NULL})
      /\ LengthsDiffer(use) => Embeds(store.corpus) /\ Fresh(task[c]) /\ OneDocument(pc[c], task[c], store)
      /\ pc[c] \in Labels /\ (pc[c] = "applying" => ~store.deferIndex)
  BY VectorsNow
<1>2. /\ \A t \in Task : [t EXCEPT !.todo = t.todo] = t
      /\ NoTask \in Task /\ NoTask.todo = <<>> /\ NoTask.preps = <<>>
  BY NoTaskFits DEF Fits, Task, NoTask
<1>3. ASSUME NEW l \in Labels \ {"applying"}, NEW t, UNCHANGED <<store, disk>>,
             pc' = [pc EXCEPT ![c] = l], task' = [task EXCEPT ![c] = t], Passed(l, t),
             LengthsDiffer(use) => Fresh(t) /\ (l = "preparing" => Len(t.todo) + Len(t.preps) <= 1)
      PROVE  Vectors'
  <2>1. LengthsDiffer(use) => OneDocument(l, t, store')
    BY <1>3 DEF OneDocument
  <2> QED BY <1>1, <1>3, <2>1, VectorsStep
<1>4. ASSUME NEW docs \in Seq(Wanted), NEW t, t = [NoTask EXCEPT !.todo = docs]
      PROVE  t.todo = docs /\ t.preps = <<>> /\ Fresh(t) /\ \A l \in Labels : (l = "preparing" => "add" \in use.calls) /\ l # "applying" => Passed(l, t)
  <2>1. t.todo = docs /\ t.preps = <<>>
    BY <1>4 DEF NoTask
  <2>2. \A S : <<>> \in Seq(S)
    OBVIOUS
  <2> QED BY <2>1, <2>2 DEF Fresh, Passed
<1>5. ASSUME NEW b \in Batches, NEW I \in SUBSET (DOMAIN b)
      PROVE  b \in Seq(Wanted) /\ Compacted(b, I) \in Seq(Wanted) /\ (use.batch = 1 => Len(Compacted(b, I)) <= 1)
  <2>1. PICK n \in 0..use.batch : b \in [1..n -> Wanted]
    BY DEF Batches, BoundedSeq, SeqOf, Wanted
  <2>2. b \in Seq(Wanted) /\ DOMAIN b = 1..n /\ n \in Nat
    BY <2>1
  <2>3. Compacted(b, I) \in Seq(Wanted) /\ Len(Compacted(b, I)) = Cardinality(I)
    BY <2>2, Compacts
  <2>4. IsFiniteSet(1..n) /\ Cardinality(1..n) = n
    <3>1. 1 \in Int /\ n \in Int
      BY <2>2
    <3> QED BY <2>2, <3>1, FS_Interval
  <2>5. Cardinality(I) <= n
    BY <2>2, <2>4, FS_Subset
  <2>6. use.batch = 1 => n <= 1
    BY <2>1
  <2>7. Cardinality(I) \in Nat
    BY <2>2, <2>4, FS_Subset, FS_CardinalityType
  <2> QED BY <2>2, <2>3, <2>5, <2>6, <2>7
<1>6. CASE \E batch \in Batches : AddStart(c, batch)
  <2>1. PICK batch \in Batches : AddStart(c, batch)
    BY <1>6
  <2>2. Idle(c, "add") /\ UNCHANGED <<store, disk>>
    BY <2>1 DEF AddStart
  <2>3. pc[c] = "idle" /\ task[c] = NoTask /\ "add" \in use.calls
    BY <1>1, <2>2, AloneInCall
  <2>4. PICK kept \in SUBSET DOMAIN batch :
          IF kept = {} THEN UNCHANGED <<pc, task>>
          ELSE pc' = [pc EXCEPT ![c] = "preparing"] /\ task' = [task EXCEPT ![c].todo = Compacted(batch, kept)]
    BY <2>1 DEF AddStart, Goto
  <2>5. CASE kept = {}
    <3>1. pc' = [pc EXCEPT ![c] = "idle"] /\ task' = [task EXCEPT ![c] = NoTask]
      BY <1>1, <2>3, <2>4, <2>5
    <3> QED BY <1>3, <2>2, <3>1, NoTaskPassed DEF Labels
  <2>6. CASE kept # {}
    <3> DEFINE docs == Compacted(batch, kept)
               t == [NoTask EXCEPT !.todo = docs]
    <3>1. docs \in Seq(Wanted) /\ (use.batch = 1 => Len(docs) <= 1)
      BY <1>5
    <3>2. pc' = [pc EXCEPT ![c] = "preparing"] /\ task' = [task EXCEPT ![c] = t]
      BY <1>1, <2>3, <2>4, <2>6
    <3> HIDE DEF docs
    <3>3. t.todo = docs /\ t.preps = <<>> /\ Fresh(t) /\ Passed("preparing", t)
      BY <1>4, <2>3, <3>1 DEF Labels
    <3> HIDE DEF t
    <3>4. LengthsDiffer(use) => Len(docs) <= 1
      BY <1>1, <2>3, <3>1, UpdatesAlone(Uses) DEF UpdatesAlone
    <3>5. LengthsDiffer(use) => Len(t.todo) + Len(t.preps) <= 1
      <4>1. Len(<<>>) = 0 /\ Len(docs) \in Nat
        BY <3>1
      <4> QED BY <3>3, <3>4, <4>1
    <3> QED BY <1>3, <2>2, <3>2, <3>3, <3>5 DEF Labels
  <2> QED BY <2>5, <2>6
<1>7. CASE AddFails(c) \/ RetrieveSearch(c)
  <2>1. pc' = [pc EXCEPT ![c] = "idle"] /\ task' = [task EXCEPT ![c] = NoTask] /\ UNCHANGED <<store, disk>>
    BY <1>7 DEF AddFails, RetrieveSearch, Return, Goto
  <2> QED BY <1>3, <2>1, NoTaskPassed DEF Labels
<1>8. CASE \E docs \in Batches : IngestStart(c, docs)
  <2>1. PICK docs \in Batches : IngestStart(c, docs)
    BY <1>8
  <2>2. /\ Idle(c, "ingest") /\ pc' = [pc EXCEPT ![c] = "ingesting"] /\ task' = [task EXCEPT ![c].todo = docs]
        /\ UNCHANGED <<store, disk>>
    BY <2>1 DEF IngestStart, Goto
  <2>3. task[c] = NoTask
    BY <1>1, <2>2, AloneInCall
  <2> DEFINE t == [NoTask EXCEPT !.todo = docs]
  <2>4. task' = [task EXCEPT ![c] = t]
    BY <1>1, <2>2, <2>3
  <2>5. docs \in Seq(Wanted)
    BY <1>5
  <2>6. Fresh(t) /\ Passed("ingesting", t)
    BY <1>4, <2>5 DEF Labels
  <2> HIDE DEF t
  <2> QED BY <1>3, <2>2, <2>4, <2>6 DEF Labels
<1>9. CASE \E src \in Sources : MergeDecide(c, src)
  <2>1. PICK src \in Sources : MergeDecide(c, src)
    BY <1>9
  <2> DEFINE I == {i \in DOMAIN src : ~Known(src[i])}
             docs == Compacted(src, I)
             t == [NoTask EXCEPT !.todo = docs]
  <2>2. /\ Idle(c, "merge") /\ pc' = [pc EXCEPT ![c] = "merging"] /\ task' = [task EXCEPT ![c].todo = docs]
        /\ UNCHANGED <<store, disk>>
    BY <2>1 DEF MergeDecide, Goto
  <2>3. task[c] = NoTask
    BY <1>1, <2>2, AloneInCall
  <2>4. src \in Batches /\ I \in SUBSET (DOMAIN src)
    BY DEF Sources
  <2> HIDE DEF I
  <2>5. docs \in Seq(Wanted)
    BY <1>5, <2>4
  <2> HIDE DEF docs
  <2>6. task' = [task EXCEPT ![c] = t]
    BY <1>1, <2>2, <2>3
  <2>7. Fresh(t) /\ Passed("merging", t)
    BY <1>4, <2>5 DEF Labels
  <2> HIDE DEF t
  <2> QED BY <1>3, <2>2, <2>6, <2>7 DEF Labels
<1> QED BY <1>6, <1>7, <1>8, <1>9

\* Where a store is saved it is not built or ingested into; elsewhere its indexes are
\* never deferred.
LEMMA Unsaved ==
  ASSUME SavesApart(Uses), Given, use \in Uses, use.calls \cap {"build", "ingest"} # {}
  PROVE  ~store.deferIndex
<1>1. "save" \notin use.calls
  BY SavesApart(Uses) DEF SavesApart
<1> QED BY <1>1 DEF Given

\* A document that was prepared.
LEMMA VectorsPrepared ==
  ASSUME Vectors, Registered', use' = use, NEW c \in Clients, AddPrepare(c) \/ IngestPrepare(c)
  PROVE  Vectors'
<1> DEFINE s == task[c]
           S == {p \in Prep : p.content \in use.contents}
           F == {p \in Prep : p.vecs = Pieces[p.content]}
           d == Head(s.todo)
           q == Prepared(d)
<1>1. /\ store \in StoreObject /\ pc \in [Clients -> Labels] /\ pc[c] \in Labels /\ task \in [Clients -> Task]
      /\ s \in [todo : Seq(Document), preps : Seq(Prep), changed : BOOLEAN]
      /\ Linked(store) /\ Loading(store) /\ Passed(pc[c], s)
      /\ \A e \in Docs : store.idHash[e] \in use.contents \cup {NULL}
      /\ LengthsDiffer(use) => Embeds(store.corpus) /\ Fresh(s) /\ OneDocument(pc[c], s, store)
  BY VectorsNow
<1>2. /\ pc[c] \in {"preparing", "ingesting"} /\ s.todo # <<>> /\ UNCHANGED <<store, disk, pc>>
  BY DEF AddPrepare, IngestPrepare
<1>3. s.todo \in Seq(Wanted) /\ s.preps \in Seq(S) /\ s.todo \in Seq(Document)
  BY <1>1 DEF Passed
<1>4. d \in Wanted /\ d \in Document /\ Tail(s.todo) \in Seq(Wanted)
      /\ Len(s.todo) \in Nat /\ Len(Tail(s.todo)) = Len(s.todo) - 1
  BY <1>2, <1>3, Shortened
<1>5. q \in Prep /\ q.content = d.content /\ (Embeds(store.corpus) => q.vecs = Pieces[d.content])
  BY <1>1, <1>4, PreparedType DEF Document
<1>6. q \in S
  BY <1>4, <1>5 DEF Wanted
<1>7. LengthsDiffer(use) => q \in F /\ s.preps \in Seq(F)
  BY <1>1, <1>5 DEF Fresh
<1> HIDE DEF q, d, S, F
<1>8. ASSUME NEW x \in {s.preps, Append(s.preps, q)}, NEW t, t = [s EXCEPT !.todo = Tail(@), !.preps = x],
             task' = [task EXCEPT ![c] = t]
      PROVE  Vectors'
  <2>1. t.todo = Tail(s.todo) /\ t.preps = x
    BY <1>1, <1>8
  <2>2. x \in Seq(S) /\ Len(s.preps) \in Nat /\ Len(x) \in {Len(s.preps), Len(s.preps) + 1}
    <3>1. /\ Append(s.preps, q) \in Seq(S) /\ Len(s.preps) \in Nat
          /\ Len(Append(s.preps, q)) = Len(s.preps) + 1
      BY <1>3, <1>6, Shortened
    <3> QED BY <1>3, <1>8, <3>1
  <2>3. LengthsDiffer(use) => x \in Seq(F)
    BY <1>7, <1>8, Shortened
  <2>4. Passed(pc[c], t)
    BY <1>1, <1>4, <2>1, <2>2 DEF Passed, S
  <2>5. LengthsDiffer(use) => Fresh(t)
    BY <2>1, <2>3 DEF Fresh, F
  <2>6. Len(s.todo) + Len(s.preps) <= 1 => Len(t.todo) + Len(t.preps) <= 1
    <3> DEFINE i == Len(s.todo)
               j == Len(s.preps)
               k == Len(t.todo)
               l == Len(t.preps)
    <3>1. i \in Nat /\ j \in Nat /\ k = i - 1 /\ l \in {j, j + 1}
      BY <1>4, <2>1, <2>2
    <3> HIDE DEF i, j, k, l
    <3>2. i + j <= 1 => k + l <= 1
      BY <3>1
    <3> QED BY <3>2 DEF i, j, k, l
  <2>7. LengthsDiffer(use) => OneDocument(pc[c], t, store')
    <3>1. ASSUME LengthsDiffer(use), pc[c] = "preparing" PROVE Len(t.todo) + Len(t.preps) <= 1
      BY <1>1, <2>6, <3>1 DEF OneDocument
    <3> QED BY <1>2, <3>1 DEF OneDocument
  <2>8. pc' = [pc EXCEPT ![c] = pc[c]]
    BY <1>1, <1>2
  <2> QED BY <1>1, <1>2, <1>8, <2>4, <2>5, <2>7, <2>8, VectorsStep
<1>9. CASE AddPrepare(c)
  <2> DEFINE x == IF q.vecs = <<>> THEN s.preps ELSE Append(s.preps, q)
  <2>1. task' = [task EXCEPT ![c].todo = Tail(@), ![c].preps = x]
    BY <1>1, <1>9 DEF AddPrepare, q, d, Task
  <2>2. x \in {s.preps, Append(s.preps, q)}
    OBVIOUS
  <2> HIDE DEF x
  <2>3. task' = [task EXCEPT ![c] = [s EXCEPT !.todo = Tail(@), !.preps = x]]
    BY <1>1, <2>1 DEF Task
  <2> QED BY <1>8, <2>2, <2>3
<1>10. CASE IngestPrepare(c)
  <2>1. \/ task' = [task EXCEPT ![c].todo = Tail(@), ![c].preps = Append(@, q)]
        \/ task' = [task EXCEPT ![c].todo = Tail(@)]
    BY <1>10 DEF IngestPrepare, q, d
  <2>2. \/ task' = [task EXCEPT ![c] = [s EXCEPT !.todo = Tail(@), !.preps = Append(s.preps, q)]]
        \/ task' = [task EXCEPT ![c] = [s EXCEPT !.todo = Tail(@), !.preps = s.preps]]
    BY <1>1, <2>1 DEF Task
  <2> QED BY <1>8, <2>2
<1> QED BY <1>9, <1>10

\* Where lengths tell old vectors from new, nothing is to be rebuilt when a client that
\* adds a document takes the lock, or while a client merges.
LEMMA NothingStale ==
  ASSUME MergesAlone(Uses), UpdatesAlone(Uses), Shape, NEW c \in Clients, writer = NULL,
         \/ pc[c] = "preparing" /\ "add" \in use.calls /\ LengthsDiffer(use)
         \/ pc[c] = "merging"
  PROVE  ~store.deferIndex => ~store.needsRebuild
<1>1. ASSUME NEW b \in Clients, pc[b] \in {"recording", "reindexing"} PROVE FALSE
  <2>1. use.atOnce = 1
    BY <1>1, MergesAlone(Uses) DEF MergesAlone, Shape, InCall, TypeOK
  <2>2. b = c
    BY <1>1, <2>1 DEF Shape, OneAtATime
  <2> QED BY <1>1, <2>2
<1>2. ASSUME NEW b \in Clients, pc[b] = "ingesting" PROVE FALSE
  <2>1. CASE pc[c] = "preparing" /\ "add" \in use.calls /\ LengthsDiffer(use)
    BY <1>2, <2>1, UpdatesAlone(Uses) DEF UpdatesAlone, Shape, InCall, TypeOK
  <2>2. CASE pc[c] = "merging"
    BY <1>2, <2>2, MergeAlone
  <2> QED BY <2>1, <2>2
<1>3. Quiet
  BY <1>1, <1>2 DEF Quiet
<1> QED BY <1>3 DEF Shape, Settled

\* Steps that build what is missing, and leave the documents as they are.
LEMMA VectorsRefreshed ==
  ASSUME MergesAlone(Uses), UpdatesAlone(Uses), Vectors, Registered', use' = use, NEW c \in Clients,
         AddLock(c) \/ AddUnlock(c) \/ IngestEnd(c) \/ MergeReindex(c) \/ RetrieveEnsure(c)
  PROVE  Vectors'
<1> DEFINE s == task[c]
<1>1. /\ TypeOK /\ Shape /\ store \in StoreObject /\ use \in Uses
      /\ pc \in [Clients -> Labels] /\ pc[c] \in Labels /\ task \in [Clients -> Task]
      /\ s \in [todo : Seq(Document), preps : Seq(Prep), changed : BOOLEAN]
      /\ Linked(store) /\ Loading(store) /\ Passed(pc[c], s)
      /\ \A d \in Docs : store.idHash[d] \in use.contents \cup {NULL}
      /\ pc[c] = "applying" => ~store.deferIndex
      /\ LengthsDiffer(use) => Embeds(store.corpus) /\ Fresh(s) /\ OneDocument(pc[c], s, store)
  BY VectorsNow
<1>2. ASSUME NEW l \in Labels, NEW t, disk' = disk, writer = NULL \/ pc[c] = "applying",
             pc' = [pc EXCEPT ![c] = l], task' = [task EXCEPT ![c] = t],
             Linked(store'), SameDocs(store, store'), store'.deferIndex => store' = store,
             LengthsDiffer(use) => store'.corpus = store.corpus /\ Fresh(t) /\ OneDocument(l, t, store'),
             Passed(l, t), l = "applying" => ~store'.deferIndex
      PROVE  Vectors'
  <2>1. \A b \in Clients : b # c => pc[b] # "applying"
    BY <1>1, <1>2, NoneApplies
  <2>2. \A d \in Docs : store'.idHash[d] \in use.contents \cup {NULL}
    BY <1>1, <1>2 DEF SameDocs, SameRegistry
  <2>3. LengthsDiffer(use) => Embeds(store'.corpus)
    BY <1>1, <1>2
  <2>4. (store'.deferIndex => store.deferIndex) /\ Loading(store')
    BY <1>1, <1>2 DEF Loading
  <2> QED BY <1>2, <2>1, <2>2, <2>3, <2>4, VectorsStep
<1>3. \A m : OneDocument("idle", NoTask, m) /\ OneDocument("searching", s, m) /\ OneDocument("boosting", s, m)
  BY DEF OneDocument
<1> HIDE DEF s
<1>4. CASE AddLock(c)
  <2>1. /\ pc[c] = "preparing" /\ writer = NULL /\ s.todo = <<>> /\ disk' = disk
        /\ IF s.preps = <<>>
           THEN pc' = [pc EXCEPT ![c] = "idle"] /\ task' = [task EXCEPT ![c] = NoTask] /\ store' = store
           ELSE store' = ensureSearchLocked(store) /\ pc' = [pc EXCEPT ![c] = "applying"] /\ task' = task
    BY <1>4 DEF AddLock, Return, Goto, s
  <2>2. CASE s.preps = <<>>
    <3>1. SameDocs(store, store)
      BY DEF SameDocs, SameRegistry
    <3> QED BY <1>1, <1>2, <1>3, <2>1, <2>2, <3>1, NoTaskPassed DEF Labels
  <2>3. CASE s.preps # <<>>
    <3>1. /\ store' \in StoreObject /\ SameDocs(store, store') /\ Current(store') /\ ~store'.deferIndex
          /\ store'.corpus = store.corpus
          /\ store.deferIndex => ~store'.needsRebuild
          /\ ~store.deferIndex => store' = store
      BY <1>1, <2>1, <2>3, LinkedEnsured
    <3>2. "add" \in use.calls
      BY <1>1, <2>1 DEF Passed
    <3>3. LengthsDiffer(use) => ~store'.needsRebuild
      BY <1>1, <2>1, <3>1, <3>2, NothingStale
    <3>4. LengthsDiffer(use) => Len(s.preps) = 1
      <4>1. s.todo \in Seq(Document) /\ s.preps \in Seq(Prep)
        BY <1>1
      <4>2. Len(s.todo) = 0 /\ Len(s.preps) \in Nat \ {0}
        BY <2>1, <2>3, <4>1
      <4>3. LengthsDiffer(use) => Len(s.todo) + Len(s.preps) <= 1
        BY <1>1, <2>1 DEF OneDocument
      <4> DEFINE i == Len(s.todo)
                 j == Len(s.preps)
      <4>4. i = 0 /\ j \in Nat \ {0}
        BY <4>2
      <4> HIDE DEF i, j
      <4>5. i + j <= 1 => j = 1
        BY <4>4
      <4> QED BY <4>3, <4>5 DEF i, j
    <3>5. LengthsDiffer(use) => OneDocument("applying", s, store')
      BY <2>3, <3>3, <3>4 DEF OneDocument
    <3>6. Passed("applying", s)
      BY <1>1, <3>2 DEF Passed
    <3>7. task' = [task EXCEPT ![c] = s]
      BY <1>1, <2>1, <2>3 DEF s
    <3>8. Linked(store')
      BY <3>1 DEF Linked
    <3> QED BY <1>1, <1>2, <2>1, <2>3, <3>1, <3>5, <3>6, <3>7, <3>8 DEF Labels
  <2> QED BY <2>2, <2>3
<1>5. CASE AddUnlock(c)
  <2> DEFINE m == IF s.changed THEN shareVectorsLocked(store) ELSE store
  <2>1. /\ pc[c] = "applying" /\ s.preps = <<>> /\ disk' = disk /\ store' = reindexLocked(m)
        /\ pc' = [pc EXCEPT ![c] = "idle"] /\ task' = [task EXCEPT ![c] = NoTask]
    BY <1>5 DEF AddUnlock, Return, Goto, s
  <2>2. Current(store) /\ ~store.deferIndex
    BY <1>1, <2>1 DEF Linked
  <2>3. SameDocs(store, store)
    BY DEF SameDocs, SameRegistry
  <2>4. LengthsDiffer(use) => (store.index # NULL /\ store.needsRebuild => Len(store.index) # Len(store.corpus))
    BY <1>1, <2>1 DEF OneDocument
  <2>5. m \in StoreObject /\ SameDocs(store, m) /\ Current(m) /\ ~m.deferIndex
        /\ (LengthsDiffer(use) => m.corpus = store.corpus)
    BY <1>1, <2>2, <2>3, <2>4, CurrentShared
  <2> HIDE DEF m
  <2>6. Linked(m)
    BY <2>5 DEF Linked
  <2>7. SameDocs(m, store') /\ Linked(store') /\ ~store'.deferIndex /\ store'.corpus = m.corpus
    BY <2>1, <2>5, <2>6, LinkedReindexed
  <2>8. SameDocs(store, store')
    BY <2>5, <2>7 DEF SameDocs, SameRegistry
  <2> QED BY <1>2, <1>3, <2>1, <2>5, <2>7, <2>8, NoTaskPassed DEF Labels
<1>6. CASE IngestEnd(c) \/ MergeReindex(c)
  <2> DEFINE m == ensureGraphLocked(store)
  <2>1. /\ writer = NULL /\ disk' = disk /\ store' = reindexLocked(m)
        /\ pc' = [pc EXCEPT ![c] = "idle"] /\ task' = [task EXCEPT ![c] = NoTask]
    BY <1>6 DEF IngestEnd, MergeReindex, Return, Goto
  <2>2. m \in StoreObject /\ SameDocs(store, m) /\ Linked(m) /\ ~m.deferIndex /\ m.corpus = store.corpus
    BY <1>1, LinkedGraph
  <2> HIDE DEF m
  <2>3. SameDocs(m, store') /\ Linked(store') /\ ~store'.deferIndex /\ store'.corpus = m.corpus
    BY <2>1, <2>2, LinkedReindexed
  <2>4. SameDocs(store, store')
    BY <2>2, <2>3 DEF SameDocs, SameRegistry
  <2> QED BY <1>2, <1>3, <2>1, <2>2, <2>3, <2>4, NoTaskPassed DEF Labels
<1>7. CASE RetrieveEnsure(c)
  <2>1. PICK l \in {"searching", "boosting"} :
          /\ Idle(c, "retrieve") \/ Idle(c, "graph")
          /\ UNCHANGED <<disk, task>> /\ pc' = [pc EXCEPT ![c] = l]
          /\ store' \in {ensureSearchLocked(store), ensureGraphLocked(store)}
    BY <1>7 DEF RetrieveEnsure, Goto
  <2>2. pc[c] = "idle" /\ writer = NULL
    BY <2>1 DEF Idle
  <2>3. task' = [task EXCEPT ![c] = s]
    BY <1>1, <2>1 DEF s
  <2>4. Passed(l, s)
    BY <1>1, <2>1 DEF Passed
  <2>5. SameDocs(store, store') /\ Linked(store') /\ ~store'.deferIndex /\ store'.corpus = store.corpus
    BY <1>1, <2>1, LinkedEnsured, LinkedGraph DEF Linked
  <2>6. l \in Labels /\ l # "applying"
    BY <2>1 DEF Labels
  <2>7. LengthsDiffer(use) => Fresh(s) /\ OneDocument(l, s, store')
    BY <1>1, <1>3, <2>1
  <2> QED BY <1>2, <2>1, <2>2, <2>3, <2>4, <2>5, <2>6, <2>7
<1> QED BY <1>4, <1>5, <1>6, <1>7

\* A prepared document that is applied.
LEMMA VectorsApplied ==
  ASSUME MergesAlone(Uses), SavesApart(Uses), Vectors, Registered', use' = use, NEW c \in Clients,
         AddApply(c) \/ IngestApply(c)
  PROVE  Vectors'
<1> DEFINE s == task[c]
           S == {p \in Prep : p.content \in use.contents}
           F == {p \in Prep : p.vecs = Pieces[p.content]}
<1>1. /\ TypeOK /\ Shape /\ Registered /\ Fit(store) /\ store \in StoreObject /\ use \in Uses
      /\ pc \in [Clients -> Labels] /\ pc[c] \in Labels /\ task \in [Clients -> Task]
      /\ s \in [todo : Seq(Document), preps : Seq(Prep), changed : BOOLEAN]
      /\ store.corpus \in Seq(Element) /\ store.idHash \in [Docs -> Contents \cup {NULL}]
      /\ Linked(store) /\ Loading(store) /\ Passed(pc[c], s)
      /\ \A d \in Docs : store.idHash[d] \in use.contents \cup {NULL}
      /\ pc[c] = "applying" => ~store.deferIndex
      /\ LengthsDiffer(use) => Embeds(store.corpus) /\ Fresh(s) /\ OneDocument(pc[c], s, store)
  BY VectorsNow
<1>2. s.preps \in Seq(Prep) /\ s.preps \in Seq(S) /\ (LengthsDiffer(use) => s.preps \in Seq(F))
  BY <1>1 DEF Passed, Fresh
<1>3. pc[c] \in {"applying", "ingesting"} /\ UNCHANGED <<disk, pc>> /\ (writer = NULL \/ pc[c] = "applying")
  BY DEF AddApply, IngestApply
<1>4. ~store.deferIndex
  <2>1. CASE pc[c] = "applying"
    BY <1>1, <2>1
  <2>2. CASE pc[c] = "ingesting"
    <3>1. "ingest" \in use.calls
      BY <1>1, <2>2 DEF Shape, InCall
    <3>2. Given
      BY DEF Vectors
    <3> QED BY <1>1, <3>1, <3>2, Unsaved
  <2> QED BY <1>3, <2>1, <2>2
<1>5. Faithful(store)
  <2>1. NoMerge
    BY <1>1, <1>3, NoMergeBeside
  <2> QED BY <1>1, <2>1, RegistryQuiet
<1>6. ASSUME NEW p \in S, LengthsDiffer(use) => p \in F, store' = applyPreparedLocked(store, p),
             NEW x \in Seq(S), LengthsDiffer(use) => x \in Seq(F),
             NEW t, t.todo = s.todo, t.preps = x, task' = [task EXCEPT ![c] = t],
             pc[c] = "applying" => s.preps # <<>> /\ Len(s.preps) \in Nat /\ Len(x) = Len(s.preps) - 1
      PROVE  Vectors'
  <2> DEFINE e == store.idHash[p.id]
  <2>1. p \in Prep /\ p.id \in Docs /\ p.content \in use.contents
    BY DEF Prep
  <2>2. Kept(store.corpus, p.id, e)
    BY <1>5, <2>1 DEF Faithful
  <2>3. /\ store' \in StoreObject /\ Current(store') /\ ~store'.deferIndex
        /\ Embeds(store.corpus) /\ p.vecs = Pieces[p.content] => Embeds(store'.corpus)
        /\ ~store.needsRebuild /\ store'.needsRebuild =>
             /\ store'.index # NULL /\ e \in Contents /\ e # p.content
             /\ Len(store'.index) = Len(store.corpus)
             /\ Len(store'.corpus) + Len(Pieces[e]) = Len(store.corpus) + Len(Pieces[p.content])
    BY <1>1, <1>4, <1>6, <2>1, <2>2, CurrentApplied DEF Linked
  <2>4. \A d \in Docs : store'.idHash[d] \in use.contents \cup {NULL}
    <3>1. store'.idHash = store.idHash \/ store'.idHash = [store.idHash EXCEPT ![p.id] = p.content]
      BY <1>1, <1>6, <2>1, Applied DEF SameRegistry
    <3> QED BY <1>1, <2>1, <3>1
  <2>5. Passed(pc[c], t)
    BY <1>1, <1>6 DEF Passed
  <2>6. LengthsDiffer(use) => Fresh(t) /\ Embeds(store'.corpus)
    BY <1>1, <1>6, <2>3 DEF Fresh
  <2>7. ASSUME LengthsDiffer(use), pc[c] = "applying" PROVE OneDocument(pc[c], t, store')
    <3>1. Len(s.preps) = 1 /\ ~store.needsRebuild
      BY <1>1, <1>6, <2>7 DEF OneDocument
    <3>2. t.preps = <<>>
      BY <1>6, <2>7, <3>1
    <3>3. ASSUME store'.needsRebuild PROVE Len(store'.index) # Len(store'.corpus)
      <4>1. /\ e \in Contents /\ e # p.content /\ Len(store'.index) = Len(store.corpus)
            /\ Len(store'.corpus) + Len(Pieces[e]) = Len(store.corpus) + Len(Pieces[p.content])
        BY <2>3, <3>1, <3>3
      <4>2. e \in use.contents
        BY <1>1, <2>1, <4>1, NullAssumption
      <4>3. Len(Pieces[e]) # Len(Pieces[p.content])
        BY <2>1, <2>7, <4>1, <4>2 DEF LengthsDiffer
      <4>4. p.content \in Contents
        BY <2>1 DEF Prep
      <4>5. Len(Pieces[e]) \in Nat /\ Len(Pieces[p.content]) \in Nat
        BY <4>1, <4>4, PiecesType
      <4>6. Len(store.corpus) \in Nat
        BY <1>1
      <4>7. store'.corpus \in Seq(Element)
        BY <2>3, StoreFields
      <4>8. Len(store'.corpus) \in Nat
        BY <4>7
      <4> DEFINE i == Len(store'.corpus)
                 j == Len(store.corpus)
                 k == Len(Pieces[e])
                 l == Len(Pieces[p.content])
      <4>9. i \in Nat /\ j \in Nat /\ k \in Nat /\ l \in Nat /\ i + k = j + l /\ k # l
        BY <4>1, <4>3, <4>5, <4>6, <4>8
      <4> HIDE DEF e, i, j, k, l
      <4>10. i # j
        BY <4>9
      <4> QED BY <4>1, <4>10 DEF i, j
    <3> QED BY <2>7, <3>2, <3>3 DEF OneDocument
  <2>8. LengthsDiffer(use) => OneDocument(pc[c], t, store')
    <3>1. pc[c] = "ingesting" => OneDocument(pc[c], t, store')
      BY DEF OneDocument
    <3> QED BY <1>3, <2>7, <3>1
  <2>9. \A b \in Clients : b # c => pc[b] # "applying"
    BY <1>1, <1>3, NoneApplies
  <2>10. pc' = [pc EXCEPT ![c] = pc[c]]
    BY <1>1, <1>3
  <2>11. Linked(store')
    BY <2>3 DEF Linked
  <2>12. Loading(store')
    BY <2>3 DEF Loading
  <2> QED BY <1>1, <1>3, <1>6, <2>3, <2>4, <2>5, <2>6, <2>8, <2>9, <2>10, <2>11, <2>12, VectorsStep
<1> HIDE DEF S, F
<1>7. CASE AddApply(c)
  <2> DEFINE p == Head(s.preps)
             x == Tail(s.preps)
             b == s.changed \/ ~Rejected(store, p)
             t == [s EXCEPT !.preps = x, !.changed = b]
  <2>1. s.preps # <<>> /\ store' = applyPreparedLocked(store, p)
        /\ task' = [task EXCEPT ![c].preps = Tail(@), ![c].changed = @ \/ ~Rejected(store, p)]
    BY <1>7 DEF AddApply
  <2>2. p \in S /\ x \in Seq(S) /\ Len(s.preps) \in Nat /\ Len(x) = Len(s.preps) - 1
    BY <1>2, <2>1, Shortened
  <2>3. LengthsDiffer(use) => p \in F /\ x \in Seq(F)
    BY <1>2, <2>1, Shortened
  <2>4. task' = [task EXCEPT ![c] = t]
    <3> HIDE DEF p
    <3> QED BY <1>1, <2>1 DEF Task
  <2>5. t.todo = s.todo /\ t.preps = x
    <3> HIDE DEF b, x
    <3> QED BY <1>1
  <2> HIDE DEF t, p, x, s
  <2> QED BY <1>6, <2>1, <2>2, <2>3, <2>4, <2>5
<1>8. CASE IngestApply(c)
  <2>1. PICK i \in DOMAIN s.preps : /\ store' = applyPreparedLocked(store, s.preps[i])
                                    /\ task' = [task EXCEPT ![c].preps = RemoveAt(@, i)]
    BY <1>8 DEF IngestApply
  <2> DEFINE p == s.preps[i]
             x == RemoveAt(s.preps, i)
             t == [s EXCEPT !.preps = x]
  <2>2. p \in S /\ x \in Seq(S)
    BY <1>2, Shortened
  <2>3. LengthsDiffer(use) => p \in F /\ x \in Seq(F)
    BY <1>2, Shortened
  <2>4. task' = [task EXCEPT ![c] = t]
    BY <1>1, <2>1 DEF Task
  <2>5. t.todo = s.todo /\ t.preps = x
    <3> HIDE DEF x
    <3> QED BY <1>1
  <2>6. pc[c] # "applying"
    BY <1>8 DEF IngestApply
  <2>7. store' = applyPreparedLocked(store, p)
    BY <2>1
  <2> HIDE DEF t, p, x, s
  <2> QED BY <1>6, <2>2, <2>3, <2>4, <2>5, <2>6, <2>7
<1> QED BY <1>7, <1>8

\* A document that is taken away, and a store that is built.
LEMMA VectorsReplaced ==
  ASSUME SavesApart(Uses), Vectors, Registered', use' = use, NEW c \in Clients,
         (\E d \in Docs : DeleteDocument(c, d)) \/ (\E docs \in Sources : Build(c, docs))
  PROVE  Vectors'
<1>1. /\ TypeOK /\ store \in StoreObject /\ use \in Uses
      /\ pc \in [Clients -> Labels] /\ pc[c] \in Labels /\ task \in [Clients -> Task]
      /\ store.idHash \in [Docs -> Contents \cup {NULL}]
      /\ Linked(store) /\ Loading(store) /\ Passed(pc[c], task[c])
      /\ \A d \in Docs : store.idHash[d] \in use.contents \cup {NULL}
      /\ LengthsDiffer(use) => Embeds(store.corpus) /\ Fresh(task[c])
  BY VectorsNow
<1>2. ASSUME pc[c] = "idle", writer = NULL, UNCHANGED <<disk, pc, task>>, Linked(store'), Loading(store'),
             store'.deferIndex => store.deferIndex,
             \A d \in Docs : store'.idHash[d] \in use.contents \cup {NULL},
             LengthsDiffer(use) => Embeds(store'.corpus)
      PROVE  Vectors'
  <2>1. \A b \in Clients : b # c => pc[b] # "applying"
    BY <1>1, <1>2, NoneApplies
  <2>2. pc' = [pc EXCEPT ![c] = pc[c]] /\ task' = [task EXCEPT ![c] = task[c]]
    BY <1>1, <1>2
  <2>3. OneDocument(pc[c], task[c], store')
    BY <1>2 DEF OneDocument
  <2> QED BY <1>1, <1>2, <2>1, <2>2, <2>3, VectorsStep
<1>3. ASSUME NEW d \in Docs, DeleteDocument(c, d) PROVE Vectors'
  <2> DEFINE gone == [removeDocLocked(store, d) EXCEPT !.latest[d] = NULL]
  <2>1. /\ Idle(c, "delete") /\ UNCHANGED <<disk, pc, task>>
        /\ store' = IF Len(gone.corpus) # Len(store.corpus) THEN reindexLocked(gone) ELSE gone
    BY <1>3 DEF DeleteDocument
  <2>2. store.deferIndex => "merge" \notin use.calls /\ Shrinking(store)
    <3>1. "delete" \in use.calls /\ Given
      BY <2>1 DEF Idle, Vectors
    <3>2. store.deferIndex => "merge" \notin use.calls
      BY <1>1, <3>1, SavesApart(Uses) DEF Given, SavesApart
    <3> QED BY <1>1, <3>2 DEF Loading
  <2>3. /\ Linked(store') /\ store'.deferIndex = store.deferIndex /\ (store'.deferIndex => Shrinking(store'))
        /\ Embeds(store.corpus) => Embeds(store'.corpus)
    BY <1>1, <2>1, <2>2, LinkedDeleted
  <2>4. store'.idHash = [store.idHash EXCEPT ![d] = NULL]
    BY <1>1, <2>1, Deleted
  <2>5. \A e \in Docs : store'.idHash[e] \in use.contents \cup {NULL}
    BY <1>1, <2>4
  <2>6. pc[c] = "idle" /\ writer = NULL
    BY <2>1 DEF Idle
  <2>7. Loading(store')
    BY <2>2, <2>3 DEF Loading
  <2> QED BY <1>1, <1>2, <2>1, <2>3, <2>5, <2>6, <2>7
<1>4. ASSUME NEW docs \in Sources, Build(c, docs) PROVE Vectors'
  <2>1. /\ Idle(c, "build") /\ UNCHANGED <<disk, pc, task>>
        /\ store' = reindexLocked(shareVectorsLocked(recordAll(appendChunksLocked(Blank(store), AllElements(docs)), docs)))
    BY <1>4 DEF Build
  <2>2. docs \in Seq([id : Docs, content : Contents]) /\ Distinct(docs) /\ \A i \in DOMAIN docs : docs[i].content \in use.contents
    BY <1>1, SourceType DEF Document
  <2>3. pc[c] = "idle" /\ writer = NULL /\ "build" \in use.calls
    BY <2>1 DEF Idle
  <2>4. ~store.deferIndex
    <3>1. Given
      BY DEF Vectors
    <3> QED BY <1>1, <2>3, <3>1, Unsaved
  <2>5. Current(store') /\ ~store'.deferIndex /\ Embeds(store'.corpus)
    BY <1>1, <2>1, <2>2, <2>4, CurrentBuilt
  <2>6. \A d \in Docs : store'.idHash[d] \in use.contents \cup {NULL}
    <3>1. /\ \A d \in Docs : (\A i \in DOMAIN docs : docs[i].id # d) => store'.idHash[d] = NULL
          /\ \A i \in DOMAIN docs : store'.idHash[docs[i].id] = docs[i].content
      BY <1>1, <2>1, <2>2, BuiltStore
    <3> QED BY <2>2, <3>1
  <2>7. Linked(store') /\ Loading(store')
    BY <2>5 DEF Linked, Loading
  <2> QED BY <1>2, <2>1, <2>3, <2>5, <2>6, <2>7
<1> QED BY <1>3, <1>4

\* The two steps of a merge that change the store.
LEMMA VectorsMerged ==
  ASSUME MergesAlone(Uses), UpdatesAlone(Uses), SavesApart(Uses), Vectors, Registered', use' = use, NEW c \in Clients,
         MergeAppend(c) \/ MergeRecord(c)
  PROVE  Vectors'
<1> DEFINE docs == task[c].todo
           els == AllElements(docs)
<1>1. /\ TypeOK /\ Shape /\ Registered /\ Fit(store) /\ store \in StoreObject /\ use \in Uses
      /\ pc \in [Clients -> Labels] /\ pc[c] \in Labels /\ task \in [Clients -> Task]
      /\ task[c] \in [todo : Seq(Document), preps : Seq(Prep), changed : BOOLEAN]
      /\ Linked(store) /\ Loading(store) /\ Passed(pc[c], task[c])
      /\ \A d \in Docs : store.idHash[d] \in use.contents \cup {NULL}
      /\ LengthsDiffer(use) => Embeds(store.corpus) /\ Fresh(task[c])
  BY VectorsNow
<1>2. /\ writer = NULL /\ UNCHANGED <<disk, task>> /\ pc[c] \in {"merging", "recording"}
  BY DEF MergeAppend, MergeRecord
<1>3. docs \in Seq([id : Docs, content : Contents]) /\ docs \in Seq(Wanted)
  BY <1>1 DEF Passed, Document
<1>4. store.deferIndex => Extending(store)
  <2>1. "merge" \in use.calls
    BY <1>1, <1>2 DEF Shape, InCall
  <2> QED BY <1>1, <2>1 DEF Loading
<1>5. ASSUME NEW l \in {"recording", "reindexing"}, pc' = [pc EXCEPT ![c] = l],
             Linked(store'), store'.deferIndex => store.deferIndex /\ Extending(store'),
             \A d \in Docs : store'.idHash[d] \in use.contents \cup {NULL},
             LengthsDiffer(use) => Embeds(store'.corpus)
      PROVE  Vectors'
  <2>1. \A b \in Clients : b # c => pc[b] # "applying"
    BY <1>1, <1>2, NoneApplies
  <2>2. task' = [task EXCEPT ![c] = task[c]]
    BY <1>1, <1>2
  <2>3. OneDocument(l, task[c], store') /\ Passed(l, task[c])
    BY <1>1, <1>5 DEF OneDocument, Passed
  <2>4. l \in Labels /\ l # "applying"
    BY <1>5 DEF Labels
  <2>5. LengthsDiffer(use) => Embeds(store'.corpus) /\ Fresh(task[c]) /\ OneDocument(l, task[c], store')
    BY <1>1, <1>5, <2>3
  <2>6. Loading(store')
    <3>1. "merge" \in use.calls
      BY <1>1, <1>2 DEF Shape, InCall
    <3> QED BY <1>5, <3>1 DEF Loading
  <2> QED BY <1>2, <1>5, <2>1, <2>2, <2>3, <2>4, <2>5, <2>6, VectorsStep
<1> HIDE DEF docs
<1>6. CASE MergeAppend(c)
  <2>1. /\ pc[c] = "merging" /\ pc' = [pc EXCEPT ![c] = "recording"]
        /\ store' = IF els = <<>> THEN store
                    ELSE shareVectorsLocked(appendChunksLocked(
                           IF store.index = NULL THEN initIndexes(store) ELSE store, els))
    BY <1>6 DEF MergeAppend, Goto, docs
  <2>2. ~store.deferIndex => ~store.needsRebuild
    BY <1>1, <1>2, <2>1, NothingStale
  <2>3. /\ Linked(store') /\ (store'.deferIndex => store.deferIndex /\ Extending(store'))
        /\ Embeds(store.corpus) => Embeds(store'.corpus)
    <3>1. CASE ~store.deferIndex
      BY <1>1, <1>3, <2>1, <2>2, <3>1, CurrentMerged DEF Linked
    <3>2. CASE store.deferIndex
      BY <1>1, <1>3, <1>4, <2>1, <3>2, LinkedExtended
    <3> QED BY <3>1, <3>2
  <2>4. store'.idHash = store.idHash
    BY <1>1, <1>3, <2>1, MergedStore
  <2> HIDE DEF els
  <2> QED BY <1>1, <1>5, <2>1, <2>3, <2>4
<1>7. CASE MergeRecord(c)
  <2>1. pc[c] = "recording" /\ pc' = [pc EXCEPT ![c] = "reindexing"] /\ store' = recordAll(store, docs)
    BY <1>7 DEF MergeRecord, Goto, docs
  <2>2. Distinct(docs)
    BY <1>1, <2>1 DEF Registered, Merging, docs
  <2>3. /\ store'.corpus = store.corpus /\ store'.index = store.index
        /\ store'.needsRebuild = store.needsRebuild /\ store'.deferIndex = store.deferIndex
        /\ \A d \in Docs : (\A i \in DOMAIN docs : docs[i].id # d) => store'.idHash[d] = store.idHash[d]
        /\ \A i \in DOMAIN docs : store'.idHash[docs[i].id] = docs[i].content
    BY <1>1, <1>3, <2>1, <2>2, RecordedAll
  <2>4. \A i \in DOMAIN docs : docs[i].content \in use.contents
    <3>1. \A i \in DOMAIN docs : docs[i] \in Wanted
      BY <1>3, Shortened
    <3> QED BY <3>1 DEF Wanted
  <2>5. \A d \in Docs : store'.idHash[d] \in use.contents \cup {NULL}
    BY <1>1, <2>3, <2>4
  <2>6. store'.savedLinks = store.savedLinks /\ store'.flat = store.flat
    BY <1>1, <2>1 DEF recordAll, StoreObject
  <2>7. Linked(store') /\ (store'.deferIndex => store.deferIndex /\ Extending(store'))
    BY <1>1, <1>4, <2>3, <2>6, SameCurrent DEF Linked, Extending
  <2> QED BY <1>1, <1>5, <2>1, <2>3, <2>5, <2>7
<1> QED BY <1>6, <1>7

\* A snapshot carries the links of its vectors, and is loaded with them.
LEMMA VectorsSaved ==
  ASSUME Vectors, Registered', use' = use, NEW mode \in use.modes, Save(mode)
  PROVE  Vectors'
<1>1. store \in StoreObject /\ Linked(store) /\ Given
  BY DEF Vectors, Registered, Shape, TypeOK
<1>2. /\ "save" \in use.calls /\ store.index # NULL /\ UNCHANGED <<store, pc, task>>
      /\ disk' = [corpus |-> store.corpus, idHash |-> store.idHash, latest |-> store.latest,
                  links |-> hnswSnapshot, mode |-> mode]
  BY DEF Save
<1>3. /\ disk'.corpus = store.corpus /\ disk'.idHash = store.idHash /\ disk'.mode = mode
      /\ disk'.links = hnswSnapshot
  BY <1>2
<1>4. disk'.links # NULL => disk'.links = [i \in DOMAIN store.corpus |-> store.corpus[i].vec]
  BY <1>1, <1>2, <1>3, LinksSaved DEF LinksOf
<1>5. SnapshotLinksMatch'
  BY <1>3, <1>4 DEF SnapshotLinksMatch
<1>6. \A c \in Clients : Passed(pc[c], task[c])'
  BY <1>1, <1>2 DEF Given, Passed, Wanted
<1>7. Given'
  BY <1>1, <1>2, <1>3, <1>6 DEF Given
<1>8. (LengthsDiffer(use) => Embedded)'
  BY <1>2, <1>3 DEF Vectors, Embedded, LengthsDiffer
<1>9. Linked(store') /\ Loading(store)'
  BY <1>1, <1>2 DEF Vectors, Loading
<1> QED BY <1>5, <1>7, <1>8, <1>9 DEF Vectors

LEMMA VectorsRestarted ==
  ASSUME SavesApart(Uses), Vectors, Registered', use' = use, Restart
  PROVE  Vectors'
<1>1. use \in Uses /\ disk \in Snapshot \cup {NULL} /\ Given /\ SnapshotLinksMatch /\ (LengthsDiffer(use) => Embedded)
  BY DEF Vectors, Registered, Shape, TypeOK
<1>2. /\ "save" \in use.calls /\ disk' = disk
      /\ pc' = [c \in Clients |-> "idle"] /\ task' = [c \in Clients |-> NoTask]
      /\ IF disk = NULL THEN store' = EmptyStore
         ELSE \E owners \in Owners(disk) : store' = Loaded(disk, owners)
  BY DEF Restart
<1>3. \A d \in Docs : EmptyStore.idHash[d] = NULL
  BY Emptied
<1>4. /\ Linked(store') /\ Loading(store)'
      /\ LengthsDiffer(use) => Embeds(store'.corpus)
      /\ \A d \in Docs : store'.idHash[d] \in use.contents \cup {NULL}
  <2>1. CASE disk = NULL
    <3>1. store' = EmptyStore /\ ~store'.deferIndex
      BY <1>2, <2>1 DEF EmptyStore
    <3> QED BY <1>3, <3>1, LinkedEmpty DEF Loading
  <2>2. CASE disk # NULL
    <3>1. PICK owners \in Owners(disk) : store' = Loaded(disk, owners)
      BY <1>2, <2>2
    <3>2. disk.links # NULL => disk.links = LinksOf(disk.corpus)
      BY <1>1, <2>2 DEF SnapshotLinksMatch, LinksOf
    <3>3. LengthsDiffer(use) => Embeds(disk.corpus)
      BY <1>1, <2>2 DEF Embedded
    <3>4. disk.mode = "none" => Embeds(disk.corpus)
      BY <1>1, <1>2, <2>2, <3>3, SavesApart(Uses) DEF Given, SavesApart
    <3>5. /\ Linked(store') /\ (store'.deferIndex => Shrinking(store') /\ Extending(store'))
          /\ Embeds(disk.corpus) => Embeds(store'.corpus)
      BY <1>1, <2>2, <3>1, <3>2, <3>4, LinkedLoaded
    <3>6. store' = EmptyStore \/ store'.idHash = disk.idHash
      BY <1>1, <2>2, <3>1, LoadedStore
    <3>7. \A d \in Docs : disk.idHash[d] \in use.contents \cup {NULL}
      BY <1>1, <2>2 DEF Given
    <3>8. Loading(store)'
      BY <3>5 DEF Loading
    <3> QED BY <1>3, <3>3, <3>5, <3>6, <3>7, <3>8
  <2> QED BY <2>1, <2>2
<1>5. \A c \in Clients : pc'[c] = "idle" /\ task'[c] = NoTask
  BY <1>2
<1>6. \A m : OneDocument("idle", NoTask, m)
  BY DEF OneDocument
<1>7. SnapshotLinksMatch'
  BY <1>1, <1>2 DEF SnapshotLinksMatch
<1>8. \A c \in Clients : Passed(pc[c], task[c])'
  <2> SUFFICES ASSUME NEW c \in Clients PROVE Passed(pc[c], task[c])'
    OBVIOUS
  <2>1. Passed("idle", NoTask)'
    <3>1. Passed("idle", NoTask)
      BY NoTaskPassed
    <3> QED BY <3>1 DEF Passed, Wanted, NoTask
  <2> QED BY <1>5, <2>1
<1>9. Given'
  BY <1>1, <1>2, <1>4, <1>5, <1>8 DEF Given
<1>10. ASSUME LengthsDiffer(use) PROVE Embedded'
  <2>1. Embeds(store'.corpus) /\ (disk' # NULL => Embeds(disk'.corpus))
    BY <1>1, <1>2, <1>4, <1>10 DEF Embedded
  <2>2. \A c \in Clients : Fresh(task'[c]) /\ OneDocument(pc'[c], task'[c], store')
    BY <1>5, <1>6, NoTaskPassed
  <2> QED BY <2>1, <2>2 DEF Embedded
<1>11. (LengthsDiffer(use) => Embedded)'
  BY <1>10 DEF LengthsDiffer
<1> QED BY <1>4, <1>7, <1>9, <1>11 DEF Vectors

LEMMA VectorsInit == Init => Vectors
<1> SUFFICES ASSUME Init PROVE Vectors
  OBVIOUS
<1>1. Registered /\ store = EmptyStore /\ disk = NULL /\ \A c \in Clients : pc[c] = "idle" /\ task[c] = NoTask
  BY RegistryInit DEF Init
<1>2. \A m : OneDocument("idle", NoTask, m)
  BY DEF OneDocument
<1>3. ~store.deferIndex /\ \A d \in Docs : store.idHash[d] = NULL
  BY <1>1, Emptied DEF EmptyStore
<1>4. Given
  BY <1>1, <1>3, NoTaskPassed DEF Given
<1>5. Embedded
  BY <1>1, <1>2, NoTaskPassed, LinkedEmpty DEF Embedded
<1>6. SnapshotLinksMatch
  BY <1>1 DEF SnapshotLinksMatch
<1>7. Loading(store)
  BY <1>3 DEF Loading
<1> QED BY <1>1, <1>4, <1>5, <1>6, <1>7, LinkedEmpty DEF Vectors

LEMMA VectorsNext ==
  ASSUME MergesAlone(Uses), Chunked(Uses), UpdatesAlone(Uses), SavesApart(Uses)
  PROVE  Vectors /\ [Next]_vars => Vectors'
<1> SUFFICES ASSUME Vectors, [Next]_vars PROVE Vectors'
  OBVIOUS
<1>1. Registered'
  BY RegistryNext DEF Vectors
<1>2. CASE UNCHANGED vars
  <2>1. UNCHANGED <<use, store, disk, pc, task>>
    BY <1>2 DEF vars
  <2>2. Linked(store') /\ Loading(store)' /\ SnapshotLinksMatch'
    BY <2>1 DEF Vectors, Loading, SnapshotLinksMatch
  <2>3. Given'
    BY <2>1 DEF Vectors, Given, Passed, Wanted
  <2>4. (LengthsDiffer(use) => Embedded)'
    BY <2>1 DEF Vectors, Embedded, LengthsDiffer
  <2> QED BY <1>1, <2>2, <2>3, <2>4 DEF Vectors
<1>3. CASE Next
  <2>1. use' = use
    BY <1>3 DEF Next
  <2>2. CASE \E c \in Clients : Call(c)
    <3>1. PICK c \in Clients : Call(c)
      BY <2>2
    <3>2. CASE \/ \E batch \in Batches : AddStart(c, batch)
               \/ AddFails(c)
               \/ \E docs \in Batches : IngestStart(c, docs)
               \/ \E src \in Sources : MergeDecide(c, src)
               \/ RetrieveSearch(c)
      BY <1>1, <2>1, <3>2, VectorsChosen
    <3>3. CASE AddPrepare(c) \/ IngestPrepare(c)
      BY <1>1, <2>1, <3>3, VectorsPrepared
    <3>4. CASE AddLock(c) \/ AddUnlock(c) \/ IngestEnd(c) \/ MergeReindex(c) \/ RetrieveEnsure(c)
      BY <1>1, <2>1, <3>4, VectorsRefreshed
    <3>5. CASE AddApply(c) \/ IngestApply(c)
      BY <1>1, <2>1, <3>5, VectorsApplied
    <3>6. CASE (\E d \in Docs : DeleteDocument(c, d)) \/ (\E docs \in Sources : Build(c, docs))
      BY <1>1, <2>1, <3>6, VectorsReplaced
    <3>7. CASE MergeAppend(c) \/ MergeRecord(c)
      BY <1>1, <2>1, <3>7, VectorsMerged
    <3> QED BY <3>1, <3>2, <3>3, <3>4, <3>5, <3>6, <3>7 DEF Call
  <2>3. CASE \E mode \in use.modes : Save(mode)
    BY <1>1, <2>1, <2>3, VectorsSaved
  <2>4. CASE Restart
    BY <1>1, <2>1, <2>4, VectorsRestarted
  <2> QED BY <1>3, <2>2, <2>3, <2>4 DEF Next
<1> QED BY <1>2, <1>3

LEMMA VectorsHeld == Vectors => VectorsFit
<1> SUFFICES ASSUME Vectors PROVE VectorsFit
  OBVIOUS
<1>1. store \in StoreObject /\ Fit(store) /\ Linked(store) /\ SnapshotLinksMatch /\ disk \in Snapshot \cup {NULL}
  BY DEF Vectors, Registered, Shape, TypeOK
<1>2. store.corpus # <<>> => \A i \in DOMAIN store.index : store.index[i].link = store.index[i].vec
  BY <1>1 DEF Fit, Linked, Current
<1>3. LinksDescribeVectors
  BY <1>1, <1>2 DEF LinksDescribeVectors
<1>4. ASSUME NEW s \in Seq(Element), Embeds(s) PROVE \A e \in ToSet(s) : e.vec = e.text
  <2>1. \A e \in ToSet(s) : \E i \in DOMAIN s : s[i] = e
    BY DEF ToSet
  <2> QED BY <1>4, <2>1 DEF Embeds
<1>5. store.corpus \in Seq(Element) /\ (disk # NULL => disk.corpus \in Seq(Element))
  BY <1>1, StoreFields DEF Snapshot
<1>6. LengthsDiffer(use) => EmbedsMatchChunks
  BY <1>4, <1>5 DEF Vectors, Embedded, EmbedsMatchChunks
<1> QED BY <1>3, <1>6 DEF VectorsFit, EmbedsMatchIfLengthsDiffer

\* The three copies of a vector agree, however the critical sections of the calls
\* interleave and whenever the process is restarted: the links a query walks, and those
\* in every snapshot, were computed for the vectors they lead to, and where each update
\* changes the number of chunks, the vectors in memory and in every snapshot are the
\* embeddings of their chunks, because an index that a removal left stale then differs
\* from the arrays in length and shareVectorsLocked leaves them alone (store.go:612,
\* persist.go:55).  Of the program it is assumed, besides what the registry needs, that
\* where lengths tell vectors apart an update is a call of its own, and that a store that
\* is saved is not also built or ingested into, nor both merged and deleted from.
THEOREM VectorsHold ==
  ASSUME MergesAlone(Uses), Chunked(Uses), UpdatesAlone(Uses), SavesApart(Uses)
  PROVE  Spec => []VectorsFit
<1>1. Init => Vectors
  BY VectorsInit
<1>2. Vectors /\ [Next]_vars => Vectors'
  BY VectorsNext
<1>3. Vectors => VectorsFit
  BY VectorsHeld
<1> QED BY <1>1, <1>2, <1>3, PTL DEF Spec
=============================================================================
