---------------------------- MODULE BinfmtProofs ----------------------------
(***************************************************************************)
(* Proofs about the table of executable formats: the tree of athera-trie   *)
(* is the function of what is registered, for every set of magic numbers   *)
(* and of files.                                                           *)
(***************************************************************************)
EXTENDS Binfmt, FiniteSetTheorems, WellFoundedInduction, TLAPS

\* The prover of the steps that name none.
USE ZenonT(30)

Keys == Seq(Bytes)

-----------------------------------------------------------------------------
(* Prefixes *)

\* The first n keys of a sequence are a sequence of that length.
LEMMA FirstKeys ==
  ASSUME NEW s \in Keys, NEW n \in 0 .. Len(s)
  PROVE  /\ SubSeq(s, 1, n) \in Keys /\ Len(SubSeq(s, 1, n)) = n
         /\ \A i \in 1 .. n : SubSeq(s, 1, n)[i] = s[i]
BY SMT DEF Keys

\* Sequences are equal if they are of one length and agree.
LEMMA SameKeys ==
  ASSUME NEW s \in Keys, NEW t \in Keys, Len(s) = Len(t), \A i \in 1 .. Len(s) : s[i] = t[i]
  PROVE  s = t
BY SMT DEF Keys

\* A prefix is shorter and agrees.
LEMMA PrefixIs ==
  ASSUME NEW s \in Keys, NEW t \in Keys
  PROVE  IsPrefix(s, t) <=> Len(s) =< Len(t) /\ \A i \in 1 .. Len(s) : s[i] = t[i]
<1>0. Len(s) \in Nat /\ Len(t) \in Nat
  BY SMT DEF Keys
<1>1. ASSUME Len(s) =< Len(t)
      PROVE  SubSeq(s, 1, Len(s)) = SubSeq(t, 1, Len(s)) <=> \A i \in 1 .. Len(s) : s[i] = t[i]
  <2> DEFINE n == Len(s)
             a == SubSeq(s, 1, n)
             b == SubSeq(t, 1, n)
  <2>1. n \in 0 .. Len(s) /\ n \in 0 .. Len(t)
    BY <1>0, <1>1, SMT
  <2>2. a \in Keys /\ Len(a) = n /\ \A i \in 1 .. n : a[i] = s[i]
    BY <2>1, FirstKeys
  <2>3. b \in Keys /\ Len(b) = n /\ \A i \in 1 .. n : b[i] = t[i]
    BY <2>1, FirstKeys
  <2> HIDE DEF a, b, n
  <2>4. (\A i \in 1 .. n : s[i] = t[i]) => a = b
    <3>1. SUFFICES ASSUME \A i \in 1 .. n : s[i] = t[i] PROVE a = b
      OBVIOUS
    <3>2. \A i \in 1 .. Len(a) : a[i] = b[i]
      BY <2>2, <2>3, <3>1
    <3> QED BY <2>2, <2>3, <3>2, SameKeys
  <2>5. a = b => \A i \in 1 .. n : s[i] = t[i]
    BY <2>2, <2>3
  <2> QED BY <2>4, <2>5 DEF a, b, n
<1> QED BY <1>1 DEF IsPrefix

\* Prefixes are the sequences that are a prefix.
LEMMA PrefixesAre ==
  ASSUME NEW t \in Keys
  PROVE  /\ Prefixes(t) \subseteq Keys
         /\ \A s \in Keys : s \in Prefixes(t) <=> IsPrefix(s, t)
<1>0. Len(t) \in Nat
  BY SMT DEF Keys
<1>1. Prefixes(t) \subseteq Keys
  BY FirstKeys DEF Prefixes
<1>2. ASSUME NEW l \in 0 .. Len(t) PROVE IsPrefix(SubSeq(t, 1, l), t)
  <2> DEFINE a == SubSeq(t, 1, l)
  <2>1. a \in Keys /\ Len(a) = l /\ \A i \in 1 .. l : a[i] = t[i]
    BY FirstKeys
  <2>2. l =< Len(t)
    BY <1>0, SMT
  <2> HIDE DEF a
  <2> QED BY <2>1, <2>2, PrefixIs DEF a
<1>3. ASSUME NEW s \in Keys, IsPrefix(s, t) PROVE s \in Prefixes(t)
  <2>1. Len(s) =< Len(t) /\ \A i \in 1 .. Len(s) : s[i] = t[i]
    BY <1>3, PrefixIs
  <2>2. Len(s) \in 0 .. Len(t)
    BY <1>0, <2>1, SMT DEF Keys
  <2>3. s = SubSeq(t, 1, Len(s))
    <3> DEFINE a == SubSeq(t, 1, Len(s))
    <3>1. a \in Keys /\ Len(a) = Len(s) /\ \A i \in 1 .. Len(s) : a[i] = t[i]
      BY <2>2, FirstKeys
    <3> HIDE DEF a
    <3>2. \A i \in 1 .. Len(s) : s[i] = a[i]
      BY <2>1, <3>1
    <3>3. s = a
      BY <3>1, <3>2, SameKeys
    <3> QED BY <3>3 DEF a
  <2> QED BY <2>2, <2>3 DEF Prefixes
<1> QED BY <1>1, <1>2, <1>3 DEF Prefixes

\* Every sequence is a prefix of itself, and the empty one of every other.
LEMMA PrefixEnds ==
  ASSUME NEW t \in Keys
  PROVE  IsPrefix(t, t) /\ <<>> \in Keys /\ IsPrefix(<<>>, t)
<1>1. Len(t) \in Nat /\ Len(t) =< Len(t) /\ <<>> \in Keys /\ Len(<<>>) = 0 /\ 0 =< Len(t)
  BY SMT DEF Keys
<1>2. 1 .. 0 = {}
  BY SMT
<1> QED BY <1>1, <1>2, PrefixIs

\* A prefix of a prefix is a prefix.
LEMMA PrefixTransitive ==
  ASSUME NEW r \in Keys, NEW s \in Keys, NEW t \in Keys, IsPrefix(r, s), IsPrefix(s, t)
  PROVE  IsPrefix(r, t)
<1>1. Len(r) =< Len(s) /\ Len(s) =< Len(t) /\ Len(r) \in Nat /\ Len(s) \in Nat /\ Len(t) \in Nat
  <2>1. Len(r) \in Nat /\ Len(s) \in Nat /\ Len(t) \in Nat
    BY SMT DEF Keys
  <2> QED BY <2>1, PrefixIs
<1>2. Len(r) =< Len(t) /\ 1 .. Len(r) \subseteq 1 .. Len(s)
  BY <1>1, SMT
<1>3. \A i \in 1 .. Len(r) : r[i] = s[i]
  BY PrefixIs
<1>4. \A i \in 1 .. Len(s) : s[i] = t[i]
  BY PrefixIs
<1> QED BY <1>2, <1>3, <1>4, PrefixIs

-----------------------------------------------------------------------------
(* The tree *)

\* A non-empty set of natural numbers has a minimum.
LEMMA HasMinimum ==
  ASSUME NEW S \in SUBSET Nat, S # {}
  PROVE  \E x \in S : \A y \in S : x =< y
<1>1. IsWellFoundedOn(OpToRel(<, Nat), Nat)
  BY NatLessThanWellFounded
<1>2. PICK x \in S : \A y \in S : ~ (<<y, x>> \in OpToRel(<, Nat))
  BY <1>1, WFMin
<1>3. ASSUME NEW y \in S PROVE x =< y
  <2>1. ~ (<<y, x>> \in {ss \in Nat \X Nat : ss[1] < ss[2]})
    BY <1>2 DEF OpToRel
  <2> QED BY <2>1, SMT
<1> QED BY <1>3

\* A non-empty set of natural numbers with a bound has a maximum.
LEMMA HasMaximum ==
  ASSUME NEW b \in Nat, NEW S \in SUBSET (0 .. b), S # {}
  PROVE  \E x \in S : \A y \in S : y =< x
<1> DEFINE T == {n \in Nat : b - n \in S}
<1>1. PICK s : s \in S
  OBVIOUS
<1>2. b - s \in Nat /\ b - (b - s) = s
  BY <1>1, SMT
<1>3. T # {} /\ T \in SUBSET Nat
  BY <1>1, <1>2
<1>4. PICK m \in T : \A y \in T : m =< y
  <2> HIDE DEF T
  <2> QED BY <1>3, HasMinimum
<1>5. ASSUME NEW y \in S PROVE y =< b - m
  <2>1. b - y \in Nat /\ b - (b - y) = y /\ y \in Nat
    BY SMT
  <2>2. m =< b - y
    BY <1>4, <2>1
  <2> QED BY <1>4, <2>1, <2>2, SMT
<1> QED BY <1>4, <1>5

\* The nodes on the way to a key are its prefixes.
LEMMA WayIs == \A k : Tree!Way(k) = Prefixes(k)
BY DEF Tree!Way, Prefixes

\* A tree t is the function e: its values and its counter, and each node
\* leads to an entry.
IsMap(t, e) ==
  /\ t = [nodes |-> t.nodes, value |-> t.value, len |-> t.len]
  /\ e = [m \in DOMAIN e |-> e[m]] /\ DOMAIN e \subseteq Keys /\ IsFiniteSet(DOMAIN e)
  /\ t.value = e /\ t.len = Cardinality(DOMAIN e)
  /\ t.nodes = {<<>>} \cup UNION {Prefixes(m) : m \in DOMAIN e}

With(e, k, v) == [m \in DOMAIN e \cup {k} |-> IF m = k THEN v ELSE e[m]]
Without(e, k) == [m \in DOMAIN e \ {k} |-> e[m]]

\* insert adds a key or gives it another value.
LEMMA InsertIs ==
  ASSUME NEW t, NEW e, IsMap(t, e), NEW k \in Keys, NEW v
  PROVE  IsMap(Tree!insert(t, k, v), With(e, k, v))
<1> DEFINE u == Tree!insert(t, k, v)
           f == With(e, k, v)
<1>0. /\ DOMAIN e \subseteq Keys /\ IsFiniteSet(DOMAIN e)
      /\ t.value = e /\ t.len = Cardinality(DOMAIN e)
      /\ t.nodes = {<<>>} \cup UNION {Prefixes(m) : m \in DOMAIN e}
  BY DEF IsMap
<1>1. DOMAIN f = DOMAIN e \cup {k} /\ f = [m \in DOMAIN f |-> f[m]]
  BY DEF With
<1>2. u = [nodes |-> t.nodes \cup Prefixes(k), value |-> f,
           len |-> IF k \in DOMAIN e THEN t.len ELSE t.len + 1]
  BY <1>0, WayIs DEF Tree!insert, Tree!HasValue, With
<1> HIDE DEF u, f
<1>3. /\ u.nodes = t.nodes \cup Prefixes(k) /\ u.value = f
      /\ u.len = IF k \in DOMAIN e THEN t.len ELSE t.len + 1
      /\ u = [nodes |-> u.nodes, value |-> u.value, len |-> u.len]
  BY <1>2
<1>4. IsFiniteSet(DOMAIN f) /\ u.len = Cardinality(DOMAIN f)
  <2>1. k \in DOMAIN e => DOMAIN f = DOMAIN e
    BY <1>1
  <2>a. IsFiniteSet(DOMAIN e \cup {k})
    BY <1>0, FS_AddElement
  <2>2. IsFiniteSet(DOMAIN f)
    BY <1>1, <2>a
  <2>3. CASE k \in DOMAIN e
    BY <1>0, <1>3, <2>1, <2>2, <2>3
  <2>4. CASE k \notin DOMAIN e
    <3>1. Cardinality(DOMAIN e \cup {k}) = Cardinality(DOMAIN e) + 1
      BY <1>0, <2>4, FS_AddElement
    <3> QED BY <1>0, <1>1, <1>3, <2>2, <2>4, <3>1
  <2> QED BY <2>3, <2>4
<1>a. u.nodes = {<<>>} \cup UNION {Prefixes(m) : m \in DOMAIN f}
  <2> DEFINE N(d) == {<<>>} \cup UNION {Prefixes(m) : m \in d}
  <2>1. N(DOMAIN e \cup {k}) = N(DOMAIN e) \cup Prefixes(k)
    BY SMT
  <2> QED BY <1>0, <1>1, <1>3, <2>1
<1>5. DOMAIN f \subseteq Keys
  BY <1>0, <1>1
<1>6. IsMap(u, f)
  BY <1>1, <1>3, <1>4, <1>5, <1>a DEF IsMap
<1> QED BY <1>6 DEF u, f

\* The nodes of a tree are sequences, with each entry among them.
LEMMA NodesAre ==
  ASSUME NEW t, NEW e, IsMap(t, e)
  PROVE  /\ t.nodes \subseteq Keys /\ <<>> \in t.nodes
         /\ \A n \in t.nodes : n # <<>> => \E m \in DOMAIN e : n \in Prefixes(m)
         /\ \A m \in DOMAIN e : m \in t.nodes /\ Prefixes(m) \subseteq t.nodes
<1>1. t.nodes = {<<>>} \cup UNION {Prefixes(m) : m \in DOMAIN e} /\ DOMAIN e \subseteq Keys
  BY DEF IsMap
<1>2. <<>> \in Keys
  BY SMT DEF Keys
<1>3. \A m \in DOMAIN e : Prefixes(m) \subseteq Keys /\ m \in Prefixes(m)
  BY <1>1, PrefixesAre, PrefixEnds
<1>4. t.nodes \subseteq Keys
  BY <1>1, <1>2, <1>3
<1> QED BY <1>1, <1>3, <1>4

\* What an update of the counter leaves.
LEMMA CountDown ==
  ASSUME NEW a, NEW b, NEW l, NEW r, r = [nodes |-> a, value |-> b, len |-> l]
  PROVE  [r EXCEPT !.len = @ - 1] = [nodes |-> a, value |-> b, len |-> l - 1]
BY SMT

\* remove takes a key out, with the nodes that lead to no other: remove_at
\* keeps a node on the way to the key exactly if an entry is left below it.
LEMMA RemoveIs ==
  ASSUME NEW t, NEW e, IsMap(t, e), NEW k \in Keys
  PROVE  IsMap(Tree!remove(t, k), Without(e, k))
<1> DEFINE f == Without(e, k)
           u == Tree!remove(t, k)
           Stays(n, m) == n \in Prefixes(m) /\ (m \in DOMAIN f \/ m \notin Prefixes(k))
           Dead(n) == n # <<>> /\ n \in Prefixes(k) /\ ~ \E m \in t.nodes : Stays(n, m)
           alive == {n \in t.nodes : ~ Dead(n)}
<1>0. /\ DOMAIN e \subseteq Keys /\ IsFiniteSet(DOMAIN e) /\ e = [m \in DOMAIN e |-> e[m]]
      /\ t.value = e /\ t.len = Cardinality(DOMAIN e)
      /\ t.nodes = {<<>>} \cup UNION {Prefixes(m) : m \in DOMAIN e}
      /\ t = [nodes |-> t.nodes, value |-> t.value, len |-> t.len]
  BY DEF IsMap
<1>1. DOMAIN f = DOMAIN e \ {k} /\ f = [m \in DOMAIN f |-> f[m]]
  BY DEF Without
<1>2. Tree!contains_key(t, k) <=> k \in DOMAIN e
  BY <1>0, NodesAre DEF Tree!contains_key, Tree!HasValue
<1>3. CASE k \notin DOMAIN e
  <2>1. f = e
    BY <1>0, <1>3 DEF Without
  <2>2. u = t
    BY <1>2, <1>3 DEF Tree!remove
  <2> QED BY <2>1, <2>2
<1>4. CASE k \in DOMAIN e
  <2>1. u = [nodes |-> alive, value |-> f, len |-> Cardinality(DOMAIN e) - 1]
    <3>1. PICK r : r = Tree!remove_at(t, k)
      OBVIOUS
    <3>2. f = [m \in DOMAIN t.value \ {k} |-> t.value[m]]
      BY <1>0 DEF Without
    <3>3. r = [nodes |-> alive, value |-> f, len |-> t.len]
      BY <3>1, <3>2, WayIs DEF Tree!remove_at
    <3>4. u = [r EXCEPT !.len = @ - 1]
      BY <1>2, <1>4, <3>1 DEF Tree!remove
    <3> HIDE DEF alive, f, u
    <3>5. [r EXCEPT !.len = @ - 1] = [nodes |-> alive, value |-> f, len |-> t.len - 1]
      BY <3>3, CountDown
    <3> QED BY <1>0, <3>4, <3>5
  <2>2. ASSUME NEW n \in alive, n # <<>> PROVE \E m \in DOMAIN f : n \in Prefixes(m)
    <3>1. n \in t.nodes /\ n \in Keys /\ ~ Dead(n)
      BY NodesAre
    <3>2. PICK m \in DOMAIN e : n \in Prefixes(m)
      BY <2>2, <3>1, NodesAre
    <3> HIDE DEF f
    <3>3. CASE m # k
      BY <1>1, <3>2, <3>3
    <3>4. CASE m = k
      <4>1. PICK l \in t.nodes : Stays(n, l)
        BY <2>2, <3>1, <3>2, <3>4
      <4>2. l \in Keys
        BY NodesAre
      <4>3. CASE l \in DOMAIN f
        BY <4>1, <4>3
      <4>4. CASE l \notin Prefixes(k)
        <5>1. l # <<>>
          BY <4>4, PrefixEnds, PrefixesAre
        <5>2. PICK j \in DOMAIN e : l \in Prefixes(j)
          BY <5>1, NodesAre
        <5>3. j \in Keys /\ IsPrefix(l, j) /\ IsPrefix(n, l)
          BY <1>0, <3>1, <4>1, <4>2, <5>2, PrefixesAre
        <5>4. IsPrefix(n, j)
          BY <3>1, <4>2, <5>3, PrefixTransitive
        <5>5. n \in Prefixes(j)
          BY <3>1, <5>3, <5>4, PrefixesAre
        <5> QED BY <1>1, <4>4, <5>2, <5>5
      <4> QED BY <4>1, <4>3, <4>4
    <3> QED BY <3>3, <3>4
  <2>3. ASSUME NEW m \in DOMAIN f, NEW n \in Prefixes(m) PROVE n \in alive
    <3>1. m \in DOMAIN e /\ m \in Keys /\ m \in t.nodes /\ n \in t.nodes /\ n \in Keys
      BY <1>0, <1>1, NodesAre
    <3> QED BY <3>1
  <2>4. <<>> \in alive
    BY NodesAre
  <2> HIDE DEF alive, f, u
  <2>5. alive = {<<>>} \cup UNION {Prefixes(m) : m \in DOMAIN f}
    <3>1. ASSUME NEW n \in alive PROVE n \in {<<>>} \cup UNION {Prefixes(m) : m \in DOMAIN f}
      BY <2>2
    <3> QED BY <2>3, <2>4, <3>1
  <2>6. IsFiniteSet(DOMAIN e \ {k}) /\ Cardinality(DOMAIN e \ {k}) = Cardinality(DOMAIN e) - 1
    BY <1>0, <1>4, FS_RemoveElement
  <2>7. /\ u.nodes = alive /\ u.value = f /\ u.len = Cardinality(DOMAIN f)
        /\ u = [nodes |-> u.nodes, value |-> u.value, len |-> u.len]
    BY <1>1, <2>1, <2>6
  <2>8. DOMAIN f \subseteq Keys /\ IsFiniteSet(DOMAIN f)
    BY <1>0, <1>1, <2>6
  <2>9. IsMap(u, f)
    BY <1>1, <2>5, <2>7, <2>8 DEF IsMap
  <2> QED BY <2>9 DEF u, f
<1> QED BY <1>3, <1>4

\* The walk of longest_prefix gets to every entry that the key begins with,
\* and remembers the last.
LEMMA LongestIs ==
  ASSUME NEW t, NEW e, IsMap(t, e), NEW head \in Keys
  PROVE  LET hits == {m \in DOMAIN e : IsPrefix(m, head)}
             depth == Tree!longest_prefix(t, head)
         IN  IF hits = {} THEN depth = -1
             ELSE SubSeq(head, 1, depth) \in hits /\ \A m \in hits : Len(m) =< depth
<1> DEFINE hits == {m \in DOMAIN e : IsPrefix(m, head)}
           depth == Tree!longest_prefix(t, head)
           walk == {n \in 0 .. Len(head) : \A m \in 0 .. n : SubSeq(head, 1, m) \in t.nodes}
           best == {n \in walk : SubSeq(head, 1, n) \in DOMAIN t.value}
<1>0. Len(head) \in Nat /\ t.value = e /\ DOMAIN e \subseteq Keys
  BY SMT DEF IsMap, Keys
<1>1. depth = IF best = {} THEN -1 ELSE CHOOSE n \in best : \A m \in best : m =< n
  BY DEF Tree!longest_prefix, Tree!HasValue
<1>2. ASSUME NEW m \in hits PROVE Len(m) \in best /\ SubSeq(head, 1, Len(m)) = m
  <2>1. m \in DOMAIN e /\ m \in Keys /\ IsPrefix(m, head)
    BY <1>0
  <2>2. Len(m) =< Len(head) /\ \A i \in 1 .. Len(m) : m[i] = head[i]
    BY <2>1, PrefixIs
  <2>3. Len(m) \in 0 .. Len(head)
    BY <1>0, <2>1, <2>2, SMT DEF Keys
  <2>4. ASSUME NEW l \in 0 .. Len(m) PROVE SubSeq(head, 1, l) = SubSeq(m, 1, l)
    <3> DEFINE a == SubSeq(head, 1, l)
               b == SubSeq(m, 1, l)
    <3>1. l \in 0 .. Len(head) /\ 1 .. l \subseteq 1 .. Len(m)
      BY <1>0, <2>3, SMT
    <3>2. a \in Keys /\ Len(a) = l /\ \A i \in 1 .. l : a[i] = head[i]
      BY <3>1, FirstKeys
    <3>3. b \in Keys /\ Len(b) = l /\ \A i \in 1 .. l : b[i] = m[i]
      BY <2>1, FirstKeys
    <3> HIDE DEF a, b
    <3>4. \A i \in 1 .. Len(a) : a[i] = b[i]
      BY <2>2, <3>1, <3>2, <3>3
    <3>5. a = b
      BY <3>2, <3>3, <3>4, SameKeys
    <3> QED BY <3>5 DEF a, b
  <2>5. \A l \in 0 .. Len(m) : SubSeq(head, 1, l) \in t.nodes
    BY <2>1, <2>4, NodesAre DEF Prefixes
  <2>6. SubSeq(m, 1, Len(m)) = m /\ Len(m) \in 0 .. Len(m)
    BY <2>1, SMT DEF Keys
  <2>7. SubSeq(head, 1, Len(m)) = m
    BY <2>4, <2>6
  <2> QED BY <1>0, <2>1, <2>3, <2>5, <2>7
<1>3. ASSUME NEW n \in best PROVE SubSeq(head, 1, n) \in hits
  <2>1. SubSeq(head, 1, n) \in Prefixes(head) /\ SubSeq(head, 1, n) \in Keys
    BY FirstKeys DEF Prefixes
  <2>2. IsPrefix(SubSeq(head, 1, n), head)
    BY <2>1, PrefixesAre
  <2> QED BY <1>0, <2>2
<1>4. best \in SUBSET (0 .. Len(head))
  OBVIOUS
<1> HIDE DEF best, hits, depth
<1>5. CASE hits = {}
  <2>1. best = {}
    BY <1>3, <1>5
  <2>2. depth = -1
    BY <1>1, <2>1
  <2> QED BY <1>5, <2>2 DEF hits, depth
<1>6. CASE hits # {}
  <2>1. best # {}
    BY <1>2, <1>6
  <2>2. \E n \in best : \A m \in best : m =< n
    BY <1>0, <1>4, <2>1, HasMaximum
  <2>3. depth \in best /\ \A m \in best : m =< depth
    BY <1>1, <2>1, <2>2
  <2>4. SubSeq(head, 1, depth) \in hits /\ \A m \in hits : Len(m) =< depth
    BY <1>2, <1>3, <2>3
  <2> QED BY <1>6, <2>4 DEF hits, depth
<1> QED BY <1>5, <1>6

-----------------------------------------------------------------------------
(* The table *)

\* TableIsMap is what IsMap says of the table.
LEMMA TableIs == IsMap(binfmts, entries) => TableIsMap
<1> SUFFICES ASSUME IsMap(binfmts, entries) PROVE TableIsMap
  OBVIOUS
<1>1. \A p \in DOMAIN Images : Images[p].head \in Keys
  BY ByteAssumption DEF Keys
<1> QED BY <1>1, LongestIs DEF TableIsMap, IsMap

\* The two formats that are built in.
LEMMA InitMap == BinInit => IsMap(binfmts, entries)
<1> DEFINE E == <<"E">>
           H == <<"#", "!">>
           none == [k \in {} |-> k]
<1>1. E \in Keys /\ H \in Keys
  BY ByteAssumption, SMT DEF Keys
<1>a. E # H
  BY SMT
<1>2. IsMap(Tree!new, none)
  BY FS_EmptySet DEF IsMap, Tree!new
<1> HIDE DEF E, H
<1>3. IsMap(Tree!insert(Tree!insert(Tree!new, E, "elf"), H, "shebang"),
            With(With(none, E, "elf"), H, "shebang"))
  BY <1>1, <1>2, InsertIs
<1>4. With(With(none, E, "elf"), H, "shebang")
        = [m \in {E, H} |-> IF m = E THEN "elf" ELSE "shebang"]
  <2> DEFINE D == With(none, E, "elf")
  <2>1. D = [m \in {E} |-> "elf"]
    BY DEF With
  <2>2. With(D, H, "shebang") = [m \in {E} \cup {H} |-> IF m = H THEN "shebang" ELSE D[m]]
    BY <2>1 DEF With
  <2> HIDE DEF D
  <2>3. With(D, H, "shebang") = [m \in {E, H} |-> IF m = E THEN "elf" ELSE "shebang"]
    BY <1>a, <2>1, <2>2
  <2> QED BY <2>3 DEF D
<1> QED BY <1>3, <1>4 DEF BinInit, BuiltIn, E, H

\* register and unregister do to the tree what they do to the function, and
\* routing a program does nothing to either.
LEMMA MapStep == IsMap(binfmts, entries) /\ [BinNext]_binVars => IsMap(binfmts, entries)'
<1> SUFFICES ASSUME IsMap(binfmts, entries), [BinNext]_binVars PROVE IsMap(binfmts', entries')
  OBVIOUS
<1>0. Magics \subseteq Keys
  BY ByteAssumption DEF Keys
<1>1. ASSUME NEW m \in Magics, NEW h \in Handlers, register(m, h) PROVE IsMap(binfmts', entries')
  <2>1. binfmts' = Tree!insert(binfmts, m, h) /\ entries' = With(entries, m, h)
    BY <1>1 DEF register, With
  <2> QED BY <1>0, <2>1, InsertIs
<1>2. ASSUME NEW m \in Magics, unregister(m) PROVE IsMap(binfmts', entries')
  <2>1. binfmts' = Tree!remove(binfmts, m) /\ entries' = Without(entries, m)
    BY <1>2 DEF unregister, Without
  <2> QED BY <1>0, <2>1, RemoveIs
<1>3. CASE (\E s \in Starts : route(s[1], s[2])) \/ route_inner \/ Routed \/ UNCHANGED binVars
  BY <1>3 DEF route, route_inner, Routed, binVars
<1> QED BY <1>1, <1>2, <1>3 DEF BinNext

\* After any sequence of register and unregister, for any magic numbers and
\* any files, the tree of the table is the function of what is registered:
\* pruning removes the nodes that lead nowhere and no others, and the longest
\* magic that a file begins with is found.
THEOREM TableTheorem == BinSpec => []TableIsMap
BY InitMap, MapStep, TableIs, PTL DEF BinSpec

=============================================================================
