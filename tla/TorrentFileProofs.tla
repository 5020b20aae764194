--------------------------- MODULE TorrentFileProofs ---------------------------
(***************************************************************************)
(* What holds of TorrentFile for every file, response and geometry.        *)
(*                                                                         *)
(* The parser: the invariant TreeInv says which containers are open, that  *)
(* each value belongs to one that was open when it was found, and how many *)
(* tokens each span has; from it, a file that is accepted can be dumped    *)
(* and hashed (FilesAreTrees).                                             *)
(*                                                                         *)
(* The reader: ReaderInv adds where the info dictionary ends, and which    *)
(* keys the fields that were found so far come from (FieldsAreRead).       *)
(*                                                                         *)
(* The tracker: PeersInv adds which token of the response each value of    *)
(* the parser comes from, so that what is taken for addresses lies within  *)
(* a string that the tracker sent (PeersAreListed).                        *)
(*                                                                         *)
(* The geometry: the invariant only says that the torrents are well-formed *)
(* and what there is to know of those is in MetainfoProofs                 *)
(* (PositionsAlwaysAgree).                                                 *)
(***************************************************************************)
EXTENDS TorrentFile, MetainfoProofs, SequenceTheorems

-----------------------------------------------------------------------------
(* The invariant of the parser. *)
Kinds   == {"int", "str", "list", "dict"}
IsArray(s) == s = [p \in 1 .. Len(kinds) |-> s[p]]
OpenOnes == {calls[k].me : k \in DOMAIN calls}

\* The arrays are as long as one another. (A length is a number when its value
\* is a container, see LengthsCountChildren.)
ArraysInv ==
    /\ kinds \in Seq(Kinds)
    /\ IsArray(lengths) /\ IsArray(spans)
    /\ owner \in [1 .. Len(kinds) -> Nat]
    /\ read \in Nat

\* The containers that are open, each in the one before it; and the parent is
\* the innermost.
StackInv ==
    /\ calls \in Seq([me : Nat, parent : Nat])
    /\ \A k \in DOMAIN calls :
         /\ calls[k].me \in DOMAIN kinds /\ kinds[calls[k].me] \in Containers
         /\ calls[k].parent = IF k = 1 THEN 1 ELSE calls[k - 1].me
         /\ \A j \in 1 .. k - 1 : calls[j].me < calls[k].me
    /\ err = "parsing" => parent = IF calls = <<>> THEN 1 ELSE calls[Len(calls)].me
    /\ err = "parsing" /\ calls = <<>> => kinds = <<>>
    /\ err = "none" => calls = <<>>

\* Each value belongs to a container before it; the one after it belongs to that
\* one, to one further out, or to the value itself; and what comes after an open
\* container is in it.
OwnersInv ==
    /\ \A p \in DOMAIN kinds :
         /\ owner[p] < p
         /\ owner[p] = 0 <=> p = 1
         /\ p > 1 => kinds[owner[p]] \in Containers
    /\ \A p, q \in DOMAIN kinds : owner[q] < p /\ p < q => owner[p] >= owner[q]
    /\ \A c \in OpenOnes : \A p \in DOMAIN kinds : p > c => owner[p] >= c

\* A closed container ends at s when all between is in it, and s is not. Its span
\* has a token for each value inside, and one more for each container.
Inner(p, s) == {q \in p + 1 .. s - 1 : kinds[q] \in Containers}
Ends(p, s) == /\ s \in p + 1 .. Len(kinds) + 1
              /\ s <= Len(kinds) => owner[s] < p
              /\ \A q \in p + 1 .. s - 1 : owner[q] >= p
SpanInv(p) ==
    IF p \in OpenOnes
    THEN /\ spans[p] = [from |-> spans[p].from, to |-> spans[p].to]
         /\ spans[p].from \in Nat
         /\ read = spans[p].from + (Len(kinds) - p) + Cardinality(Inner(p, Len(kinds) + 1) \ OpenOnes)
    ELSE \E s \in p + 1 .. Len(kinds) + 1 :
            /\ Ends(p, s) /\ Inner(p, s) \cap OpenOnes = {}
            /\ spans[p].to - spans[p].from + 1 = 2 + (s - 1 - p) + Cardinality(Inner(p, s))
SpansInv == err # "invalid dict" => \A p \in DOMAIN kinds : kinds[p] \in Containers => SpanInv(p)
\* Closed dictionaries were checked.
PairsInv ==
    err # "invalid dict" => \A p \in DOMAIN kinds : kinds[p] = "dict" /\ p \notin OpenOnes =>
       lengths[p] % 2 = 0 /\ (lengths[p] > 0 => kinds[p + 1] = "str")
\* The check of keys looks at what is there.
WalkInv == walk \in Nat /\ walk <= Len(kinds)
TreeInv == ArraysInv /\ StackInv /\ OwnersInv /\ LengthsCountChildren /\ SpansInv /\ PairsInv /\ WalkInv

-----------------------------------------------------------------------------
(* bc_dump_value: the recursion of DumpEnd, and where a value ends. *)

\* What g says of one of its arguments.
DumpsAt(g, w, ks, ls, j, c) ==
    g[j][c] = IF c = 0 \/ j > w THEN j
              ELSE IF ks[j] \in Containers THEN g[g[j + 1][ls[j]]][c - 1]
              ELSE g[j + 1][c - 1]
\* The equation of DumpEnd, and a solution of it for the values from first on.
Dump(g, w, ks, ls) ==
   g = [j \in 1 .. w + 1 |-> [n \in 0 .. w |->
          IF n = 0 \/ j > w THEN j
          ELSE IF ks[j] \in Containers THEN g[g[j + 1][ls[j]]][n - 1]
          ELSE g[j + 1][n - 1]]]
Onward(g, first, w) ==
    /\ g = [j \in first .. w + 1 |-> [c \in 0 .. w |-> g[j][c]]]
    /\ \A j \in first .. w + 1 : \A c \in 0 .. w : g[j][c] \in j .. w + 1
DumpFrom(g, first, w, ks, ls) ==
    /\ Onward(g, first, w)
    /\ \A j \in first .. w + 1 : \A c \in 0 .. w : DumpsAt(g, w, ks, ls, j, c)

\* A function that satisfies the equations of DumpEnd can be built from the last
\* value to the first.
LEMMA DumpExists ==
    ASSUME NEW w \in Nat, NEW ks, NEW ls,
           \A j \in 1 .. w : ks[j] \in Containers => ls[j] \in 0 .. w
    PROVE  \E g : DumpFrom(g, 1, w, ks, ls)
  <1> DEFINE S == {d \in Nat : d <= w => \E g : DumpFrom(g, w + 1 - d, w, ks, ls)}
  <1>1. 0 \in S
    <2> DEFINE g == [j \in w + 1 .. w + 1 |-> [c \in 0 .. w |-> j]]
    <2>1. \A j \in w + 1 .. w + 1 : \A c \in 0 .. w : g[j][c] = j /\ j = w + 1
      OBVIOUS
    <2>2. g = [j \in w + 1 .. w + 1 |-> [c \in 0 .. w |-> g[j][c]]]
      BY <2>1
    <2> HIDE DEF g
    <2>3. \A j \in w + 1 .. w + 1 : \A c \in 0 .. w : g[j][c] \in j .. w + 1
      <3>1. w + 1 \in w + 1 .. w + 1
        OBVIOUS
      <3> QED
        BY <2>1, <3>1
    <2>4. \A j \in w + 1 .. w + 1 : \A c \in 0 .. w : DumpsAt(g, w, ks, ls, j, c)
      <3>1. w + 1 > w
        OBVIOUS
      <3> QED
        BY <2>1, <3>1 DEF DumpsAt
    <2>5. DumpFrom(g, w + 1, w, ks, ls)
      BY <2>2, <2>3, <2>4, Zenon DEF DumpFrom, Onward
    <2>6. DumpFrom(g, w + 1 - 0, w, ks, ls)
      <3>1. w + 1 - 0 = w + 1
        OBVIOUS
      <3> QED
        BY <2>5, <3>1, Zenon
    <2> QED
      BY <2>6
  <1>2. ASSUME NEW d \in S
        PROVE  d + 1 \in S
    <2>1. SUFFICES ASSUME d + 1 <= w
                   PROVE  \E g : DumpFrom(g, w + 1 - (d + 1), w, ks, ls)
      OBVIOUS
    <2>2. d \in Nat /\ \E g : DumpFrom(g, w + 1 - d, w, ks, ls)
      BY <2>1
    <2> HIDE DEF S
    <2> DEFINE first == w + 1 - d
               e     == first - 1
    <2>3. PICK g : DumpFrom(g, first, w, ks, ls)
      BY <2>2
    <2>4. /\ first \in Nat /\ e \in Nat /\ first = e + 1 /\ e = w + 1 - (d + 1)
          /\ e \in 1 .. w /\ first \in 1 .. w + 1
      BY <2>1, <2>2
    <2> HIDE DEF first, e
    <2> DEFINE at(c) == IF c = 0 THEN e
                        ELSE IF ks[e] \in Containers THEN g[g[first][ls[e]]][c - 1]
                        ELSE g[first][c - 1]
               h == [j \in e .. w + 1 |-> [c \in 0 .. w |-> IF j = e THEN at(c) ELSE g[j][c]]]
    <2>5. /\ \A c \in 0 .. w : h[e][c] = at(c)
          /\ \A j \in first .. w + 1 : \A c \in 0 .. w : h[j][c] = g[j][c]
      <3>1. e \in e .. w + 1 /\ \A j \in first .. w + 1 : j \in e .. w + 1 /\ j # e
        BY <2>4
      <3> QED
        BY <3>1, Zenon
    <2>6. \A j \in first .. w + 1 : \A c \in 0 .. w : g[j][c] \in j .. w + 1 /\ DumpsAt(g, w, ks, ls, j, c)
      BY <2>3 DEF DumpFrom, Onward
    <2>7. ASSUME NEW c \in 0 .. w
          PROVE  h[e][c] \in e .. w + 1
      <3>1. CASE c = 0
        <4>1. h[e][c] = e
          BY <2>5, <3>1
        <4> HIDE DEF h
        <4> QED
          BY <2>4, <4>1
      <3>2. CASE c # 0 /\ ks[e] \in Containers
        <4>1. c - 1 \in 0 .. w /\ ls[e] \in 0 .. w /\ first \in first .. w + 1
          BY <2>4, <3>2
        <4>2. g[first][ls[e]] \in first .. w + 1
          BY <2>6, <4>1
        <4>3. g[g[first][ls[e]]][c - 1] \in e .. w + 1
          BY <2>4, <2>6, <4>1, <4>2
        <4> QED
          BY <2>5, <3>2, <4>3
      <3>3. CASE c # 0 /\ ks[e] \notin Containers
        <4>1. c - 1 \in 0 .. w /\ first \in first .. w + 1
          BY <2>4, <3>3
        <4>2. g[first][c - 1] \in e .. w + 1
          BY <2>4, <2>6, <4>1
        <4> QED
          BY <2>5, <3>3, <4>2
      <3> QED
        BY <3>1, <3>2, <3>3
    <2>8. ASSUME NEW c \in 0 .. w
          PROVE  DumpsAt(h, w, ks, ls, e, c)
      <3>1. CASE c = 0
        BY <2>4, <2>5, <3>1 DEF DumpsAt
      <3>2. CASE c # 0 /\ ks[e] \in Containers
        <4>1. c - 1 \in 0 .. w /\ ls[e] \in 0 .. w /\ first \in first .. w + 1
          BY <2>4, <3>2
        <4>2. g[first][ls[e]] \in first .. w + 1 /\ h[first][ls[e]] = g[first][ls[e]]
          BY <2>5, <2>6, <4>1
        <4>3. h[g[first][ls[e]]][c - 1] = g[g[first][ls[e]]][c - 1]
          BY <2>5, <4>1, <4>2
        <4>4. h[e][c] = g[g[first][ls[e]]][c - 1]
          BY <2>5, <3>2
        <4>5. h[e][c] = h[h[e + 1][ls[e]]][c - 1]
          BY <2>4, <4>2, <4>3, <4>4
        <4> HIDE DEF h
        <4> QED
          BY <2>4, <3>2, <4>5 DEF DumpsAt
      <3>3. CASE c # 0 /\ ks[e] \notin Containers
        <4>1. c - 1 \in 0 .. w /\ first \in first .. w + 1
          BY <2>4, <3>3
        <4>2. h[e][c] = g[first][c - 1] /\ h[first][c - 1] = g[first][c - 1]
          BY <2>5, <3>3, <4>1
        <4> HIDE DEF h
        <4> QED
          BY <2>4, <3>3, <4>2 DEF DumpsAt
      <3> QED
        BY <3>1, <3>2, <3>3
    <2>9. ASSUME NEW j \in first .. w + 1, NEW c \in 0 .. w
          PROVE  h[j][c] \in j .. w + 1 /\ DumpsAt(h, w, ks, ls, j, c)
      <3>1. h[j][c] = g[j][c] /\ g[j][c] \in j .. w + 1 /\ DumpsAt(g, w, ks, ls, j, c)
        BY <2>5, <2>6
      <3>2. CASE c = 0 \/ j > w
        <4> HIDE DEF h
        <4> QED
          BY <3>1, <3>2 DEF DumpsAt
      <3>3. CASE c # 0 /\ ~(j > w) /\ ks[j] \in Containers
        <4>1. c - 1 \in 0 .. w /\ j \in 1 .. w /\ ls[j] \in 0 .. w /\ j + 1 \in first .. w + 1
          BY <2>4, <3>3
        <4>6. h[j + 1][ls[j]] = g[j + 1][ls[j]]
          BY <2>5, <4>1
        <4>7. g[j + 1][ls[j]] \in j + 1 .. w + 1
          BY <2>6, <4>1
        <4>2. g[j + 1][ls[j]] \in first .. w + 1 /\ h[j + 1][ls[j]] = g[j + 1][ls[j]]
          <5> HIDE DEF h
          <5> QED
            BY <2>4, <4>1, <4>6, <4>7
        <4>3. h[g[j + 1][ls[j]]][c - 1] = g[g[j + 1][ls[j]]][c - 1]
          BY <2>5, <4>1, <4>2
        <4> HIDE DEF h
        <4>4. g[j][c] = g[g[j + 1][ls[j]]][c - 1]
          BY <3>1, <3>3 DEF DumpsAt
        <4>5. h[j][c] = h[h[j + 1][ls[j]]][c - 1]
          BY <3>1, <4>2, <4>3, <4>4
        <4> QED
          BY <3>1, <3>3, <4>5 DEF DumpsAt
      <3>4. CASE c # 0 /\ ~(j > w) /\ ks[j] \notin Containers
        <4>1. c - 1 \in 0 .. w /\ j + 1 \in first .. w + 1
          BY <2>4, <3>4
        <4>2. h[j + 1][c - 1] = g[j + 1][c - 1]
          BY <2>5, <4>1
        <4> HIDE DEF h
        <4>4. g[j][c] = g[j + 1][c - 1]
          BY <3>1, <3>4 DEF DumpsAt
        <4> QED
          BY <3>1, <3>4, <4>2, <4>4 DEF DumpsAt
      <3> QED
        BY <3>2, <3>3, <3>4, <3>1
    <2>10. h = [j \in e .. w + 1 |-> [c \in 0 .. w |-> h[j][c]]]
      OBVIOUS
    <2> HIDE DEF h
    <2>11. DumpFrom(h, e, w, ks, ls)
      <3>1. ASSUME NEW j \in e .. w + 1, NEW c \in 0 .. w
            PROVE  h[j][c] \in j .. w + 1 /\ DumpsAt(h, w, ks, ls, j, c)
        <4>1. j = e \/ j \in first .. w + 1
          BY <2>4
        <4> QED
          BY <2>7, <2>8, <2>9, <4>1
      <3> QED
        BY <2>10, <3>1 DEF DumpFrom, Onward
    <2> QED
      BY <2>4, <2>11
  <1>3. S = Nat
    <2>1. S \in SUBSET Nat
      OBVIOUS
    <2> HIDE DEF S
    <2> QED
      BY <1>1, <1>2, <2>1, SetInduction
  <1>4. w \in S
    BY <1>3
  <1> QED
    <2>1. w + 1 - w = 1
      OBVIOUS
    <2> QED
      BY <1>4, <2>1

\* DumpEnd is defined by recursion: it exists.
LEMMA DumpEndIs ==
    ASSUME Len(kinds) \in Nat,
           \A j \in 1 .. Len(kinds) : kinds[j] \in Containers => lengths[j] \in 0 .. Len(kinds)
    PROVE  \A j \in 1 .. Len(kinds) + 1 : \A c \in 0 .. Len(kinds) :
              DumpsAt(DumpEnd, Len(kinds), kinds, lengths, j, c)
  <1> DEFINE w == Len(kinds)
             x == DumpEnd
  <1>1. x = CHOOSE g : Dump(g, w, kinds, lengths)
    BY DEF DumpEnd, Dump
  <1>2. PICK g : DumpFrom(g, 1, w, kinds, lengths)
    BY DumpExists
  <1> HIDE DEF w, x
  <1>3. Dump(g, w, kinds, lengths)
    <2>1. \A j \in 1 .. w + 1 : \A c \in 0 .. w : DumpsAt(g, w, kinds, lengths, j, c)
      BY <1>2 DEF DumpFrom
    <2>2. g = [j \in 1 .. w + 1 |-> [c \in 0 .. w |-> g[j][c]]]
      BY <1>2 DEF DumpFrom, Onward
    <2>3. [j \in 1 .. w + 1 |-> [c \in 0 .. w |-> g[j][c]]] =
          [j \in 1 .. w + 1 |-> [c \in 0 .. w |->
             IF c = 0 \/ j > w THEN j
             ELSE IF kinds[j] \in Containers THEN g[g[j + 1][lengths[j]]][c - 1]
             ELSE g[j + 1][c - 1]]]
      BY <2>1 DEF DumpsAt
    <2> QED
      BY <2>2, <2>3 DEF Dump
  <1>4. Dump(x, w, kinds, lengths)
    BY <1>1, <1>3
  <1>5. ASSUME NEW j \in 1 .. w + 1, NEW c \in 0 .. w
        PROVE  DumpsAt(x, w, kinds, lengths, j, c)
    <2> DEFINE row(k) == [n \in 0 .. w |->
                 IF n = 0 \/ k > w THEN k
                 ELSE IF kinds[k] \in Containers THEN x[x[k + 1][lengths[k]]][n - 1]
                 ELSE x[k + 1][n - 1]]
    <2>1. x = [k \in 1 .. w + 1 |-> row(k)]
      BY <1>4 DEF Dump
    <2>2. row(j)[c] = IF c = 0 \/ j > w THEN j
                      ELSE IF kinds[j] \in Containers THEN x[x[j + 1][lengths[j]]][c - 1]
                      ELSE x[j + 1][c - 1]
      OBVIOUS
    <2> HIDE DEF row
    <2>3. x[j] = row(j)
      BY <2>1
    <2> QED
      BY <2>2, <2>3 DEF DumpsAt
  <1> QED
    BY <1>5 DEF x, w

\* Every value ends somewhere.
AllEnd == \A p \in DOMAIN kinds : \E s : Ends(p, s)

\* How long the arrays are.
LEMMA ArrayFacts ==
    ASSUME ArraysInv
    PROVE  /\ Len(kinds) \in Nat
           /\ DOMAIN kinds = 1 .. Len(kinds)
           /\ DOMAIN owner = 1 .. Len(kinds)
           /\ \A p \in 1 .. Len(kinds) : owner[p] \in Nat
  BY DEF ArraysInv

ChildrenFrom(o, j) == {q \in j .. Len(kinds) : owner[q] = o}

\* The children of a value can be counted.
LEMMA ChildrenAreFinite ==
    ASSUME Len(kinds) \in Nat, NEW o, NEW j \in Nat
    PROVE  /\ IsFiniteSet(ChildrenFrom(o, j))
           /\ Cardinality(ChildrenFrom(o, j)) \in Nat
           /\ j >= 1 => Cardinality(ChildrenFrom(o, j)) <= Len(kinds)
  <1> DEFINE n == Len(kinds)
             C == ChildrenFrom(o, j)
  <1>1. IsFiniteSet(j .. n) /\ C \subseteq j .. n
    BY FS_Interval DEF ChildrenFrom
  <1>2. IsFiniteSet(1 .. n) /\ Cardinality(1 .. n) = n
    <2>1. n \in Nat /\ 1 \in Int /\ n \in Int
      OBVIOUS
    <2> HIDE DEF n
    <2>2. IsFiniteSet(1 .. n) /\ Cardinality(1 .. n) = IF 1 > n THEN 0 ELSE n - 1 + 1
      BY <2>1, FS_Interval, Zenon
    <2> QED
      BY <2>1, <2>2
  <1>3. j >= 1 => C \subseteq 1 .. n
    BY <1>1
  <1> HIDE DEF C, n
  <1>4. IsFiniteSet(C) /\ Cardinality(C) \in Nat
    BY <1>1, FS_Subset, FS_CardinalityType
  <1>5. j >= 1 => Cardinality(C) <= n
    BY <1>2, <1>3, FS_Subset
  <1> QED
    BY <1>4, <1>5 DEF C, n

\* The length of a container counts the values behind it that it owns.
LEMMA LengthIs ==
    ASSUME ArraysInv, OwnersInv, LengthsCountChildren, NEW p \in DOMAIN kinds, kinds[p] \in Containers
    PROVE  /\ lengths[p] = Cardinality(ChildrenFrom(p, p + 1))
           /\ lengths[p] \in 0 .. Len(kinds)
  <1>1. {j \in DOMAIN owner : owner[j] = p} = ChildrenFrom(p, p + 1)
    BY ArrayFacts DEF OwnersInv, ChildrenFrom
  <1>2. lengths[p] = Cardinality(ChildrenFrom(p, p + 1))
    BY <1>1 DEF LengthsCountChildren
  <1> QED
    BY <1>2, ChildrenAreFinite, ArrayFacts

\* A value that is not a container ends at once.
LEMMA ScalarEnds ==
    ASSUME ArraysInv, OwnersInv, NEW p \in DOMAIN kinds, kinds[p] \notin Containers
    PROVE  Ends(p, p + 1)
  <1>1. p \in 1 .. Len(kinds) /\ Len(kinds) \in Nat
    BY ArrayFacts
  <1>2. ASSUME p + 1 <= Len(kinds)
        PROVE  owner[p + 1] < p
    <2>1. p + 1 \in DOMAIN kinds /\ p + 1 > 1 /\ owner[p + 1] \in Nat
      BY <1>1, <1>2, ArrayFacts
    <2>2. owner[p + 1] < p + 1 /\ kinds[owner[p + 1]] \in Containers
      BY <2>1 DEF OwnersInv
    <2> QED
      BY <1>1, <2>1, <2>2
  <1> QED
    BY <1>1, <1>2 DEF Ends

\* A value ends in one place.
LEMMA EndIsUnique ==
    ASSUME ArraysInv, NEW p \in DOMAIN kinds, NEW s, NEW e, Ends(p, s), Ends(p, e)
    PROVE  s = e
  BY ArrayFacts DEF Ends

\* Where the dump of the children of o, from the one at j, ends.
DumpsFrom(j) ==
    \A o \in DOMAIN kinds : \A s \in 1 .. Len(kinds) + 1 :
        /\ kinds[o] \in Containers /\ Ends(o, s)
        /\ o < j /\ j <= s
        /\ j = s \/ owner[j] = o
        => DumpEnd[j][Cardinality(ChildrenFrom(o, j))] = s

\* A container has no child behind its end.
LEMMA NoMoreChildren ==
    ASSUME ArraysInv, OwnersInv, NEW o \in DOMAIN kinds, NEW s, Ends(o, s)
    PROVE  ChildrenFrom(o, s) = {}
  <1> SUFFICES ASSUME NEW q \in s .. Len(kinds), owner[q] = o
               PROVE  FALSE
    BY DEF ChildrenFrom
  <1>1. /\ s \in 1 .. Len(kinds) + 1 /\ o \in 1 .. Len(kinds) /\ Len(kinds) \in Nat /\ o < s
        /\ s <= Len(kinds) => owner[s] < o
    BY ArrayFacts DEF Ends
  <1>2. q \in DOMAIN kinds /\ s \in DOMAIN kinds /\ owner[s] < o /\ owner[s] \in Nat
    BY <1>1, ArrayFacts
  <1>3. s < q
    BY <1>1, <1>2
  <1>4. owner[s] >= owner[q]
    BY <1>1, <1>2, <1>3 DEF OwnersInv
  <1> QED
    BY <1>1, <1>2, <1>4

\* Dumping from a value takes one step, to where its own dump ends.
LEMMA DumpStep ==
    ASSUME ArraysInv, OwnersInv, LengthsCountChildren, AllEnd,
           NEW j \in 1 .. Len(kinds), \A k \in j + 1 .. Len(kinds) + 1 : DumpsFrom(k)
    PROVE  DumpsFrom(j)
  <1> DEFINE n == Len(kinds)
  <1> SUFFICES ASSUME NEW o \in DOMAIN kinds, NEW s \in 1 .. n + 1, kinds[o] \in Containers, Ends(o, s),
                      o < j, j <= s, j = s \/ owner[j] = o
               PROVE  DumpEnd[j][Cardinality(ChildrenFrom(o, j))] = s
    BY DEF DumpsFrom
  <1>1. /\ n \in Nat /\ j \in DOMAIN kinds /\ o \in 1 .. n
        /\ \A p \in 1 .. n : owner[p] \in Nat
    BY ArrayFacts
  <1>2. \A k \in 1 .. n + 1 : \A c \in 0 .. n : DumpsAt(DumpEnd, n, kinds, lengths, k, c)
    BY <1>1, ArrayFacts, LengthIs, DumpEndIs
  <1>3. CASE j = s
    <2>1. ChildrenFrom(o, j) = {}
      BY <1>3, NoMoreChildren
    <2>2. Cardinality(ChildrenFrom(o, j)) = 0
      BY <2>1, FS_EmptySet
    <2> QED
      BY <1>1, <1>2, <1>3, <2>2 DEF DumpsAt
  <1>4. CASE owner[j] = o
    <2>1. PICK e : Ends(j, e)
      BY <1>1 DEF AllEnd
    <2>2. /\ e \in j + 1 .. n + 1
          /\ e <= n => owner[e] < j
          /\ \A q \in j + 1 .. e - 1 : owner[q] >= j
      BY <2>1 DEF Ends
    <2>3. /\ s \in o + 1 .. n + 1
          /\ s <= n => owner[s] < o
          /\ \A q \in o + 1 .. s - 1 : owner[q] >= o
      BY DEF Ends
    <2>4. j < s
      BY <1>1, <1>4, <2>3
    <2>5. e <= s
      <3> SUFFICES ASSUME s < e PROVE FALSE
        BY <2>2, <2>3
      <3>1. s \in j + 1 .. e - 1 /\ s <= n
        BY <1>1, <2>2, <2>3, <2>4
      <3>2. owner[s] >= j /\ owner[s] < o
        BY <2>2, <2>3, <3>1
      <3>3. s \in 1 .. n
        BY <1>1, <3>1, <2>2
      <3> QED
        BY <1>1, <3>2, <3>3
    <2>6. e = s \/ owner[e] = o
      <3> SUFFICES ASSUME e < s PROVE owner[e] = o
        BY <2>2, <2>3, <2>5
      <3>1. e \in 1 .. n /\ e \in o + 1 .. s - 1
        BY <1>1, <2>2, <2>3
      <3>2. owner[e] >= o /\ owner[e] < j /\ owner[e] \in Nat
        BY <1>1, <2>2, <2>3, <3>1
      <3>3. owner[j] >= owner[e]
        <4>1. j < e /\ e \in DOMAIN kinds
          BY <2>2, <3>1, ArrayFacts
        <4> QED
          BY <1>1, <3>2, <4>1 DEF OwnersInv
      <3> QED
        BY <1>1, <1>4, <3>2, <3>3
    <2> DEFINE C == ChildrenFrom(o, j)
               D == ChildrenFrom(o, e)
               c == Cardinality(C)
    <2>7. C = D \cup {j} /\ j \notin D
      <3>1. ASSUME NEW q \in j + 1 .. e - 1
            PROVE  owner[q] # o
        <4>1. owner[q] >= j /\ q \in 1 .. n
          BY <1>1, <2>2
        <4> QED
          BY <1>1, <4>1
      <3> QED
        BY <1>1, <1>4, <2>2, <3>1 DEF ChildrenFrom
    <2>8. IsFiniteSet(D) /\ Cardinality(D) \in Nat /\ c \in 0 .. n /\ c = Cardinality(D) + 1
      <3>1. IsFiniteSet(D) /\ Cardinality(D) \in Nat /\ c \in Nat /\ c <= n
        BY <1>1, <2>2, ChildrenAreFinite
      <3> HIDE DEF C, D
      <3>2. Cardinality(D \cup {j}) = Cardinality(D) + 1
        BY <2>7, <3>1, FS_AddElement
      <3> QED
        BY <1>1, <2>7, <3>1, <3>2
    <2> HIDE DEF C, D, c
    <2>9. DumpEnd[j][c] = DumpEnd[e][c - 1]
      <3>1. DumpsAt(DumpEnd, n, kinds, lengths, j, c) /\ c # 0 /\ ~(j > n)
        BY <1>1, <1>2, <2>8
      <3>2. CASE kinds[j] \in Containers
        <4>1. lengths[j] = Cardinality(ChildrenFrom(j, j + 1))
          BY <1>1, <3>2, LengthIs
        <4>2. j + 1 = e \/ owner[j + 1] = j
          <5> SUFFICES ASSUME j + 1 # e PROVE owner[j + 1] = j
            OBVIOUS
          <5>1. j + 1 \in j + 1 .. e - 1 /\ j + 1 \in 1 .. n
            BY <1>1, <2>2
          <5>2. owner[j + 1] >= j /\ owner[j + 1] < j + 1 /\ owner[j + 1] \in Nat
            BY <1>1, <2>2, <5>1 DEF OwnersInv
          <5> QED
            BY <1>1, <5>2
        <4>3. DumpsFrom(j + 1) /\ e \in 1 .. n + 1 /\ j < j + 1 /\ j + 1 <= e
          BY <1>1, <2>2
        <4>4. DumpEnd[j + 1][lengths[j]] = e
          BY <1>1, <2>1, <3>2, <4>1, <4>2, <4>3 DEF DumpsFrom
        <4> QED
          BY <3>1, <3>2, <4>4 DEF DumpsAt
      <3>3. CASE kinds[j] \notin Containers
        <4>1. e = j + 1
          BY <1>1, <2>1, <3>3, ScalarEnds, EndIsUnique
        <4> QED
          BY <3>1, <3>3, <4>1 DEF DumpsAt
      <3> QED
        BY <3>2, <3>3
    <2>10. DumpEnd[e][c - 1] = s
      <3>1. DumpsFrom(e) /\ o < e
        BY <1>1, <2>2
      <3>2. c - 1 = Cardinality(D)
        BY <2>8
      <3> QED
        BY <2>5, <2>6, <3>1, <3>2 DEF DumpsFrom, D
    <2> QED
      BY <2>9, <2>10 DEF c, C
  <1> QED
    BY <1>3, <1>4

\* The dump of the children of a container ends where the container does.
LEMMA DumpWalks ==
    ASSUME ArraysInv, OwnersInv, LengthsCountChildren, AllEnd
    PROVE  \A j \in 1 .. Len(kinds) + 1 : DumpsFrom(j)
  <1> DEFINE n == Len(kinds)
             S == {d \in Nat : \A j \in 1 .. n + 1 : n + 1 - j <= d => DumpsFrom(j)}
  <1>1. n \in Nat
    BY ArrayFacts
  <1>2. 0 \in S
    <2>1. DumpsFrom(n + 1)
      <3> SUFFICES ASSUME NEW o \in DOMAIN kinds, NEW s \in 1 .. n + 1, Ends(o, s), n + 1 <= s
                   PROVE  DumpEnd[n + 1][Cardinality(ChildrenFrom(o, n + 1))] = s
        BY DEF DumpsFrom
      <3>1. ChildrenFrom(o, n + 1) = {}
        BY <1>1 DEF ChildrenFrom
      <3>2. Cardinality(ChildrenFrom(o, n + 1)) = 0 /\ s = n + 1
        BY <1>1, <3>1, FS_EmptySet
      <3>3. DumpsAt(DumpEnd, n, kinds, lengths, n + 1, 0)
        <4>1. \A k \in 1 .. n + 1 : \A c \in 0 .. n : DumpsAt(DumpEnd, n, kinds, lengths, k, c)
          BY <1>1, ArrayFacts, LengthIs, DumpEndIs
        <4> QED
          BY <1>1, <4>1
      <3> QED
        BY <3>2, <3>3 DEF DumpsAt
    <2>2. \A j \in 1 .. n + 1 : n + 1 - j <= 0 => j = n + 1
      BY <1>1
    <2> QED
      BY <2>1, <2>2
  <1>3. ASSUME NEW d \in S
        PROVE  d + 1 \in S
    <2>1. d \in Nat /\ \A j \in 1 .. n + 1 : n + 1 - j <= d => DumpsFrom(j)
      OBVIOUS
    <2> HIDE DEF S
    <2>2. ASSUME NEW j \in 1 .. n + 1, n + 1 - j <= d + 1
          PROVE  DumpsFrom(j)
      <3>1. CASE n + 1 - j <= d
        BY <2>1, <3>1
      <3>2. CASE ~(n + 1 - j <= d)
        <4>1. j \in 1 .. n
          BY <1>1, <2>1, <3>2
        <4>2. ASSUME NEW k \in j + 1 .. n + 1
              PROVE  DumpsFrom(k)
          <5>1. k \in 1 .. n + 1 /\ n + 1 - k <= d
            BY <1>1, <2>1, <2>2, <4>1
          <5> QED
            BY <2>1, <5>1
        <4> QED
          BY <4>1, <4>2, DumpStep
      <3> QED
        BY <3>1, <3>2
    <2> QED
      BY <2>1, <2>2 DEF S
  <1>4. S = Nat
    <2>1. S \in SUBSET Nat
      OBVIOUS
    <2> HIDE DEF S
    <2> QED
      BY <1>2, <1>3, <2>1, SetInduction
  <1>5. n + 1 \in S
    BY <1>1, <1>4
  <1>6. ASSUME NEW j \in 1 .. n + 1
        PROVE  DumpsFrom(j)
    <2>1. n + 1 - j <= n + 1
      BY <1>1
    <2> QED
      BY <1>5, <2>1
  <1> QED
    BY <1>6

\* bc_dump_value ends where the value does, at any depth.
LEMMA AfterIs ==
    ASSUME ArraysInv, OwnersInv, LengthsCountChildren, AllEnd,
           NEW p \in DOMAIN kinds, NEW e, Ends(p, e)
    PROVE  After(p) = e
  <1> DEFINE n == Len(kinds)
  <1>1. n \in Nat /\ p \in 1 .. n /\ \A q \in 1 .. n : owner[q] \in Nat
    BY ArrayFacts
  <1>2. \A k \in 1 .. n + 1 : \A c \in 0 .. n : DumpsAt(DumpEnd, n, kinds, lengths, k, c)
    BY <1>1, ArrayFacts, LengthIs, DumpEndIs
  <1>3. /\ e \in p + 1 .. n + 1
        /\ \A q \in p + 1 .. e - 1 : owner[q] >= p
    BY DEF Ends
  <1>4. DumpsAt(DumpEnd, n, kinds, lengths, p, 1) /\ DumpsAt(DumpEnd, n, kinds, lengths, e, 0) /\ ~(p > n)
    BY <1>1, <1>2, <1>3
  <1>5. DumpEnd[e][0] = e
    BY <1>4 DEF DumpsAt
  <1>6. CASE kinds[p] \in Containers
    <2>1. p + 1 = e \/ owner[p + 1] = p
      <3> SUFFICES ASSUME p + 1 # e PROVE owner[p + 1] = p
        OBVIOUS
      <3>1. p + 1 \in p + 1 .. e - 1 /\ p + 1 \in 1 .. n /\ p + 1 \in DOMAIN kinds
        BY <1>1, <1>3, ArrayFacts
      <3>2. owner[p + 1] >= p /\ owner[p + 1] < p + 1 /\ owner[p + 1] \in Nat
        BY <1>1, <1>3, <3>1 DEF OwnersInv
      <3> QED
        BY <1>1, <3>2
    <2>2. DumpsFrom(p + 1) /\ p < p + 1 /\ p + 1 <= e /\ e \in 1 .. n + 1
      BY <1>1, <1>3, DumpWalks
    <2>3. DumpEnd[p + 1][lengths[p]] = e
      BY <1>6, <2>1, <2>2, LengthIs DEF DumpsFrom
    <2>4. DumpEnd[p][1] = DumpEnd[DumpEnd[p + 1][lengths[p]]][1 - 1]
      BY <1>4, <1>6 DEF DumpsAt
    <2> QED
      BY <1>5, <2>3, <2>4 DEF After
  <1>7. CASE kinds[p] \notin Containers
    <2>1. e = p + 1
      BY <1>7, ScalarEnds, EndIsUnique
    <2>2. DumpEnd[p][1] = DumpEnd[p + 1][1 - 1]
      BY <1>4, <1>7 DEF DumpsAt
    <2> QED
      BY <1>5, <2>1, <2>2 DEF After
  <1> QED
    BY <1>6, <1>7

-----------------------------------------------------------------------------
(* The check of keys, and what the invariant says of a file that is accepted. *)

\* A container has no more children than there are values behind it.
LEMMA LengthFits ==
    ASSUME ArraysInv, OwnersInv, LengthsCountChildren, NEW p \in DOMAIN kinds, kinds[p] \in Containers
    PROVE  lengths[p] \in Nat /\ p + lengths[p] <= Len(kinds)
  <1> DEFINE n == Len(kinds)
             C == ChildrenFrom(p, p + 1)
             R == p + 1 .. n
  <1>1. n \in Nat /\ p \in 1 .. n
    BY ArrayFacts
  <1>2. lengths[p] = Cardinality(C) /\ C \subseteq R
    BY LengthIs DEF ChildrenFrom
  <1>3. IsFiniteSet(R) /\ Cardinality(R) = n - p
    <2>1. p + 1 \in Int /\ n \in Int
      BY <1>1
    <2>2. IsFiniteSet(R) /\ Cardinality(R) = IF p + 1 > n THEN 0 ELSE n - (p + 1) + 1
      BY <2>1, FS_Interval
    <2> HIDE DEF R, n
    <2> QED
      BY <1>1, <2>2
  <1> HIDE DEF C, R, n
  <1>4. Cardinality(C) \in Nat /\ Cardinality(C) <= Cardinality(R)
    BY <1>2, <1>3, FS_Subset, FS_CardinalityType
  <1> QED
    BY <1>1, <1>2, <1>3, <1>4 DEF n

-----------------------------------------------------------------------------
(* The check of the keys of a dictionary. *)

\* The walk of KeysChecked.
KeyAfter(j) == IF j + 1 <= Len(kinds) /\ kinds[j + 1] \in Containers THEN j + lengths[j + 1] ELSE j
Walks(g, count, me) == g = [n \in 0 .. count |-> IF n = 0 THEN me + 1 ELSE KeyAfter(g[n - 1])]

\* The walk over the keys of a dictionary exists.
LEMMA WalkExists ==
    ASSUME NEW me, NEW count \in Nat
    PROVE  \E g : Walks(g, count, me)
  <1> DEFINE S == {k \in Nat : \E g : Walks(g, k, me)}
  <1>1. 0 \in S
    <2> DEFINE g == [k \in 0 .. 0 |-> me + 1]
    <2>1. g = [k \in 0 .. 0 |-> IF k = 0 THEN me + 1 ELSE KeyAfter(g[k - 1])]
      <3>1. \A k \in 0 .. 0 : k = 0
        OBVIOUS
      <3> QED
        BY <3>1, Zenon
    <2>2. Walks(g, 0, me)
      BY <2>1, Zenon DEF Walks
    <2> QED
      BY <2>2
  <1>2. ASSUME NEW k \in S
        PROVE  k + 1 \in S
    <2>1. k \in Nat
      OBVIOUS
    <2>2. PICK g : Walks(g, k, me)
      OBVIOUS
    <2> HIDE DEF S
    <2> DEFINE next == KeyAfter(g[k])
               h == [n \in 0 .. k + 1 |-> IF n = k + 1 THEN next ELSE g[n]]
    <2>3. ASSUME NEW n \in 0 .. k + 1
          PROVE  h[n] = IF n = 0 THEN me + 1 ELSE KeyAfter(h[n - 1])
      <3>1. CASE n = 0
        <4>1. 0 \in 0 .. k + 1 /\ 0 # k + 1 /\ 0 \in 0 .. k
          BY <2>1
        <4>2. h[0] = g[0]
          BY <4>1
        <4>3. g[0] = me + 1
          <5> HIDE DEF h, next
          <5> QED
            BY <2>2, <4>1, Zenon DEF Walks
        <4> QED
          BY <3>1, <4>2, <4>3, Zenon
      <3>2. CASE n = k + 1
        <4>1. n # 0 /\ n - 1 = k /\ k \in 0 .. k + 1 /\ k # k + 1
          BY <2>1, <3>2
        <4>2. h[k] = g[k]
          BY <4>1
        <4>3. h[n] = next
          BY <3>2
        <4> QED
          BY <3>2, <4>1, <4>2, <4>3, Zenon
      <3>3. CASE n # 0 /\ n # k + 1
        <4>1. n \in 0 .. k /\ n - 1 \in 0 .. k + 1 /\ n - 1 # k + 1
          BY <2>1, <3>3
        <4>2. h[n] = g[n] /\ h[n - 1] = g[n - 1]
          BY <3>3, <4>1, Zenon
        <4>3. g[n] = KeyAfter(g[n - 1])
          <5> HIDE DEF h, next
          <5> QED
            BY <2>2, <3>3, <4>1, Zenon DEF Walks
        <4> QED
          BY <3>3, <4>2, <4>3, Zenon
      <3> QED
        BY <3>1, <3>2, <3>3
    <2>4. h = [n \in 0 .. k + 1 |-> h[n]]
      BY Zenon
    <2> HIDE DEF h
    <2>5. h = [n \in 0 .. k + 1 |-> IF n = 0 THEN me + 1 ELSE KeyAfter(h[n - 1])]
      BY <2>3, <2>4, Zenon
    <2>6. Walks(h, k + 1, me)
      BY <2>5, Zenon DEF Walks
    <2> QED
      BY <2>1, <2>6 DEF S
  <1>3. S = Nat
    <2>1. S \in SUBSET Nat
      OBVIOUS
    <2> HIDE DEF S
    <2> QED
      BY <1>1, <1>2, <2>1, SetInduction
  <1> QED
    BY <1>3

\* Every key that is looked at is there, and so is the element after it.
LEMMA KeysAreThere ==
    ASSUME ArraysInv, OwnersInv, LengthsCountChildren,
           NEW me \in DOMAIN kinds, kinds[me] \in Containers, IsEven(lengths[me])
    PROVE  /\ \A j \in KeysChecked(me) : j \in Nat /\ j + 1 <= Len(kinds)
           /\ lengths[me] > 0 => me + 1 \in KeysChecked(me)
  <1> DEFINE count == lengths[me]
             last  == (count + 1) \div 2 - 1
             at    == CHOOSE g : Walks(g, count, me)
             n     == Len(kinds)
  <1>1. KeysChecked(me) = {at[k] : k \in 0 .. last}
    BY DEF KeysChecked, Walks, KeyAfter
  <1>2. count \in Nat /\ me + count <= n /\ n \in Nat /\ me \in Nat
    BY LengthFits, ArrayFacts
  <1>3. count % 2 = 0
    BY DEF IsEven
  <1>4. /\ last \in Int /\ last <= count
        /\ count = 0 => 0 .. last = {}
        /\ count > 0 => count >= 2 /\ 0 \in 0 .. last
    <2> HIDE DEF count
    <2> QED
      BY <1>2, <1>3
  <1>5. Walks(at, count, me)
    BY <1>2, WalkExists
  <1> HIDE DEF count, at, n, last
  <1>6. at[0] = me + 1 /\ \A k \in 0 .. count : k # 0 => at[k] = KeyAfter(at[k - 1])
    <2>1. \A k \in 0 .. count : at[k] = IF k = 0 THEN me + 1 ELSE KeyAfter(at[k - 1])
      BY <1>5, Zenon DEF Walks
    <2>2. 0 \in 0 .. count
      BY <1>2
    <2> QED
      BY <2>1, <2>2, Zenon
  <1>7. CASE count = 0
    BY <1>1, <1>4, <1>7 DEF count
  <1>8. CASE count > 0
    <2> DEFINE S == {k \in Nat : k <= count => at[k] \in Nat /\ at[k] + 1 <= n}
    <2>1. 0 \in S
      BY <1>2, <1>4, <1>6, <1>8
    <2>2. ASSUME NEW k \in S
          PROVE  k + 1 \in S
      <3>1. SUFFICES ASSUME k + 1 <= count
                     PROVE  at[k + 1] \in Nat /\ at[k + 1] + 1 <= n
        OBVIOUS
      <3>2. k \in Nat /\ at[k] \in Nat /\ at[k] + 1 <= n
        BY <1>2, <3>1
      <3> HIDE DEF S
      <3>3. at[k + 1] = KeyAfter(at[k])
        <4>1. k + 1 \in 0 .. count /\ k + 1 # 0 /\ (k + 1) - 1 = k
          BY <1>2, <3>1, <3>2
        <4>2. at[k + 1] = KeyAfter(at[(k + 1) - 1])
          BY <1>6, <4>1, Zenon
        <4> QED
          BY <4>1, <4>2, Zenon
      <3>4. CASE kinds[at[k] + 1] \in Containers
        <4>1. at[k] + 1 \in DOMAIN kinds
          BY <3>2, ArrayFacts DEF n
        <4>2. lengths[at[k] + 1] \in Nat /\ (at[k] + 1) + lengths[at[k] + 1] <= n
          BY <3>4, <4>1, LengthFits DEF n
        <4>3. at[k + 1] = at[k] + lengths[at[k] + 1]
          BY <3>2, <3>3, <3>4 DEF KeyAfter, n
        <4> QED
          BY <1>2, <3>2, <4>2, <4>3
      <3>5. CASE kinds[at[k] + 1] \notin Containers
        BY <3>2, <3>3, <3>5 DEF KeyAfter
      <3> QED
        BY <3>4, <3>5
    <2>3. S = Nat
      <3>1. S \in SUBSET Nat
        OBVIOUS
      <3> HIDE DEF S
      <3> QED
        BY <2>1, <2>2, <3>1, SetInduction
    <2>4. ASSUME NEW k \in 0 .. last
          PROVE  at[k] \in Nat /\ at[k] + 1 <= n
      <3>1. k \in Nat /\ k <= count
        BY <1>2, <1>4
      <3> QED
        BY <2>3, <3>1
    <2> HIDE DEF S
    <2>5. me + 1 \in KeysChecked(me)
      BY <1>1, <1>4, <1>6, <1>8
    <2> QED
      BY <1>1, <2>4, <2>5 DEF n
  <1> QED
    BY <1>2, <1>7, <1>8

\* The largest of some numbers.
LEMMA MaxIs ==
    ASSUME NEW n \in Nat, NEW T \in SUBSET (0 .. n), T # {}
    PROVE  Max(T) \in T
  <1> DEFINE P(k) == \A U \in SUBSET (0 .. k) : U # {} => \E x \in U : \A y \in U : x >= y
             S == {k \in Nat : P(k)}
  <1>1. 0 \in S
    <2>1. ASSUME NEW U \in SUBSET (0 .. 0), U # {}
          PROVE  \E x \in U : \A y \in U : x >= y
      <3>1. \A x \in U : x = 0
        OBVIOUS
      <3>2. 0 \in U
        BY <2>1, <3>1, Zenon
      <3>3. \A y \in U : 0 >= y
        BY <3>1
      <3> QED
        BY <3>2, <3>3, Zenon
    <2> QED
      BY <2>1
  <1>2. ASSUME NEW k \in S
        PROVE  k + 1 \in S
    <2>1. k \in Nat /\ P(k)
      OBVIOUS
    <2>2. ASSUME NEW U \in SUBSET (0 .. k + 1), U # {}
          PROVE  \E x \in U : \A y \in U : x >= y
      <3>1. CASE k + 1 \in U
        <4>1. \A y \in U : k + 1 >= y
          BY <2>1
        <4> QED
          BY <3>1, <4>1
      <3>2. CASE k + 1 \notin U
        <4>1. U \in SUBSET (0 .. k)
          BY <2>1, <3>2
        <4> QED
          BY <2>1, <2>2, <4>1
      <3> QED
        BY <3>1, <3>2
    <2> QED
      BY <2>1, <2>2
  <1>3. S = Nat
    <2>1. S \in SUBSET Nat
      OBVIOUS
    <2> HIDE DEF S
    <2> QED
      BY <1>1, <1>2, <2>1, SetInduction
  <1>4. P(n)
    BY <1>3
  <1>5. \E x \in T : \A y \in T : x >= y
    BY <1>4
  <1> QED
    BY <1>5 DEF Max

-----------------------------------------------------------------------------
\* When a file is accepted, what TreeInv says of its containers is what a dump,
\* a hash and the check of keys need.
LEMMA TreeIsDumped == TreeInv => TokensFormATree
  <1> SUFFICES ASSUME TreeInv PROVE TokensFormATree
    OBVIOUS
  <1>1. KeyCheckInBounds /\ LengthsCountChildren
    BY DEF TreeInv, WalkInv, KeyCheckInBounds
  <1>2. ASSUME err = "none", kinds # <<>>
        PROVE  /\ After(1) = Len(kinds) + 1
               /\ \A p \in DOMAIN kinds : kinds[p] \in Containers =>
                    LET inside == {q \in DOMAIN kinds : p < q /\ q < After(p)}
                        nested == Cardinality({q \in inside : kinds[q] \in Containers})
                    IN  spans[p].to - spans[p].from + 1 = 2 + Cardinality(inside) + nested
               /\ \A p \in DOMAIN kinds : kinds[p] = "dict" =>
                    lengths[p] % 2 = 0 /\ (lengths[p] > 0 => kinds[p + 1] = "str")
    <2> DEFINE n == Len(kinds)
    <2>1. ArraysInv /\ OwnersInv /\ LengthsCountChildren /\ calls = <<>>
      BY <1>2 DEF TreeInv, StackInv
    <2>2. OpenOnes = {}
      BY <2>1 DEF OpenOnes
    <2>3. n \in Nat \ {0} /\ DOMAIN kinds = 1 .. n /\ \A p \in 1 .. n : owner[p] \in Nat
      BY <1>2, <2>1, ArrayFacts DEF ArraysInv
    <2>4. \A p \in DOMAIN kinds : kinds[p] \in Containers =>
            \E s \in p + 1 .. n + 1 :
              /\ Ends(p, s)
              /\ spans[p].to - spans[p].from + 1 = 2 + (s - 1 - p) + Cardinality(Inner(p, s))
      BY <1>2, <2>2 DEF TreeInv, SpansInv, SpanInv
    <2>5. AllEnd
      BY <2>1, <2>4, ScalarEnds DEF AllEnd
    <2>6. \A p \in DOMAIN kinds : \A s : Ends(p, s) => After(p) = s
      BY <2>1, <2>5, AfterIs
    <2>7. After(1) = n + 1
      <3>1. 1 \in DOMAIN kinds
        BY <2>3
      <3>2. PICK s : Ends(1, s)
        BY <2>5, <3>1 DEF AllEnd
      <3>3. s \in 2 .. n + 1 /\ (s <= n => owner[s] < 1)
        BY <3>2 DEF Ends
      <3>4. s <= n => owner[s] # 0 /\ owner[s] \in Nat
        BY <2>1, <2>3, <3>3 DEF OwnersInv
      <3>5. s = n + 1
        BY <2>3, <3>3, <3>4
      <3> QED
        BY <2>6, <3>1, <3>2, <3>5
    <2>8. ASSUME NEW p \in DOMAIN kinds, kinds[p] \in Containers
          PROVE  LET inside == {q \in DOMAIN kinds : p < q /\ q < After(p)}
                     nested == Cardinality({q \in inside : kinds[q] \in Containers})
                 IN  spans[p].to - spans[p].from + 1 = 2 + Cardinality(inside) + nested
      <3>1. PICK s \in p + 1 .. n + 1 :
              /\ Ends(p, s)
              /\ spans[p].to - spans[p].from + 1 = 2 + (s - 1 - p) + Cardinality(Inner(p, s))
        BY <2>4, <2>8
      <3>2. After(p) = s
        BY <2>6, <3>1
      <3>3. p \in 1 .. n /\ s \in Int /\ p < s /\ s - 1 <= n
        BY <2>3, <3>1
      <3>4. {q \in DOMAIN kinds : p < q /\ q < s} = p + 1 .. s - 1
        BY <2>3, <3>3
      <3>5. Cardinality(p + 1 .. s - 1) = s - 1 - p
        <4>1. p + 1 \in Int /\ s - 1 \in Int
          BY <3>3
        <4>2. Cardinality(p + 1 .. s - 1) = IF p + 1 > s - 1 THEN 0 ELSE (s - 1) - (p + 1) + 1
          BY <4>1, FS_Interval
        <4> QED
          BY <3>3, <4>2
      <3>6. {q \in p + 1 .. s - 1 : kinds[q] \in Containers} = Inner(p, s)
        BY DEF Inner
      <3> QED
        BY <3>1, <3>2, <3>4, <3>5, <3>6
    <2>9. \A p \in DOMAIN kinds : kinds[p] = "dict" =>
            lengths[p] % 2 = 0 /\ (lengths[p] > 0 => kinds[p + 1] = "str")
      BY <1>2, <2>2 DEF TreeInv, PairsInv
    <2> QED
      BY <2>7, <2>8, <2>9
  <1> QED
    BY <1>1, <1>2 DEF TokensFormATree, DumpIsComplete

-----------------------------------------------------------------------------
(* A value is added. *)

\* The container whose values are being parsed.
Top == IF calls = <<>> THEN 0 ELSE calls[Len(calls)].me

\* The parent of the parser is the container on top of the stack.
LEMMA TopFacts ==
    ASSUME ArraysInv, StackInv, err = "parsing"
    PROVE  /\ \A c \in OpenOnes : c \in 1 .. Len(kinds) /\ c <= Top /\ kinds[c] \in Containers
           /\ Top = 0 <=> Len(kinds) = 0
           /\ Top = 0 <=> calls = <<>>
           /\ Top # 0 => Top \in OpenOnes /\ parent = Top
           /\ Top \in Nat /\ parent \in Nat
           /\ Top = 0 => parent = 1
  <1> DEFINE n == Len(kinds)
             d == Len(calls)
  <1>1. /\ n \in Nat /\ DOMAIN kinds = 1 .. n
        /\ calls \in Seq([me : Nat, parent : Nat]) /\ d \in Nat /\ DOMAIN calls = 1 .. d
    BY ArrayFacts DEF StackInv
  <1>2. \A k \in 1 .. d :
          /\ calls[k].me \in 1 .. n /\ kinds[calls[k].me] \in Containers
          /\ \A j \in 1 .. k - 1 : calls[j].me < calls[k].me
    BY <1>1 DEF StackInv
  <1>3. OpenOnes = {calls[k].me : k \in 1 .. d}
    BY <1>1 DEF OpenOnes
  <1>4. CASE calls = <<>>
    <2>1. kinds = <<>> /\ parent = 1
      BY <1>4 DEF StackInv
    <2>2. n = 0 /\ d = 0 /\ Top = 0
      BY <1>4, <2>1 DEF Top
    <2> QED
      BY <1>3, <1>4, <2>1, <2>2
  <1>5. CASE calls # <<>>
    <2>1. d \in 1 .. d
      BY <1>1, <1>5
    <2>2. Top = calls[d].me /\ parent = Top
      BY <1>5 DEF Top, StackInv
    <2>3. Top \in 1 .. n /\ Top \in OpenOnes
      BY <1>2, <1>3, <2>1, <2>2
    <2>4. \A k \in 1 .. d : calls[k].me <= calls[d].me
      <3> HIDE DEF d, n
      <3>1. ASSUME NEW k \in 1 .. d
            PROVE  k = d \/ k \in 1 .. d - 1
        BY <1>1
      <3>2. \A k \in 1 .. n : k \in Int
        BY <1>1
      <3>3. ASSUME NEW k \in 1 .. d
            PROVE  calls[k].me <= calls[d].me
        <4>1. /\ calls[k].me \in 1 .. n /\ calls[d].me \in 1 .. n
              /\ \A j \in 1 .. d - 1 : calls[j].me < calls[d].me
          BY <1>2, <2>1
        <4> DEFINE a == calls[k].me
                   b == calls[d].me
        <4>2. a \in Int /\ b \in Int
          BY <3>2, <4>1
        <4>3. a = b \/ a < b
          BY <3>1, <4>1, Zenon
        <4> HIDE DEF a, b
        <4>4. a <= b
          BY <4>2, <4>3
        <4> QED
          BY <4>4 DEF a, b
      <3> QED
        BY <3>3
    <2>5. \A c \in OpenOnes : c \in 1 .. n /\ c <= Top /\ kinds[c] \in Containers
      <3> HIDE DEF n, d
      <3> QED
        BY <1>2, <1>3, <2>2, <2>4
    <2>6. Top # 0 /\ Top \in Nat /\ n # 0
      BY <1>1, <2>3
    <2> QED
      BY <1>5, <2>2, <2>3, <2>5, <2>6
  <1> QED
    BY <1>4, <1>5

\* Appending to an array, whatever it holds.
LEMMA AppendToArray ==
    ASSUME NEW s, NEW n \in Nat, s = [p \in 1 .. n |-> s[p]], NEW x
    PROVE  LET t == Append(s, x)
           IN  /\ t = [p \in 1 .. n + 1 |-> t[p]]
               /\ \A p \in 1 .. n : t[p] = s[p]
               /\ t[n + 1] = x
               /\ Len(t) = n + 1
  <1> DEFINE V == {s[p] : p \in 1 .. n} \cup {x}
             t == Append(s, x)
  <1>1. s \in [1 .. n -> V]
    OBVIOUS
  <1> HIDE DEF V
  <1>2. s \in Seq(V) /\ Len(s) = n
    BY <1>1, IsASeq
  <1>3. x \in V
    BY DEF V
  <1>4. /\ t \in Seq(V) /\ Len(t) = n + 1
        /\ \A p \in 1 .. n : t[p] = s[p]
        /\ t[n + 1] = x
    BY <1>2, <1>3
  <1> HIDE DEF t
  <1>5. t \in [1 .. n + 1 -> V]
    BY <1>4
  <1>6. t = [p \in 1 .. n + 1 |-> t[p]]
    BY <1>5
  <1> QED
    BY <1>4, <1>6 DEF t

\* What Add does to the arrays, element by element.
LEMMA AddFacts ==
    ASSUME ArraysInv, StackInv, err = "parsing",
           NEW kind \in Kinds, NEW len, NEW span, Add(kind, len, span)
    PROVE  LET n == Len(kinds)
           IN  /\ Len(kinds)' = n + 1
               /\ ArraysInv'
               /\ \A p \in 1 .. n : /\ kinds'[p] = kinds[p]
                                    /\ lengths'[p] = IF p = Top THEN lengths[p] + 1 ELSE lengths[p]
                                    /\ spans'[p] = spans[p]
                                    /\ owner'[p] = owner[p]
               /\ kinds'[n + 1] = kind /\ lengths'[n + 1] = len
               /\ spans'[n + 1] = span /\ owner'[n + 1] = Top
               /\ read' = read + 1
  <1> DEFINE n == Len(kinds)
  <1>1. n \in Nat /\ DOMAIN kinds = 1 .. n /\ kinds \in Seq(Kinds) /\ owner \in [1 .. n -> Nat] /\ read \in Nat
    BY ArrayFacts DEF ArraysInv
  <1>2. /\ lengths = [p \in 1 .. n |-> lengths[p]]
        /\ spans = [p \in 1 .. n |-> spans[p]]
        /\ owner = [p \in 1 .. n |-> owner[p]]
    BY <1>1 DEF ArraysInv, IsArray
  <1>3. /\ Top \in Nat /\ parent \in Nat
        /\ n > 0 => parent = Top
    BY <1>1, TopFacts
  <1>4. /\ kinds' = Append(kinds, kind)
        /\ lengths' = Append(Counted, len)
        /\ spans' = Append(spans, span)
        /\ owner' = Append(owner, Top)
        /\ read' = read + 1
    BY DEF Add, Top, Last
  <1> DEFINE C == Counted
  <1>5. /\ C = [p \in 1 .. n |-> C[p]]
        /\ \A p \in 1 .. n : C[p] = IF p = Top THEN lengths[p] + 1 ELSE lengths[p]
    <2>1. DOMAIN lengths = 1 .. n
      BY <1>2
    <2>2. C = [p \in 1 .. n |-> IF p = parent THEN lengths[p] + 1 ELSE lengths[p]]
      BY <2>1 DEF Counted
    <2>3. \A p \in 1 .. n : parent = Top
      BY <1>1, <1>3
    <2> HIDE DEF C
    <2>4. C = [p \in 1 .. n |-> C[p]]
      BY <2>2
    <2> QED
      BY <2>2, <2>3, <2>4
  <1> HIDE DEF C
  <1>6. /\ kinds' \in Seq(Kinds) /\ Len(kinds') = n + 1
        /\ \A p \in 1 .. n : kinds'[p] = kinds[p]
        /\ kinds'[n + 1] = kind
    BY <1>1, <1>4
  <1>7. /\ lengths' = [p \in 1 .. n + 1 |-> lengths'[p]]
        /\ \A p \in 1 .. n : lengths'[p] = C[p]
        /\ lengths'[n + 1] = len
    BY <1>1, <1>4, <1>5, AppendToArray DEF C
  <1>8. /\ spans' = [p \in 1 .. n + 1 |-> spans'[p]]
        /\ \A p \in 1 .. n : spans'[p] = spans[p]
        /\ spans'[n + 1] = span
    BY <1>1, <1>2, <1>4, AppendToArray
  <1>9. /\ owner' = [p \in 1 .. n + 1 |-> owner'[p]]
        /\ \A p \in 1 .. n : owner'[p] = owner[p]
        /\ owner'[n + 1] = Top
    BY <1>1, <1>2, <1>4, AppendToArray
  <1>10. owner' \in [1 .. n + 1 -> Nat]
    <2>1. \A p \in 1 .. n + 1 : owner'[p] \in Nat
      <3>1. \A p \in 1 .. n + 1 : p = n + 1 \/ p \in 1 .. n
        BY <1>1
      <3> QED
        BY <1>1, <1>3, <1>9, <3>1
    <2> QED
      BY <1>9, <2>1
  <1>11. ArraysInv'
    BY <1>1, <1>4, <1>6, <1>7, <1>8, <1>10 DEF ArraysInv, IsArray
  <1> QED
    BY <1>4, <1>5, <1>6, <1>7, <1>8, <1>9, <1>11

-----------------------------------------------------------------------------
(* A value was added: a scalar, or a container, which is then open. *)

\* What a value of some kind adds to the open containers.
NewOpen(kind) == IF kind \in Containers THEN {Len(kinds) + 1} ELSE {}

\* A new value belongs to the innermost container that is open, and no value
\* before it changes its owner.
LEMMA AddKeepsOwners ==
    ASSUME ArraysInv, StackInv, OwnersInv, err = "parsing",
           NEW kind \in Kinds, NEW len, NEW span, Add(kind, len, span),
           OpenOnes' = OpenOnes \cup NewOpen(kind)
    PROVE  OwnersInv'
  <1> DEFINE n == Len(kinds)
  <1>1. /\ n \in Nat /\ DOMAIN kinds = 1 .. n /\ \A p \in 1 .. n : owner[p] \in Nat
        /\ DOMAIN kinds' = 1 .. n + 1
        /\ \A p \in 1 .. n : kinds'[p] = kinds[p] /\ owner'[p] = owner[p]
        /\ owner'[n + 1] = Top /\ kinds'[n + 1] = kind
    <2>1. ArraysInv' /\ Len(kinds') = n + 1
      BY AddFacts
    <2>2. DOMAIN kinds' = 1 .. n + 1
      BY <2>1 DEF ArraysInv
    <2> QED
      BY <2>2, ArrayFacts, AddFacts
  <1>2. /\ \A c \in OpenOnes : c \in 1 .. n /\ c <= Top /\ kinds[c] \in Containers
        /\ Top = 0 <=> n = 0
        /\ Top # 0 => Top \in OpenOnes
        /\ Top \in Nat
    BY TopFacts
  <1>3. /\ \A p \in 1 .. n : owner[p] < p /\ (owner[p] = 0 <=> p = 1) /\ (p > 1 => kinds[owner[p]] \in Containers)
        /\ \A p, q \in 1 .. n : owner[q] < p /\ p < q => owner[p] >= owner[q]
        /\ \A c \in OpenOnes : \A p \in 1 .. n : p > c => owner[p] >= c
    BY <1>1 DEF OwnersInv
  <1> HIDE DEF n
  <1>4. Top \in 0 .. n /\ (n > 0 => Top \in 1 .. n)
    BY <1>1, <1>2
  <1>5. ASSUME NEW p \in 1 .. n + 1
        PROVE  /\ owner'[p] < p
               /\ owner'[p] = 0 <=> p = 1
               /\ p > 1 => kinds'[owner'[p]] \in Containers
    <2>1. CASE p \in 1 .. n
      <3>1. p > 1 => owner[p] \in 1 .. n
        BY <1>1, <1>3, <2>1
      <3> QED
        BY <1>1, <1>3, <2>1, <3>1
    <2>2. CASE p = n + 1
      <3>1. owner'[p] = Top /\ (n > 0 => kinds'[Top] = kinds[Top])
        BY <1>1, <1>4, <2>2
      <3> QED
        BY <1>1, <1>2, <1>4, <2>2, <3>1
    <2> QED
      BY <1>1, <2>1, <2>2
  <1>6. ASSUME NEW p \in 1 .. n + 1, NEW q \in 1 .. n + 1, owner'[q] < p, p < q
        PROVE  owner'[p] >= owner'[q]
    <2>1. p \in 1 .. n
      BY <1>1, <1>6
    <2>2. CASE q \in 1 .. n
      BY <1>1, <1>3, <1>6, <2>1, <2>2
    <2>3. CASE q = n + 1
      <3>1. owner'[q] = Top /\ Top < p /\ n > 0
        BY <1>1, <1>6, <2>1, <2>3
      <3>2. Top \in OpenOnes
        BY <1>1, <1>2, <3>1
      <3> QED
        BY <1>1, <1>3, <2>1, <3>1, <3>2
    <2> QED
      BY <1>1, <2>2, <2>3
  <1>7. ASSUME NEW c \in OpenOnes', NEW p \in 1 .. n + 1, p > c
        PROVE  owner'[p] >= c
    <2>1. c \in OpenOnes
      <3>1. c # n + 1
        BY <1>1, <1>7
      <3> QED
        BY <3>1 DEF NewOpen, n
    <2>2. CASE p \in 1 .. n
      BY <1>1, <1>3, <1>7, <2>1, <2>2
    <2>3. CASE p = n + 1
      BY <1>1, <1>2, <2>1, <2>3
    <2> QED
      BY <1>1, <2>2, <2>3
  <1> QED
    BY <1>1, <1>5, <1>6, <1>7 DEF OwnersInv

\* Only the innermost open container has one child more, and counts it.
LEMMA AddKeepsCounts ==
    ASSUME ArraysInv, StackInv, OwnersInv, LengthsCountChildren, err = "parsing",
           NEW kind \in Kinds, NEW len, NEW span, Add(kind, len, span),
           kind \in Containers => len = 0
    PROVE  LengthsCountChildren'
  <1> DEFINE n == Len(kinds)
             Children(p) == {j \in DOMAIN owner : owner[j] = p}
  <1>1. /\ n \in Nat /\ DOMAIN kinds = 1 .. n /\ DOMAIN owner = 1 .. n
        /\ \A p \in 1 .. n : owner[p] \in Nat /\ owner[p] < p
        /\ DOMAIN kinds' = 1 .. n + 1 /\ DOMAIN owner' = 1 .. n + 1
        /\ \A p \in 1 .. n : /\ kinds'[p] = kinds[p] /\ owner'[p] = owner[p]
                             /\ lengths'[p] = IF p = Top THEN lengths[p] + 1 ELSE lengths[p]
        /\ owner'[n + 1] = Top /\ kinds'[n + 1] = kind /\ lengths'[n + 1] = len
    <2>1. ArraysInv' /\ Len(kinds') = n + 1
      BY AddFacts
    <2>2. DOMAIN kinds' = 1 .. n + 1 /\ DOMAIN owner' = 1 .. n + 1
      BY <2>1 DEF ArraysInv
    <2> QED
      BY <2>2, ArrayFacts, AddFacts DEF OwnersInv
  <1>2. Top \in Nat /\ Top <= n
    BY <1>1, TopFacts
  <1>3. ASSUME NEW p \in 1 .. n + 1, kinds'[p] \in Containers
        PROVE  lengths'[p] = Cardinality(Children(p))'
    <2>1. Children(p)' = {j \in 1 .. n + 1 : owner'[j] = p}
      BY <1>1
    <2>2. Children(p) = {j \in 1 .. n : owner[j] = p} /\ IsFiniteSet(Children(p)) /\ n + 1 \notin Children(p)
      <3>1. Children(p) = {j \in 1 .. n : owner[j] = p}
        BY <1>1
      <3>2. IsFiniteSet(1 .. n)
        BY <1>1, FS_Interval
      <3>3. Children(p) \subseteq 1 .. n
        BY <3>1
      <3> HIDE DEF Children
      <3> QED
        BY <1>1, <3>1, <3>2, <3>3, FS_Subset
    <2>3. CASE p \in 1 .. n
      <3>1. kinds[p] \in Containers /\ lengths[p] = Cardinality(Children(p))
        BY <1>1, <1>3, <2>3 DEF LengthsCountChildren
      <3>2. CASE p = Top
        <4>1. Children(p)' = Children(p) \cup {n + 1}
          BY <1>1, <2>1, <2>2, <3>2
        <4> HIDE DEF Children
        <4>2. Cardinality(Children(p) \cup {n + 1}) = Cardinality(Children(p)) + 1
          BY <2>2, FS_AddElement
        <4> QED
          BY <1>1, <2>3, <3>1, <3>2, <4>1, <4>2
      <3>3. CASE p # Top
        <4>1. Children(p)' = Children(p)
          BY <1>1, <2>1, <2>2, <3>3
        <4> HIDE DEF Children
        <4> QED
          BY <1>1, <2>3, <3>1, <3>3, <4>1
      <3> QED
        BY <3>2, <3>3
    <2>4. CASE p = n + 1
      <3>1. Children(p)' = {}
        BY <1>1, <1>2, <2>1, <2>4
      <3>2. len = 0 /\ lengths'[p] = len
        BY <1>1, <1>3, <2>4
      <3> HIDE DEF Children
      <3> QED
        BY <3>1, <3>2, FS_EmptySet
    <2> QED
      BY <1>1, <2>3, <2>4
  <1> QED
    BY <1>1, <1>3 DEF LengthsCountChildren

\* Every open container saw one token more; the spans of closed ones stay.
LEMMA AddKeepsSpans ==
    ASSUME ArraysInv, StackInv, OwnersInv, SpansInv, err = "parsing",
           NEW kind \in Kinds, NEW len, NEW span, Add(kind, len, span),
           kind \in Containers => span = [from |-> read + 1, to |-> 0],
           OpenOnes' = OpenOnes \cup NewOpen(kind)
    PROVE  SpansInv'
  <1>0. PICK n : n = Len(kinds)
    OBVIOUS
  <1>1. /\ n \in Nat /\ DOMAIN kinds = 1 .. n
        /\ DOMAIN kinds' = 1 .. n + 1 /\ Len(kinds') = n + 1 /\ n = Len(kinds)
        /\ \A p \in 1 .. n : /\ kinds'[p] = kinds[p] /\ owner'[p] = owner[p]
                             /\ spans'[p] = spans[p]
        /\ owner'[n + 1] = Top /\ kinds'[n + 1] = kind /\ spans'[n + 1] = span
        /\ read' = read + 1 /\ read \in Nat
    <2>1. ArraysInv' /\ Len(kinds') = n + 1
      BY <1>0, AddFacts
    <2>2. DOMAIN kinds' = 1 .. n + 1
      BY <2>1 DEF ArraysInv
    <2> QED
      BY <1>0, <2>1, <2>2, ArrayFacts, AddFacts DEF ArraysInv
  <1>2. /\ \A c \in OpenOnes : c \in 1 .. n /\ c <= Top /\ kinds[c] \in Containers
        /\ n > 0 => Top \in OpenOnes
        /\ Top \in Nat
    BY <1>1, TopFacts
  <1>3. \A p \in 1 .. n : kinds[p] \in Containers => SpanInv(p)
    BY <1>1 DEF SpansInv
  <1>4. OpenOnes' = OpenOnes \cup (IF kind \in Containers THEN {n + 1} ELSE {})
    BY <1>0 DEF NewOpen
  <1>5. ASSUME NEW p \in 1 .. n, kinds[p] \in Containers
        PROVE  SpanInv(p)'
    <2>1. SpanInv(p)
      BY <1>3, <1>5
    <2>2. CASE p \in OpenOnes
      <3>1. /\ spans[p] = [from |-> spans[p].from, to |-> spans[p].to]
            /\ spans[p].from \in Nat
            /\ read = spans[p].from + (n - p) + Cardinality(Inner(p, n + 1) \ OpenOnes)
        BY <1>1, <2>1, <2>2 DEF SpanInv
      <3>2. Inner(p, n + 1 + 1)' \ OpenOnes' = Inner(p, n + 1) \ OpenOnes
        <4>1. ASSUME NEW q
              PROVE  q \in Inner(p, n + 1 + 1)' \ OpenOnes' <=> q \in Inner(p, n + 1) \ OpenOnes
          <5>1. q \in Inner(p, n + 1) <=> q \in p + 1 .. (n + 1) - 1 /\ kinds[q] \in Containers
            BY DEF Inner
          <5>2. q \in Inner(p, n + 1 + 1)' <=> q \in p + 1 .. (n + 1 + 1) - 1 /\ kinds'[q] \in Containers
            BY DEF Inner
          <5>3. CASE q = n + 1
            <6>1. q \notin p + 1 .. (n + 1) - 1
              BY <1>1, <5>3
            <6>2. kinds'[q] \in Containers => q \in OpenOnes'
              BY <1>1, <1>4, <5>3
            <6> QED
              BY <5>1, <5>2, <6>1, <6>2
          <5>4. CASE q # n + 1
            <6>1. q \in p + 1 .. (n + 1) - 1 <=> q \in p + 1 .. (n + 1 + 1) - 1
              BY <1>1, <5>4
            <6>2. q \in p + 1 .. (n + 1) - 1 => kinds'[q] = kinds[q]
              BY <1>1
            <6>3. q \in OpenOnes' <=> q \in OpenOnes
              BY <1>4, <5>4
            <6> QED
              BY <5>1, <5>2, <6>1, <6>2, <6>3
          <5> QED
            BY <5>3, <5>4
        <4> QED
          BY <4>1
      <3> DEFINE x == Cardinality(Inner(p, n + 1) \ OpenOnes)
      <3>3. x \in Nat
        <4>1. IsFiniteSet(p + 1 .. (n + 1) - 1)
          BY <1>1, FS_Interval
        <4>2. Inner(p, n + 1) \ OpenOnes \subseteq p + 1 .. (n + 1) - 1
          BY DEF Inner
        <4> QED
          BY <4>1, <4>2, FS_Subset, FS_CardinalityType
      <3> HIDE DEF x
      <3>4. read' = spans'[p].from + (n + 1 - p) + x
        BY <1>1, <3>1, <3>3 DEF x
      <3>5. p \in OpenOnes'
        BY <1>4, <2>2
      <3>6. Cardinality(Inner(p, Len(kinds) + 1) \ OpenOnes)' = x
        <4>1. (Inner(p, Len(kinds) + 1) \ OpenOnes)' = Inner(p, n + 1 + 1)' \ OpenOnes'
          BY <1>1
        <4> QED
          BY <3>2, <4>1 DEF x
      <3>7. spans'[p] = spans[p]
        BY <1>1
      <3> QED
        BY <1>1, <3>1, <3>4, <3>5, <3>6, <3>7 DEF SpanInv
    <2>3. CASE p \notin OpenOnes
      <3>1. PICK s \in p + 1 .. n + 1 :
              /\ Ends(p, s) /\ Inner(p, s) \cap OpenOnes = {}
              /\ spans[p].to - spans[p].from + 1 = 2 + (s - 1 - p) + Cardinality(Inner(p, s))
        BY <1>1, <2>1, <2>3 DEF SpanInv
      <3>2. Inner(p, s)' = Inner(p, s) /\ Inner(p, s) \subseteq 1 .. n
        <4>1. p + 1 .. s - 1 \subseteq 1 .. n
          BY <1>1, <3>1
        <4> QED
          BY <1>1, <4>1 DEF Inner
      <3>3. p \notin OpenOnes' /\ Inner(p, s)' \cap OpenOnes' = {}
        BY <1>1, <1>4, <2>3, <3>1, <3>2
      <3>4. Ends(p, s)'
        <4>1. /\ s <= n => owner[s] < p
              /\ \A q \in p + 1 .. s - 1 : owner[q] >= p
          BY <1>1, <3>1 DEF Ends
        <4>2. \A q \in p + 1 .. s - 1 : q \in 1 .. n
          BY <1>1, <3>1
        <4>3. ASSUME s = n + 1
              PROVE  Top < p
          <5>1. Top \in OpenOnes /\ Top \in 1 .. n /\ kinds[Top] \in Containers /\ Top # p
            BY <1>1, <1>2, <2>3
          <5>2. Top \notin p + 1 .. s - 1
            BY <3>1, <5>1 DEF Inner
          <5> QED
            BY <1>1, <4>3, <5>1, <5>2
        <4>4. owner'[s] < p /\ s \in p + 1 .. n + 1 + 1
          <5>1. CASE s = n + 1
            BY <1>1, <4>3, <5>1
          <5>2. CASE s # n + 1
            BY <1>1, <3>1, <4>1, <5>2
          <5> QED
            BY <5>1, <5>2
        <4> QED
          BY <1>1, <4>1, <4>2, <4>4 DEF Ends
      <3>5. s \in p + 1 .. n + 1 + 1 /\ spans'[p] = spans[p]
        BY <1>1, <3>1
      <3> QED
        BY <1>1, <3>1, <3>2, <3>3, <3>4, <3>5 DEF SpanInv
    <2> QED
      BY <2>2, <2>3
  <1>6. ASSUME kind \in Containers
        PROVE  SpanInv(n + 1)'
    <2>1. n + 1 \in OpenOnes' /\ spans'[n + 1] = [from |-> read + 1, to |-> 0]
      BY <1>1, <1>4, <1>6
    <2>2. Inner(n + 1, n + 1 + 1)' = {}
      BY <1>1 DEF Inner
    <2>3. Cardinality(Inner(n + 1, n + 1 + 1)' \ OpenOnes') = 0
      BY <2>2, FS_EmptySet
    <2>4. Cardinality(Inner(n + 1, Len(kinds) + 1) \ OpenOnes)' = 0
      BY <1>1, <2>3
    <2>5. /\ spans'[n + 1] = [from |-> spans'[n + 1].from, to |-> spans'[n + 1].to]
          /\ spans'[n + 1].from = read + 1
      BY <2>1
    <2>6. read' = spans'[n + 1].from + (Len(kinds)' - (n + 1)) + 0
      BY <1>1, <2>5
    <2>7. spans'[n + 1].from \in Nat
      BY <1>1, <2>5
    <2> QED
      BY <2>1, <2>4, <2>5, <2>6, <2>7 DEF SpanInv
  <1>7. ASSUME NEW p \in 1 .. n + 1, kinds'[p] \in Containers
        PROVE  SpanInv(p)'
    <2>1. CASE p \in 1 .. n
      BY <1>1, <1>5, <1>7, <2>1
    <2>2. CASE p = n + 1
      <3>1. kind \in Containers
        BY <1>1, <1>7, <2>2
      <3>2. SpanInv(n + 1)'
        BY <1>6, <3>1
      <3> QED
        BY <2>2, <3>2, Zenon
    <2> QED
      BY <1>1, <2>1, <2>2
  <1> QED
    BY <1>1, <1>7 DEF SpansInv

\* What is known of the pairs of closed dictionaries stays.
LEMMA AddKeepsPairs ==
    ASSUME ArraysInv, StackInv, OwnersInv, LengthsCountChildren, PairsInv, err = "parsing",
           NEW kind \in Kinds, NEW len, NEW span, Add(kind, len, span),
           OpenOnes' = OpenOnes \cup NewOpen(kind)
    PROVE  PairsInv'
  <1> DEFINE n == Len(kinds)
  <1> SUFFICES ASSUME NEW p \in DOMAIN kinds', kinds'[p] = "dict", p \notin OpenOnes'
               PROVE  lengths'[p] % 2 = 0 /\ (lengths'[p] > 0 => kinds'[p + 1] = "str")
    BY DEF PairsInv
  <1>1. /\ n \in Nat /\ DOMAIN kinds = 1 .. n
        /\ DOMAIN kinds' = 1 .. n + 1
        /\ \A q \in 1 .. n : /\ kinds'[q] = kinds[q]
                             /\ lengths'[q] = IF q = Top THEN lengths[q] + 1 ELSE lengths[q]
        /\ kinds'[n + 1] = kind
    <2>1. ArraysInv' /\ Len(kinds') = n + 1
      BY AddFacts
    <2>2. DOMAIN kinds' = 1 .. n + 1
      BY <2>1 DEF ArraysInv
    <2> QED
      BY <2>2, ArrayFacts, AddFacts
  <1>2. p \in 1 .. n /\ p \notin OpenOnes
    <2>1. kind \in Containers => n + 1 \in OpenOnes'
      BY DEF NewOpen
    <2>2. p # n + 1
      BY <1>1, <2>1 DEF Containers
    <2> QED
      BY <1>1, <2>2
  <1>3. kinds[p] = "dict" /\ lengths'[p] = lengths[p]
    <2>1. p # Top
      BY <1>2, TopFacts
    <2> QED
      BY <1>1, <1>2, <2>1
  <1>4. lengths[p] % 2 = 0 /\ (lengths[p] > 0 => kinds[p + 1] = "str")
    BY <1>1, <1>2, <1>3 DEF PairsInv
  <1>5. lengths[p] > 0 => p + 1 \in 1 .. n
    <2>1. lengths[p] \in Nat /\ p + lengths[p] <= n
      BY <1>1, <1>2, <1>3, LengthFits DEF Containers
    <2> QED
      BY <1>1, <1>2, <2>1
  <1> QED
    BY <1>1, <1>3, <1>4, <1>5

-----------------------------------------------------------------------------
(* The steps of the parser. *)

\* A number or a string is read.
LEMMA ScalarKeepsTheTree ==
    ASSUME TreeInv, err = "parsing", NEW t, Scalar(t)
    PROVE  TreeInv'
  <1>1. PICK kind, len : kind \in {"int", "str"} /\ Add(kind, len, t)
    BY DEF Scalar
  <1>2. kind \in Kinds /\ kind \notin Containers
    BY <1>1 DEF Kinds, Containers
  <1>3. calls' = calls /\ parent' = parent /\ walk' = walk /\ err' = Returns(calls)
    BY DEF Scalar
  <1>4. OpenOnes' = OpenOnes \cup NewOpen(kind)
    BY <1>2, <1>3 DEF OpenOnes, NewOpen
  <1>5. ArraysInv /\ StackInv /\ OwnersInv /\ LengthsCountChildren /\ SpansInv /\ PairsInv /\ WalkInv
    BY DEF TreeInv
  <1>6. /\ Len(kinds) \in Nat /\ Len(kinds)' = Len(kinds) + 1
        /\ DOMAIN kinds = 1 .. Len(kinds) /\ DOMAIN kinds' = 1 .. Len(kinds) + 1
        /\ \A p \in 1 .. Len(kinds) : kinds'[p] = kinds[p]
        /\ ArraysInv'
    <2>1. ArraysInv' /\ Len(kinds)' = Len(kinds) + 1 /\ \A p \in 1 .. Len(kinds) : kinds'[p] = kinds[p]
      BY <1>1, <1>2, <1>5, AddFacts
    <2>2. DOMAIN kinds' = 1 .. Len(kinds)'
      BY <2>1 DEF ArraysInv
    <2> QED
      BY <1>5, <2>1, <2>2, ArrayFacts
  <1>7. StackInv'
    <2>1. \A p \in DOMAIN kinds : p \in DOMAIN kinds' /\ kinds'[p] = kinds[p]
      BY <1>6
    <2>2. /\ err' = "parsing" => calls # <<>>
          /\ err' = "none" => calls = <<>>
      BY <1>3 DEF Returns
    <2> QED
      BY <1>3, <1>5, <2>1, <2>2 DEF StackInv
  <1>8. OwnersInv' /\ LengthsCountChildren' /\ SpansInv' /\ PairsInv'
    BY <1>1, <1>2, <1>4, <1>5, AddKeepsOwners, AddKeepsCounts, AddKeepsSpans, AddKeepsPairs
  <1>9. WalkInv'
    BY <1>3, <1>5, <1>6 DEF WalkInv
  <1> QED
    BY <1>6, <1>7, <1>8, <1>9 DEF TreeInv

\* A list or a dictionary begins.
LEMMA OpenKeepsTheTree ==
    ASSUME TreeInv, err = "parsing", NEW t, Open(t)
    PROVE  TreeInv'
  <1>0. PICK n : n = Len(kinds)
    OBVIOUS
  <1>1. PICK kind \in Containers : Add(kind, 0, [from |-> read + 1, to |-> 0])
    BY DEF Open, Containers
  <1>2. kind \in Kinds
    BY DEF Kinds, Containers
  <1>3. /\ calls' = Append(calls, [me |-> n + 1, parent |-> parent])
        /\ parent' = n + 1 /\ walk' = walk /\ err' = "parsing"
    BY <1>0 DEF Open
  <1>4. ArraysInv /\ StackInv /\ OwnersInv /\ LengthsCountChildren /\ SpansInv /\ PairsInv /\ WalkInv
    BY DEF TreeInv
  <1>5. PICK d : d = Len(calls)
    OBVIOUS
  <1>6. parent \in Nat
    BY <1>4, TopFacts
  <1>7. /\ n \in Nat /\ Len(kinds)' = n + 1
        /\ DOMAIN kinds = 1 .. n /\ DOMAIN kinds' = 1 .. n + 1
        /\ \A p \in 1 .. n : kinds'[p] = kinds[p]
        /\ kinds'[n + 1] = kind
        /\ ArraysInv'
    <2>1. ArraysInv' /\ Len(kinds)' = n + 1 /\ (\A p \in 1 .. n : kinds'[p] = kinds[p]) /\ kinds'[n + 1] = kind
      BY <1>0, <1>1, <1>2, <1>4, AddFacts
    <2>2. DOMAIN kinds' = 1 .. Len(kinds)'
      BY <2>1 DEF ArraysInv
    <2> QED
      BY <1>0, <1>4, <2>1, <2>2, ArrayFacts
  <1>8. /\ calls \in Seq([me : Nat, parent : Nat]) /\ d \in Nat /\ DOMAIN calls = 1 .. d
        /\ [me |-> n + 1, parent |-> parent] \in [me : Nat, parent : Nat]
    BY <1>4, <1>5, <1>6, <1>7 DEF StackInv
  <1>9. /\ calls' \in Seq([me : Nat, parent : Nat]) /\ Len(calls') = d + 1 /\ DOMAIN calls' = 1 .. d + 1
        /\ \A k \in 1 .. d : calls'[k] = calls[k]
        /\ calls'[d + 1] = [me |-> n + 1, parent |-> parent]
    BY <1>3, <1>5, <1>8
  <1>10. OpenOnes' = OpenOnes \cup NewOpen(kind)
    <2>1. OpenOnes = {calls[k].me : k \in 1 .. d}
      BY <1>8 DEF OpenOnes
    <2>2. OpenOnes' = {calls'[k].me : k \in 1 .. d + 1}
      BY <1>9 DEF OpenOnes
    <2>3. \A k \in 1 .. d + 1 : k = d + 1 \/ k \in 1 .. d
      BY <1>8
    <2>4. 1 .. d \subseteq 1 .. d + 1 /\ d + 1 \in 1 .. d + 1
      BY <1>8
    <2>5. calls'[d + 1].me = n + 1
      BY <1>9
    <2>6. NewOpen(kind) = {n + 1}
      BY <1>0 DEF NewOpen
    <2> QED
      BY <1>9, <2>1, <2>2, <2>3, <2>4, <2>5, <2>6
  <1>11. StackInv'
    <2>1. \A k \in 1 .. d :
            /\ calls[k].me \in 1 .. n /\ kinds[calls[k].me] \in Containers
            /\ calls[k].parent = IF k = 1 THEN 1 ELSE calls[k - 1].me
            /\ \A j \in 1 .. k - 1 : calls[j].me < calls[k].me
      BY <1>4, <1>7, <1>8 DEF StackInv
    <2>2. parent = IF d = 0 THEN 1 ELSE calls[d].me
      BY <1>4, <1>5, <1>8 DEF StackInv
    <2>3. ASSUME NEW k \in 1 .. d + 1
          PROVE  /\ calls'[k].me \in 1 .. n + 1 /\ kinds'[calls'[k].me] \in Containers
                 /\ calls'[k].parent = IF k = 1 THEN 1 ELSE calls'[k - 1].me
                 /\ \A j \in 1 .. k - 1 : calls'[j].me < calls'[k].me
      <3>1. CASE k \in 1 .. d
        <4>1. k - 1 \in 0 .. d /\ (k # 1 => k - 1 \in 1 .. d) /\ 1 .. k - 1 \subseteq 1 .. d
          BY <1>8, <3>1
        <4>2. calls'[k] = calls[k] /\ \A j \in 1 .. k - 1 : calls'[j] = calls[j]
          BY <1>9, <3>1, <4>1
        <4>3. calls[k].me \in 1 .. n /\ kinds'[calls[k].me] = kinds[calls[k].me]
          BY <1>7, <2>1, <3>1
        <4>4. 1 .. n \subseteq 1 .. n + 1
          BY <1>7
        <4>5. k # 1 => calls'[k - 1] = calls[k - 1]
          BY <1>9, <4>1
        <4> QED
          BY <2>1, <3>1, <4>2, <4>3, <4>4, <4>5
      <3>2. CASE k = d + 1
        <4>1. calls'[k].me = n + 1 /\ calls'[k].parent = parent /\ kinds'[n + 1] = kind
          BY <1>7, <1>9, <3>2
        <4>2. k - 1 = d /\ (k = 1 <=> d = 0) /\ (d # 0 => d \in 1 .. d)
          BY <1>8, <3>2
        <4>3. ASSUME NEW j \in 1 .. k - 1
              PROVE  calls'[j].me < n + 1
          <5>1. j \in 1 .. d
            BY <4>2
          <5>2. calls'[j].me \in 1 .. n
            BY <1>9, <2>1, <5>1
          <5> QED
            BY <1>7, <5>2
        <4>4. n + 1 \in 1 .. n + 1
          BY <1>7
        <4>5. parent = IF k = 1 THEN 1 ELSE calls'[k - 1].me
          BY <1>9, <2>2, <4>2
        <4> QED
          BY <4>1, <4>3, <4>4, <4>5
      <3> QED
        BY <1>8, <3>1, <3>2
    <2>4. calls' # <<>> /\ parent' = calls'[Len(calls')].me
      BY <1>3, <1>8, <1>9
    <2> QED
      BY <1>3, <1>7, <1>9, <2>3, <2>4 DEF StackInv
  <1>12. OwnersInv' /\ LengthsCountChildren' /\ SpansInv' /\ PairsInv'
    BY <1>1, <1>2, <1>4, <1>10, AddKeepsOwners, AddKeepsCounts, AddKeepsSpans, AddKeepsPairs
  <1>13. WalkInv'
    BY <1>0, <1>3, <1>4, <1>7 DEF WalkInv
  <1> QED
    BY <1>7, <1>11, <1>12, <1>13 DEF TreeInv

\* The invariant is about the arrays and the stack only.
LEMMA SameArraysSameTree ==
    ASSUME TreeInv, UNCHANGED <<kinds, lengths, spans, owner, calls, read, walk>>,
           err' # "invalid dict" => err # "invalid dict"
    PROVE  ArraysInv' /\ OwnersInv' /\ LengthsCountChildren' /\ SpansInv' /\ PairsInv' /\ WalkInv'
  <1>1. OpenOnes' = OpenOnes
    BY DEF OpenOnes
  <1>2. ArraysInv'
    BY DEF TreeInv, ArraysInv, IsArray
  <1>3. OwnersInv'
    BY <1>1 DEF TreeInv, OwnersInv
  <1>4. LengthsCountChildren'
    BY DEF TreeInv, LengthsCountChildren
  <1>5. SpansInv'
    <2>1. ASSUME NEW p, NEW s
          PROVE  Inner(p, s)' = Inner(p, s) /\ (Ends(p, s)' <=> Ends(p, s))
      BY DEF Inner, Ends
    <2>2. ASSUME NEW p
          PROVE  (Inner(p, Len(kinds) + 1))' = Inner(p, Len(kinds) + 1)
      BY DEF Inner
    <2>3. ASSUME NEW p, SpanInv(p)
          PROVE  SpanInv(p)'
      BY <1>1, <2>1, <2>2, <2>3 DEF SpanInv
    <2> QED
      BY <2>3 DEF TreeInv, SpansInv
  <1>6. PairsInv'
    BY <1>1 DEF TreeInv, PairsInv
  <1>7. WalkInv'
    BY DEF TreeInv, WalkInv
  <1> QED
    BY <1>2, <1>3, <1>4, <1>5, <1>6, <1>7

\* The parse ends before the value at the root does.
LEMMA StopKeepsTheTree ==
    ASSUME TreeInv, err = "parsing", NEW t, Stop(t)
    PROVE  TreeInv'
  <1>1. UNCHANGED <<kinds, lengths, spans, parent, calls, read, walk, owner>>
    BY DEF Stop
  <1>2. err' # "parsing" /\ (err' = "none" => calls = <<>>)
    BY DEF Stop
  <1>3. StackInv'
    BY <1>1, <1>2 DEF TreeInv, StackInv
  <1> QED
    BY <1>1, <1>3, SameArraysSameTree DEF TreeInv

\* What does not parse leaves the tree alone.
LEMMA OthersKeepTheTree ==
    ASSUME TreeInv, UNCHANGED bcVars
    PROVE  TreeInv'
  <1>1. UNCHANGED <<kinds, lengths, spans, parent, calls, read, walk, owner, err>>
    BY DEF bcVars
  <1>2. StackInv'
    BY <1>1 DEF TreeInv, StackInv
  <1> QED
    BY <1>1, <1>2, SameArraysSameTree DEF TreeInv

\* A parser that was reset, for the file or for the response.
LEMMA NothingReadIsATree ==
    BencodeReset => TreeInv
  <1> SUFFICES ASSUME BencodeReset
               PROVE  TreeInv
    OBVIOUS
  <1>1. /\ kinds = <<>> /\ lengths = <<>> /\ spans = <<>> /\ owner = <<>>
        /\ calls = <<>> /\ read = 0 /\ err = "parsing" /\ walk = 0 /\ parent = 1
    BY DEF BencodeReset
  <1>2. DOMAIN kinds = {} /\ Len(kinds) = 0 /\ 1 .. Len(kinds) = {} /\ DOMAIN calls = {}
    BY <1>1
  <1>3. ArraysInv
    BY <1>1, <1>2 DEF ArraysInv, IsArray
  <1>4. StackInv
    BY <1>1, <1>2 DEF StackInv
  <1>5. OwnersInv /\ LengthsCountChildren /\ SpansInv /\ PairsInv /\ WalkInv
    BY <1>1, <1>2 DEF OwnersInv, OpenOnes, LengthsCountChildren, SpansInv, PairsInv, WalkInv
  <1> QED
    BY <1>3, <1>4, <1>5 DEF TreeInv

\* What Close does to the stack.
LEMMA CloseFacts ==
    ASSUME ArraysInv, StackInv, err = "parsing", NEW t, Close(t)
    PROVE  /\ Top \in 1 .. Len(kinds) /\ Top \in OpenOnes /\ kinds[Top] \in Containers
           /\ Last(calls).me = Top
           /\ OpenOnes' = OpenOnes \ {Top}
           /\ StackInv'
  <1>0. PICK n, d : n = Len(kinds) /\ d = Len(calls)
    OBVIOUS
  <1>1. /\ n \in Nat /\ DOMAIN kinds = 1 .. n
        /\ calls \in Seq([me : Nat, parent : Nat]) /\ d \in Nat /\ DOMAIN calls = 1 .. d
    BY <1>0, ArrayFacts DEF StackInv
  <1>2. calls # <<>> /\ kinds' = kinds /\ calls' = Front(calls)
    BY DEF Close
  <1>3. d \in 1 .. d /\ d - 1 \in Nat
    BY <1>0, <1>1, <1>2
  <1>4. Top = calls[d].me /\ Last(calls) = calls[d]
    BY <1>0, <1>2 DEF Top, Last
  <1>5. /\ calls' \in Seq([me : Nat, parent : Nat]) /\ Len(calls') = d - 1 /\ DOMAIN calls' = 1 .. d - 1
        /\ \A k \in 1 .. d - 1 : calls'[k] = calls[k]
    <2>1. calls' = SubSeq(calls, 1, d - 1)
      BY <1>0, <1>2 DEF Front
    <2> DEFINE R == [me : Nat, parent : Nat]
    <2>2. calls \in Seq(R)
      BY <1>1
    <2> HIDE DEF R
    <2>3. SubSeq(calls, 1, d - 1) \in Seq(R) /\ Len(SubSeq(calls, 1, d - 1)) = d - 1
      BY <1>0, <1>1, <1>3, <2>2
    <2>4. \A k \in 1 .. d - 1 : SubSeq(calls, 1, d - 1)[k] = calls[k]
      BY <1>0, <1>1, <1>3, <2>2
    <2>5. calls' \in Seq(R) /\ Len(calls') = d - 1 /\ \A k \in 1 .. d - 1 : calls'[k] = calls[k]
      BY <2>1, <2>3, <2>4
    <2>6. DOMAIN calls' = 1 .. d - 1
      BY <2>5
    <2> QED
      BY <2>5, <2>6 DEF R
  <1>6. \A k \in 1 .. d :
          /\ calls[k].me \in 1 .. n /\ kinds[calls[k].me] \in Containers
          /\ calls[k].parent = IF k = 1 THEN 1 ELSE calls[k - 1].me
          /\ \A j \in 1 .. k - 1 : calls[j].me < calls[k].me
    BY <1>1 DEF StackInv
  <1>7. Top \in 1 .. n /\ kinds[Top] \in Containers /\ Top \in OpenOnes
    BY <1>1, <1>3, <1>4, <1>6 DEF OpenOnes
  <1>8. \A k \in 1 .. d : k = d \/ k \in 1 .. d - 1
    BY <1>1
  <1>9. \A k \in 1 .. d - 1 : k \in 1 .. d /\ calls[k].me # Top
    <2>1. ASSUME NEW k \in 1 .. d - 1
          PROVE  k \in 1 .. d
      BY <1>1
    <2>2. ASSUME NEW k \in 1 .. d - 1
          PROVE  calls[k].me # Top
      <3>1. calls[k].me < calls[d].me /\ calls[k].me \in 1 .. n
        BY <1>3, <1>6, <2>1
      <3> QED
        BY <1>1, <1>4, <1>7, <3>1
    <2> QED
      BY <2>1, <2>2
  <1>10. OpenOnes' = OpenOnes \ {Top}
    <2>1. OpenOnes = {calls[k].me : k \in 1 .. d} /\ OpenOnes' = {calls'[k].me : k \in 1 .. d - 1}
      BY <1>1, <1>5 DEF OpenOnes
    <2> QED
      BY <1>4, <1>5, <1>8, <1>9, <2>1
  <1>11. StackInv'
    <2>1. ASSUME NEW k \in 1 .. d - 1
          PROVE  /\ calls'[k].me \in 1 .. n /\ kinds[calls'[k].me] \in Containers
                 /\ calls'[k].parent = IF k = 1 THEN 1 ELSE calls'[k - 1].me
                 /\ \A j \in 1 .. k - 1 : calls'[j].me < calls'[k].me
      <3>1. (k # 1 => k - 1 \in 1 .. d - 1) /\ 1 .. k - 1 \subseteq 1 .. d - 1
        BY <1>1
      <3>2. calls'[k] = calls[k] /\ \A j \in 1 .. k - 1 : calls'[j] = calls[j]
        BY <1>5, <3>1
      <3>3. k # 1 => calls'[k - 1] = calls[k - 1]
        BY <1>5, <3>1
      <3> QED
        BY <1>6, <1>9, <3>2, <3>3
    <2>2. calls' # <<>> <=> d # 1
      BY <1>1, <1>2, <1>5
    <2>3. ASSUME err' # "invalid dict"
          PROVE  /\ err' = Returns(calls')
                 /\ parent' = calls[d].parent
      BY <1>2, <1>4, <2>3 DEF Close, RestoredParent
    <2>4. err' = "parsing" => calls' # <<>> /\ parent' = calls'[Len(calls')].me
      <3>1. SUFFICES ASSUME err' = "parsing"
                     PROVE  calls' # <<>> /\ parent' = calls'[Len(calls')].me
        OBVIOUS
      <3>2. calls' # <<>>
        BY <2>3, <3>1 DEF Returns
      <3>3. parent' = calls[d - 1].me /\ d - 1 \in 1 .. d - 1
        BY <1>1, <1>3, <1>6, <2>2, <2>3, <3>1, <3>2
      <3> QED
        BY <1>5, <3>2, <3>3
    <2>5. err' = "none" => calls' = <<>>
      BY <2>3 DEF Returns
    <2> QED
      BY <1>1, <1>2, <1>5, <2>1, <2>4, <2>5 DEF StackInv
  <1> QED
    BY <1>0, <1>4, <1>7, <1>10, <1>11

\* The container that is closed ends here, with the tokens it has; nothing else
\* ends.
LEMMA CloseKeepsSpans ==
    ASSUME ArraysInv, StackInv, OwnersInv, SpansInv, err = "parsing", NEW t, Close(t),
           spans' = [spans EXCEPT ![Top].to = read + 1]
    PROVE  SpansInv'
  <1>0. PICK n : n = Len(kinds)
    OBVIOUS
  <1>1. /\ n \in Nat /\ DOMAIN kinds = 1 .. n /\ read \in Nat
        /\ \A p \in 1 .. n : owner[p] \in Nat
        /\ DOMAIN spans = 1 .. n
    <2>1. spans = [p \in 1 .. n |-> spans[p]]
      BY <1>0 DEF ArraysInv, IsArray
    <2>2. DOMAIN spans = 1 .. n
      BY <2>1
    <2> QED
      BY <1>0, <2>2, ArrayFacts DEF ArraysInv
  <1>2. PICK me : me = Top
    OBVIOUS
  <1>3. /\ me \in 1 .. n /\ me \in OpenOnes /\ kinds[me] \in Containers
        /\ OpenOnes' = OpenOnes \ {me}
        /\ \A c \in OpenOnes : c \in 1 .. n /\ c <= me /\ kinds[c] \in Containers
    BY <1>0, <1>2, CloseFacts, TopFacts
  <1>4. /\ kinds' = kinds /\ owner' = owner /\ read' = read + 1
        /\ spans' = [spans EXCEPT ![me].to = read + 1]
    BY <1>2 DEF Close
  <1>5. \A p \in 1 .. n : kinds[p] \in Containers => SpanInv(p)
    BY <1>1 DEF SpansInv
  <1>6. /\ \A p \in 1 .. n : p # me => spans'[p] = spans[p]
        /\ spans'[me] = [spans[me] EXCEPT !.to = read + 1]
    BY <1>1, <1>3, <1>4
  <1>7. \A p, s : Inner(p, s)' = Inner(p, s) /\ (Ends(p, s)' <=> Ends(p, s))
    BY <1>4 DEF Inner, Ends
  <1>8. \A p : Inner(p, Len(kinds) + 1)' = Inner(p, n + 1)
    BY <1>0, <1>4 DEF Inner
  <1>9. ASSUME NEW p \in 1 .. n
        PROVE  /\ IsFiniteSet(Inner(p, n + 1)) /\ Inner(p, n + 1) = {q \in p + 1 .. n : kinds[q] \in Containers}
    <2>1. Inner(p, n + 1) = {q \in p + 1 .. n : kinds[q] \in Containers}
      <3>1. p + 1 .. (n + 1) - 1 = p + 1 .. n
        BY <1>1
      <3> QED
        BY <3>1 DEF Inner
    <2>2. IsFiniteSet(p + 1 .. n)
      <3>1. p + 1 \in Int /\ n \in Int
        BY <1>1
      <3> QED
        BY <3>1, FS_Interval
    <2> QED
      BY <2>1, <2>2, FS_Subset
  <1>10. ASSUME NEW p \in 1 .. n, kinds[p] \in Containers, p \in OpenOnes, p # me
         PROVE  SpanInv(p)'
    <2>1. /\ spans[p] = [from |-> spans[p].from, to |-> spans[p].to]
          /\ spans[p].from \in Nat
          /\ read = spans[p].from + (n - p) + Cardinality(Inner(p, n + 1) \ OpenOnes)
      BY <1>0, <1>5, <1>10 DEF SpanInv
    <2> DEFINE U == Inner(p, n + 1) \ OpenOnes
    <2>2. Inner(p, n + 1) \ OpenOnes' = U \cup {me} /\ me \notin U
      <3>1. me \in p + 1 .. n
        BY <1>1, <1>3, <1>10
      <3> QED
        BY <1>3, <1>9, <3>1
    <2>3. IsFiniteSet(U)
      BY <1>9, FS_Subset
    <2> HIDE DEF U
    <2>4. Cardinality(U \cup {me}) = Cardinality(U) + 1 /\ Cardinality(U) \in Nat
      BY <2>2, <2>3, FS_AddElement, FS_CardinalityType
    <2>5. (Inner(p, Len(kinds) + 1) \ OpenOnes)' = U \cup {me}
      BY <1>8, <2>2
    <2>6. read = spans[p].from + (n - p) + Cardinality(U)
      BY <2>1 DEF U
    <2>7. read' = spans'[p].from + (Len(kinds)' - p) + Cardinality(Inner(p, Len(kinds) + 1) \ OpenOnes)'
      <3>1. Cardinality(Inner(p, Len(kinds) + 1) \ OpenOnes)' = Cardinality(U) + 1
        BY <2>4, <2>5
      <3>2. spans'[p].from = spans[p].from /\ Len(kinds)' = n
        BY <1>0, <1>4, <1>6, <1>10
      <3> QED
        BY <1>1, <1>4, <2>1, <2>4, <2>6, <3>1, <3>2
    <2> QED
      BY <1>3, <1>6, <1>10, <2>1, <2>7 DEF SpanInv
  <1>11. SpanInv(me)'
    <2>1. /\ spans[me] = [from |-> spans[me].from, to |-> spans[me].to]
          /\ spans[me].from \in Nat
          /\ read = spans[me].from + (n - me) + Cardinality(Inner(me, n + 1) \ OpenOnes)
      BY <1>0, <1>3, <1>5 DEF SpanInv
    <2>2. Inner(me, n + 1) \cap OpenOnes = {}
      BY <1>1, <1>3, <1>9
    <2>3. Inner(me, n + 1) \ OpenOnes = Inner(me, n + 1)
      BY <2>2
    <2>4. n + 1 \in me + 1 .. Len(kinds)' + 1
      BY <1>0, <1>1, <1>3, <1>4
    <2>5. Ends(me, n + 1)
      <3>1. \A q \in me + 1 .. (n + 1) - 1 : owner[q] >= me
        BY <1>1, <1>3 DEF OwnersInv
      <3>2. n + 1 \in me + 1 .. n + 1 /\ ~(n + 1 <= n)
        BY <1>1, <1>3
      <3> QED
        BY <1>0, <3>1, <3>2, Zenon DEF Ends
    <2>6. Cardinality(Inner(me, n + 1)) \in Nat
      BY <1>3, <1>9, FS_CardinalityType
    <2>7. spans'[me].to = read + 1 /\ spans'[me].from = spans[me].from
      <3> DEFINE x == spans[me].from
                 y == spans[me].to
      <3>1. spans[me] = [from |-> x, to |-> y]
        BY <2>1
      <3> HIDE DEF x, y
      <3>2. spans'[me] = [from |-> x, to |-> read + 1]
        BY <1>6, <3>1
      <3> QED
        BY <3>2 DEF x
    <2>8. spans'[me].to - spans'[me].from + 1 = 2 + ((n + 1) - 1 - me) + Cardinality(Inner(me, n + 1))
      <3> DEFINE x == spans[me].from
                 c == Cardinality(Inner(me, n + 1))
                 a == spans'[me].to
                 b == spans'[me].from
      <3>1. x \in Nat /\ c \in Nat /\ read = x + (n - me) + c
        BY <2>1, <2>3, <2>6
      <3>2. a = read + 1 /\ b = x
        BY <2>7
      <3>3. n \in Int /\ me \in Int /\ read \in Int
        BY <1>1, <1>3
      <3> HIDE DEF a, b, c, x
      <3>4. a - b + 1 = read + 2 - x
        BY <3>1, <3>2, <3>3
      <3>5. read + 2 - x = 2 + ((n + 1) - 1 - me) + c
        BY <3>1, <3>3
      <3>6. a - b + 1 = 2 + ((n + 1) - 1 - me) + c
        BY <3>4, <3>5, Zenon
      <3> QED
        BY <3>6 DEF a, b, c
    <2>9. me \notin OpenOnes' /\ Inner(me, n + 1)' \cap OpenOnes' = {}
      BY <1>3, <1>7, <2>2
    <2>10. Ends(me, n + 1)' /\ Cardinality(Inner(me, n + 1))' = Cardinality(Inner(me, n + 1))
      BY <1>7, <2>5
    <2> QED
      BY <2>4, <2>8, <2>9, <2>10 DEF SpanInv
  <1>12. ASSUME NEW p \in 1 .. n, kinds[p] \in Containers, p \notin OpenOnes
         PROVE  SpanInv(p)'
    <2>1. PICK s \in p + 1 .. n + 1 :
            /\ Ends(p, s) /\ Inner(p, s) \cap OpenOnes = {}
            /\ spans[p].to - spans[p].from + 1 = 2 + (s - 1 - p) + Cardinality(Inner(p, s))
      BY <1>0, <1>5, <1>12 DEF SpanInv
    <2>2. p \notin OpenOnes' /\ p # me /\ spans'[p] = spans[p]
      BY <1>3, <1>6, <1>12
    <2>3. Ends(p, s)' /\ Inner(p, s)' = Inner(p, s) /\ Inner(p, s)' \cap OpenOnes' = {}
      BY <1>3, <1>7, <2>1
    <2>4. s \in p + 1 .. Len(kinds)' + 1
      BY <1>0, <1>4
    <2>5. Cardinality(Inner(p, s))' = Cardinality(Inner(p, s))
      BY <2>3
    <2> QED
      BY <2>1, <2>2, <2>3, <2>4, <2>5 DEF SpanInv
  <1>13. \A p \in 1 .. n : kinds[p] \in Containers => SpanInv(p)'
    BY <1>10, <1>11, <1>12
  <1> QED
    BY <1>1, <1>4, <1>13 DEF SpansInv

\* A list or a dictionary ends, or turns out not to be one.
LEMMA CloseKeepsTheTree ==
    ASSUME TreeInv, err = "parsing", NEW t, Close(t)
    PROVE  TreeInv'
  <1>0. PICK n : n = Len(kinds)
    OBVIOUS
  <1>1. ArraysInv /\ StackInv /\ OwnersInv /\ LengthsCountChildren /\ SpansInv /\ PairsInv /\ WalkInv
    BY DEF TreeInv
  <1>2. PICK me : me = Top
    OBVIOUS
  <1>3. /\ me \in 1 .. n /\ me \in OpenOnes /\ kinds[me] \in Containers /\ Last(calls).me = me
        /\ OpenOnes' = OpenOnes \ {me}
        /\ StackInv'
    BY <1>0, <1>1, <1>2, CloseFacts
  <1>4. /\ n \in Nat /\ DOMAIN kinds = 1 .. n /\ read \in Nat
        /\ spans = [p \in 1 .. n |-> spans[p]]
    BY <1>0, <1>1, ArrayFacts DEF ArraysInv, IsArray
  <1>5. /\ kinds' = kinds /\ owner' = owner /\ lengths' = lengths /\ read' = read + 1
        /\ spans' = spans \/ spans' = [spans EXCEPT ![me].to = read + 1]
    BY <1>3 DEF Close
  <1>6. ArraysInv'
    <2>1. spans' = [p \in 1 .. n |-> spans'[p]]
      BY <1>4, <1>5
    <2>2. IsArray(spans)'
      BY <1>0, <1>5, <2>1 DEF IsArray
    <2>3. IsArray(lengths)' /\ read' \in Nat
      BY <1>1, <1>4, <1>5 DEF ArraysInv, IsArray
    <2> QED
      BY <1>1, <1>5, <2>2, <2>3 DEF ArraysInv
  <1>7. OwnersInv'
    <2>1. \A c \in OpenOnes' : c \in OpenOnes
      BY <1>3
    <2> QED
      BY <1>1, <1>5, <2>1 DEF OwnersInv
  <1>8. LengthsCountChildren'
    BY <1>1, <1>5 DEF LengthsCountChildren
  <1>9. SpansInv'
    <2>1. CASE err' = "invalid dict"
      BY <2>1 DEF SpansInv
    <2>2. CASE err' # "invalid dict"
      <3>1. spans' = [spans EXCEPT ![Top].to = read + 1]
        BY <1>2, <1>3, <2>2 DEF Close
      <3> QED
        BY <1>1, <3>1, CloseKeepsSpans
    <2> QED
      BY <2>1, <2>2
  <1>10. PairsInv'
    <2> SUFFICES ASSUME err' # "invalid dict", NEW p \in 1 .. n, kinds[p] = "dict", p \notin OpenOnes'
                 PROVE  lengths[p] % 2 = 0 /\ (lengths[p] > 0 => kinds[p + 1] = "str")
      BY <1>4, <1>5 DEF PairsInv
    <2>1. CASE p # me
      BY <1>1, <1>3, <1>4, <2>1 DEF PairsInv
    <2>2. CASE p = me
      <3>1. ValidDict(me)
        BY <1>3, <2>2 DEF Close
      <3>2. lengths[me] > 0 => me + 1 \in KeysChecked(me)
        BY <1>1, <1>3, <1>4, <3>1, KeysAreThere DEF ValidDict
      <3> QED
        BY <2>2, <3>1, <3>2 DEF ValidDict, IsEven
    <2> QED
      BY <2>1, <2>2
  <1>11. WalkInv'
    <2> DEFINE keys == IF kinds[me] = "dict" /\ IsEven(lengths[me]) THEN KeysChecked(me) ELSE {}
               T    == {j + 1 : j \in keys} \cup {walk}
    <2>1. walk' = Max(T)
      BY <1>3 DEF Close
    <2>2. walk \in 0 .. n
      BY <1>0, <1>1, <1>4 DEF WalkInv
    <2>3. \A j \in keys : j + 1 \in 0 .. n
      <3>1. ASSUME kinds[me] = "dict", IsEven(lengths[me]), NEW j \in KeysChecked(me)
            PROVE  j + 1 \in 0 .. n
        <4>1. j \in Nat /\ j + 1 <= n
          BY <1>0, <1>1, <1>3, <1>4, <3>1, KeysAreThere
        <4> QED
          BY <1>4, <4>1
      <3> QED
        BY <3>1
    <2> HIDE DEF keys
    <2>4. T \in SUBSET (0 .. n) /\ T # {}
      BY <2>2, <2>3
    <2> HIDE DEF T
    <2>5. Max(T) \in 0 .. n
      BY <1>4, <2>4, MaxIs
    <2> QED
      BY <1>0, <1>4, <1>5, <2>1, <2>5 DEF WalkInv
  <1> QED
    BY <1>3, <1>6, <1>7, <1>8, <1>9, <1>10, <1>11 DEF TreeInv

-----------------------------------------------------------------------------
\* Every call of bc_parse.
LEMMA ParseKeepsTheTree ==
    ASSUME TreeInv, NEW t, Parse(t)
    PROVE  TreeInv'
  BY ScalarKeepsTheTree, OpenKeepsTheTree, CloseKeepsTheTree, StopKeepsTheTree DEF Parse, bc_parse

\* Every step of the programs.
LEMMA StepKeepsTheTree ==
    TreeInv /\ [Next]_vars => TreeInv'
  <1> SUFFICES ASSUME TreeInv, [Next]_vars
               PROVE  TreeInv'
    OBVIOUS
  <1>1. CASE Parsing \/ ParsingEnd \/ DumpedEnd
    BY <1>1, ParseKeepsTheTree DEF Parsing, ParsingEnd, DumpedEnd
  <1>2. CASE CurlSucceeds
    <2>1. BencodeReset'
      BY <1>2 DEF CurlSucceeds, BencodeReset
    <2>2. BencodeReset' => TreeInv'
      BY NothingReadIsATree, PTL
    <2> QED
      BY <2>1, <2>2
  <1>3. CASE Main /\ ~CurlSucceeds
    <2>1. UNCHANGED bcVars
      BY <1>3 DEF Main, ReadFails, bc_parser_init_metainfo_step, bc_parser_init_metainfo_end,
                  tracker_parse_peer_addresses, open, ftruncate, peer_connect
    <2> QED
      BY <2>1, OthersKeepTheTree
  <1>4. CASE Curl
    <2>1. UNCHANGED bcVars
      BY <1>4 DEF Curl, tracker_on_response_chunk, CurlFails
    <2> QED
      BY <2>1, OthersKeepTheTree
  <1>5. CASE Walking \/ UNCHANGED vars
    <2>1. UNCHANGED bcVars
      BY <1>5 DEF Walking, vars
    <2> QED
      BY <2>1, OthersKeepTheTree
  <1> QED
    BY <1>1, <1>2, <1>3, <1>4, <1>5 DEF Next, Starting

\* bc_parse, bc_dump_value and the hash of the info dictionary agree on the shape
\* of every file: a container counts its children at every depth, also while it is
\* open; a file that is accepted is dumped value by value, each once, and pair by
\* pair, the first key of each dictionary being a string; a span holds all the
\* tokens of its value, and the check of keys stays within the array. For files of
\* any length and any depth, made of any tokens.
THEOREM FilesAreTrees == Spec => []TokensFormATree
  <1>1. Init => TreeInv
    BY NothingReadIsATree DEF Init, StartInit
  <1> QED
    BY <1>1, StepKeepsTheTree, TreeIsDumped, PTL DEF Spec

-----------------------------------------------------------------------------
(* What the reader of the metainfo may assume of a file. *)

\* A file that was accepted.
Parsed == TreeInv /\ err = "none"

\* What TreeInv says of a file that was accepted.
LEMMA ParsedFacts ==
    ASSUME Parsed
    PROVE  /\ ArraysInv /\ OwnersInv /\ LengthsCountChildren /\ AllEnd
           /\ Len(kinds) \in Nat /\ DOMAIN kinds = 1 .. Len(kinds) /\ DOMAIN owner = 1 .. Len(kinds)
           /\ \A p \in 1 .. Len(kinds) : owner[p] \in Nat /\ owner[p] < p /\ (owner[p] = 0 <=> p = 1)
           /\ \A p \in 1 .. Len(kinds) : kinds[p] = "dict" => lengths[p] % 2 = 0
  <1>1. ArraysInv /\ OwnersInv /\ LengthsCountChildren /\ SpansInv /\ PairsInv /\ calls = <<>>
    BY DEF Parsed, TreeInv, StackInv
  <1>2. OpenOnes = {}
    BY <1>1 DEF OpenOnes
  <1>3. \A p \in DOMAIN kinds : kinds[p] \in Containers => \E s : Ends(p, s)
    BY <1>1, <1>2 DEF Parsed, SpansInv, SpanInv
  <1>4. AllEnd
    BY <1>1, <1>3, ScalarEnds DEF AllEnd
  <1>5. /\ Len(kinds) \in Nat /\ DOMAIN kinds = 1 .. Len(kinds) /\ DOMAIN owner = 1 .. Len(kinds)
        /\ \A p \in 1 .. Len(kinds) : owner[p] \in Nat
    BY <1>1, ArrayFacts
  <1>6. \A p \in DOMAIN kinds : owner[p] < p /\ (owner[p] = 0 <=> p = 1)
    BY <1>1 DEF OwnersInv
  <1>7. \A p \in DOMAIN kinds : kinds[p] = "dict" => lengths[p] % 2 = 0
    BY <1>1, <1>2 DEF Parsed, PairsInv
  <1> QED
    BY <1>1, <1>4, <1>5, <1>6, <1>7

\* The children of a container are before its end.
LEMMA ChildrenAreInside ==
    ASSUME Parsed, NEW d \in DOMAIN kinds, kinds[d] \in Containers, NEW s, Ends(d, s)
    PROVE  /\ ChildrenFrom(d, d + 1) \subseteq d + 1 .. s - 1
           /\ lengths[d] \in Nat /\ lengths[d] <= s - 1 - d
           /\ s \in d + 1 .. Len(kinds) + 1
  <1>0. PICK n : n = Len(kinds)
    OBVIOUS
  <1>1. n \in Nat /\ d \in 1 .. n /\ \A p \in 1 .. n : owner[p] \in Nat
    BY <1>0, ParsedFacts
  <1>2. s \in d + 1 .. n + 1 /\ (s <= n => owner[s] < d)
    BY <1>0 DEF Ends
  <1>3. \A p, q \in 1 .. n : owner[q] < p /\ p < q => owner[p] >= owner[q]
    BY <1>0, ParsedFacts DEF OwnersInv
  <1>4. ASSUME NEW q \in ChildrenFrom(d, d + 1)
        PROVE  q \in d + 1 .. s - 1
    <2>1. q \in d + 1 .. n /\ owner[q] = d
      BY <1>0 DEF ChildrenFrom
    <2>2. ASSUME q > s
          PROVE  FALSE
      <3>1. s \in 1 .. n /\ q \in 1 .. n /\ owner[q] < s /\ s < q
        BY <1>1, <1>2, <2>1, <2>2
      <3>2. owner[s] >= owner[q]
        BY <1>3, <3>1
      <3> QED
        BY <1>1, <1>2, <2>1, <3>1, <3>2
    <2>3. q # s
      BY <1>1, <1>2, <2>1
    <2> QED
      BY <1>1, <1>2, <2>1, <2>2, <2>3
  <1> DEFINE C == ChildrenFrom(d, d + 1)
             R == d + 1 .. s - 1
  <1>5. lengths[d] = Cardinality(C)
    BY ParsedFacts, LengthIs
  <1>6. IsFiniteSet(R) /\ Cardinality(R) = s - 1 - d
    <2>1. d + 1 \in Int /\ s - 1 \in Int
      BY <1>1, <1>2
    <2>2. IsFiniteSet(R) /\ Cardinality(R) = IF d + 1 > s - 1 THEN 0 ELSE (s - 1) - (d + 1) + 1
      BY <2>1, FS_Interval
    <2> HIDE DEF R
    <2> QED
      BY <1>1, <1>2, <2>2
  <1>7. C \subseteq R
    BY <1>4
  <1> HIDE DEF C, R
  <1>8. Cardinality(C) \in Nat /\ Cardinality(C) <= Cardinality(R)
    BY <1>6, <1>7, FS_Subset, FS_CardinalityType
  <1> QED
    BY <1>0, <1>2, <1>5, <1>6, <1>7, <1>8 DEF C, R

\* When the info dictionary has nothing nested, its values are those behind it.
LEMMA FlatValues ==
    ASSUME Parsed, NEW d \in DOMAIN kinds, kinds[d] \in Containers,
           \A p \in DOMAIN owner : owner[p] = d => kinds[p] \notin Containers,
           NEW q \in d + 1 .. d + lengths[d]
    PROVE  q \in DOMAIN kinds /\ owner[q] = d
  <1>0. PICK n : n = Len(kinds)
    OBVIOUS
  <1>1. /\ n \in Nat /\ d \in 1 .. n /\ DOMAIN kinds = 1 .. n /\ DOMAIN owner = 1 .. n
        /\ \A p \in 1 .. n : owner[p] \in Nat /\ owner[p] < p
    BY <1>0, ParsedFacts
  <1>2. PICK s : Ends(d, s)
    BY ParsedFacts DEF AllEnd
  <1>3. /\ s \in d + 1 .. n + 1
        /\ \A p \in d + 1 .. s - 1 : owner[p] >= d
    BY <1>0, <1>2 DEF Ends
  <1>4. lengths[d] \in Nat /\ lengths[d] <= s - 1 - d
    BY <1>2, ChildrenAreInside
  <1>5. \A p \in 1 .. n : p > 1 => kinds[owner[p]] \in Containers
    BY <1>1, ParsedFacts DEF OwnersInv
  <1> DEFINE S == {k \in Nat : \A p \in d + 1 .. s - 1 : p <= k => owner[p] = d}
  <1>6. 0 \in S
    BY <1>1, <1>3
  <1>7. ASSUME NEW k \in S
        PROVE  k + 1 \in S
    <2>1. SUFFICES ASSUME NEW p \in d + 1 .. s - 1, p = k + 1
                   PROVE  owner[p] = d
      BY <1>1, <1>3
    <2>2. p \in 1 .. n /\ p > 1 /\ owner[p] \in Nat /\ owner[p] >= d /\ owner[p] < p
      BY <1>1, <1>3
    <2>3. SUFFICES ASSUME owner[p] > d
                   PROVE  FALSE
      BY <1>1, <2>2
    <2>4. owner[p] \in d + 1 .. s - 1 /\ owner[p] <= k /\ owner[p] \in 1 .. n
      BY <1>1, <1>3, <2>1, <2>2, <2>3
    <2>5. owner[owner[p]] = d
      BY <2>4
    <2>6. kinds[owner[p]] \in Containers
      BY <1>5, <2>2
    <2> QED
      BY <1>1, <2>4, <2>5, <2>6
  <1>8. S = Nat
    <2>1. S \in SUBSET Nat
      OBVIOUS
    <2> HIDE DEF S
    <2> QED
      BY <1>6, <1>7, <2>1, SetInduction
  <1>9. q \in Nat /\ q \in d + 1 .. s - 1 /\ q \in 1 .. n
    BY <1>1, <1>3, <1>4
  <1>10. q \in S
    BY <1>8, <1>9
  <1> QED
    BY <1>1, <1>9, <1>10

\* When a container has nothing nested, its children are those behind it.
LEMMA FlatChildren ==
    ASSUME Parsed, NEW d \in DOMAIN kinds, kinds[d] \in Containers,
           \A p \in DOMAIN owner : owner[p] = d => kinds[p] \notin Containers,
           NEW q \in DOMAIN kinds, owner[q] = d
    PROVE  q \in d + 1 .. d + lengths[d]
  <1>0. PICK n, L : n = Len(kinds) /\ L = lengths[d]
    OBVIOUS
  <1>1. /\ n \in Nat /\ d \in 1 .. n /\ DOMAIN kinds = 1 .. n /\ DOMAIN owner = 1 .. n
        /\ \A p \in 1 .. n : owner[p] \in Nat /\ owner[p] < p
    BY <1>0, ParsedFacts
  <1> DEFINE C == ChildrenFrom(d, d + 1)
             R == d + 1 .. d + L
  <1>2. L = Cardinality(C) /\ L \in Nat
    BY <1>0, <1>1, ParsedFacts, LengthIs, LengthFits
  <1>3. R \subseteq C
    <2>1. \A p \in R : p \in 1 .. n /\ owner[p] = d
      BY <1>0, <1>1, FlatValues
    <2>2. \A p \in R : p \in d + 1 .. n
      BY <1>1, <1>2, <2>1
    <2> QED
      BY <1>0, <2>1, <2>2 DEF ChildrenFrom
  <1>4. IsFiniteSet(C)
    BY <1>0, <1>1, ChildrenAreFinite
  <1>5. Cardinality(R) = L
    <2>1. d + 1 \in Int /\ d + L \in Int
      BY <1>1, <1>2
    <2>2. Cardinality(R) = IF d + 1 > d + L THEN 0 ELSE (d + L) - (d + 1) + 1
      BY <2>1, FS_Interval
    <2> HIDE DEF R
    <2> QED
      BY <1>1, <1>2, <2>2
  <1>6. q \in C
    BY <1>0, <1>1 DEF ChildrenFrom
  <1> HIDE DEF C, R
  <1>7. R = C
    BY <1>2, <1>3, <1>4, <1>5, FS_Subset
  <1> QED
    BY <1>0, <1>6, <1>7 DEF R

\* The key of a pair has a value behind it.
LEMMA KeysHaveValues ==
    ASSUME Parsed, NEW q \in DOMAIN kinds, owner[q] # 0, kinds[owner[q]] = "dict", IsDirectKey(q, owner[q])
    PROVE  \E r \in DOMAIN kinds : q < r /\ owner[r] = owner[q]
  <1>0. PICK n, o : n = Len(kinds) /\ o = owner[q]
    OBVIOUS
  <1>1. /\ n \in Nat /\ q \in 1 .. n /\ DOMAIN kinds = 1 .. n /\ DOMAIN owner = 1 .. n
        /\ o \in 1 .. n /\ kinds[o] = "dict"
        /\ \A p \in 1 .. n : owner[p] \in Nat
    <2>1. /\ n \in Nat /\ q \in 1 .. n /\ DOMAIN kinds = 1 .. n /\ DOMAIN owner = 1 .. n
          /\ \A p \in 1 .. n : owner[p] \in Nat /\ owner[p] < p
      BY <1>0, ParsedFacts
    <2> QED
      BY <1>0, <2>1
  <1>2. SUFFICES ASSUME \A r \in 1 .. n : q < r => owner[r] # o
                 PROVE  FALSE
    BY <1>0, <1>1
  <1> DEFINE B == {p \in 1 .. q - 1 : owner[p] = o}
  <1>3. Cardinality(B) % 2 = 0
    BY <1>0 DEF IsDirectKey
  <1>4. {j \in DOMAIN owner : owner[j] = o} = B \cup {q}
    BY <1>0, <1>1, <1>2
  <1>5. q \notin B /\ IsFiniteSet(B)
    <2>1. q \notin B
      BY <1>1
    <2>2. IsFiniteSet(1 .. q - 1) /\ B \subseteq 1 .. q - 1
      <3>1. 1 \in Int /\ q - 1 \in Int
        BY <1>1
      <3> QED
        BY <3>1, FS_Interval
    <2> QED
      BY <2>1, <2>2, FS_Subset
  <1> HIDE DEF B
  <1>6. Cardinality(B \cup {q}) = Cardinality(B) + 1 /\ Cardinality(B) \in Nat
    BY <1>5, FS_AddElement, FS_CardinalityType
  <1>7. lengths[o] = Cardinality(B \cup {q})
    <2>1. kinds[o] \in Containers /\ o \in DOMAIN kinds
      BY <1>1 DEF Containers
    <2>2. lengths[o] = Cardinality({j \in DOMAIN owner : owner[j] = o})
      BY <2>1, ParsedFacts DEF LengthsCountChildren
    <2> QED
      BY <1>4, <2>2
  <1>8. lengths[o] % 2 = 0
    BY <1>0, <1>1, ParsedFacts
  <1> QED
    BY <1>3, <1>6, <1>7, <1>8

-----------------------------------------------------------------------------
(* Fields are found where they may be. *)

\* Once the file was accepted.
ReadStages == {"metainfo", "fetch", "done", "rejected"}

\* Where a field of the info dictionary may be.
InDict(q, d) == d < q /\ q < d + lengths[d]
Found(f, q) ==
    /\ q \in 2 .. i - 1 /\ q < Len(kinds)
    /\ kinds[q] = "str" /\ spans[q].text = <<f>>
    /\ f \notin {"announce", "info"} => \E d \in InfoDicts : InDict(q, d)

\* Reading starts afresh; what is known of the info dictionary is where it ends;
\* and what was read for a field is behind a key of that name.
StartsReading ==
    stage = "parse" => i = 2 /\ in_info = FALSE /\ metainfo = NoMetainfo
InfoIsKnown ==
    /\ i \in Nat \ {0, 1} /\ in_info \in BOOLEAN
    /\ metainfo \in [Fields -> Nat]
    /\ stage \in ReadStages => err = "none"
    /\ stage \in ReadStages /\ in_info => \E d \in InfoDicts : d <= i /\ info_end = d - 1 + lengths[d]
FieldsAreFound ==
    stage \in ReadStages => \A f \in Fields : metainfo[f] # 0 => Found(f, metainfo[f] - 1)

FoundInv == TreeInv /\ StartsReading /\ InfoIsKnown /\ FieldsAreFound

\* What a step of bc_parser_init_metainfo does with the key at i.
ReadsInfo ==
    /\ IsKey("info") /\ ValueIs("dict")
    /\ in_info' = TRUE /\ info_end' = i + lengths[i + 1]
    /\ metainfo' = [metainfo EXCEPT !["info"] = i + 1] /\ stage' = "metainfo"
Reads(f) ==
    /\ IsKey(f) /\ (f = "announce" \/ InInfo)
    /\ in_info' = InInfo /\ info_end' = info_end
    /\ \/ GoodValue(f, i + 1) /\ metainfo' = [metainfo EXCEPT ![f] = i + 1] /\ stage' = "metainfo"
       \/ ~GoodValue(f, i + 1) /\ metainfo' = metainfo /\ stage' = "rejected"
Skips == ~Matches /\ in_info' = InInfo /\ info_end' = info_end /\ metainfo' = metainfo /\ stage' = "metainfo"

\* A step of bc_parser_init_metainfo reads the info dictionary, another field, or
\* nothing.
LEMMA ReaderSteps ==
    ASSUME bc_parser_init_metainfo_step
    PROVE  /\ i' = i + 1 /\ i < Len(kinds) /\ UNCHANGED bcVars /\ stage = "metainfo"
           /\ ReadsInfo \/ (\E f \in Fields \ {"info"} : Reads(f)) \/ Skips
  <1>1. /\ i' = i + 1 /\ i < Len(kinds) /\ UNCHANGED bcVars /\ stage = "metainfo"
    BY DEF bc_parser_init_metainfo_step, NextKey
  <1>2. CASE ReadInfo
    BY <1>1, <1>2 DEF ReadInfo, ReadsInfo, InfoEnd
  <1>3. CASE ReadField("announce", "str", TRUE)
    <2>1. GoodValue("announce", i + 1) /\ "announce" \in Fields \ {"info"}
      BY <1>3 DEF ReadField, ValueIs, GoodValue, Fields
    <2>2. Reads("announce")
      BY <1>1, <1>3, <2>1 DEF ReadField, Reads, Keeps
    <2> QED
      BY <1>1, <2>1, <2>2
  <1>4. CASE ReadField("name", "str", TRUE)
    <2>1. GoodValue("name", i + 1) /\ "name" \in Fields \ {"info"}
      BY <1>4 DEF ReadField, ValueIs, GoodValue, Fields
    <2>2. Reads("name")
      BY <1>1, <1>4, <2>1 DEF ReadField, Reads, Keeps
    <2> QED
      BY <1>1, <2>1, <2>2
  <1>5. CASE kinds[i + 1] = "int" /\ ReadField("piece length", "int", ValueNumber \in 1 .. MaxU32)
    <2>1. (GoodValue("piece length", i + 1) <=> ValueNumber \in 1 .. MaxU32) /\ "piece length" \in Fields \ {"info"}
      BY <1>5 DEF GoodValue, Fields, ValueNumber
    <2>2. Reads("piece length")
      BY <1>1, <1>5, <2>1 DEF ReadField, Reads, Keeps, Rejects, Goes
    <2> QED
      BY <1>1, <2>1, <2>2
  <1>6. CASE kinds[i + 1] = "int" /\ ReadField("length", "int", ValueNumber > 0)
    <2>1. (GoodValue("length", i + 1) <=> ValueNumber > 0) /\ "length" \in Fields \ {"info"}
      BY <1>6 DEF GoodValue, Fields, ValueNumber
    <2>2. Reads("length")
      BY <1>1, <1>6, <2>1 DEF ReadField, Reads, Keeps, Rejects, Goes
    <2> QED
      BY <1>1, <2>1, <2>2
  <1>7. CASE kinds[i + 1] = "str" /\ ReadField("pieces", "str", ValueLength % 20 = 0)
    <2>1. (GoodValue("pieces", i + 1) <=> ValueLength % 20 = 0) /\ "pieces" \in Fields \ {"info"}
      BY <1>7 DEF GoodValue, Fields, ValueLength
    <2>2. Reads("pieces")
      BY <1>1, <1>7, <2>1 DEF ReadField, Reads, Keeps, Rejects, Goes
    <2> QED
      BY <1>1, <2>1, <2>2
  <1>8. CASE ReadNothing
    BY <1>1, <1>8 DEF ReadNothing, Skips
  <1> QED
    BY <1>2, <1>3, <1>4, <1>5, <1>6, <1>7, <1>8 DEF bc_parser_init_metainfo_step

\* Nothing is read, and perhaps another stage is reached.
LEMMA FoundStays ==
    ASSUME FoundInv, UNCHANGED bcVars, UNCHANGED readerVars,
           stage' = "parse" => stage = "parse",
           stage' \in ReadStages => stage \in ReadStages
    PROVE  FoundInv'
  <1>1. UNCHANGED <<kinds, lengths, spans, owner, err, i, in_info, info_end, metainfo>>
    BY DEF bcVars, readerVars
  <1>2. InfoDicts' = InfoDicts
    BY <1>1 DEF InfoDicts
  <1>3. TreeInv'
    BY OthersKeepTheTree DEF FoundInv
  <1>4. StartsReading'
    BY <1>1 DEF FoundInv, StartsReading
  <1>5. InfoIsKnown'
    BY <1>1, <1>2 DEF FoundInv, InfoIsKnown
  <1>6. ASSUME NEW f, NEW q, Found(f, q)
        PROVE  Found(f, q)'
    BY <1>1, <1>2, <1>6 DEF Found, InDict
  <1>7. ASSUME stage' \in ReadStages, NEW f \in Fields, metainfo'[f] # 0
        PROVE  Found(f, metainfo[f] - 1)'
    <2> DEFINE q == metainfo[f] - 1
    <2>1. Found(f, q)
      BY <1>1, <1>7 DEF FoundInv, FieldsAreFound
    <2>2. q' = q
      BY <1>1
    <2> HIDE DEF q
    <2>3. \A x : Found(f, x) => Found(f, x)'
      BY <1>6
    <2>4. PICK x : x = q
      OBVIOUS
    <2>5. Found(f, x)'
      BY <2>1, <2>3, <2>4
    <2> QED
      BY <1>1, <2>4, <2>5 DEF q, Found
  <1>8. FieldsAreFound'
    BY <1>7 DEF FieldsAreFound
  <1> QED
    BY <1>3, <1>4, <1>5, <1>8 DEF FoundInv

\* While parsing, no field is known.
LEMMA ParsingFindsNothing ==
    ASSUME FoundInv, NEW t, Parse(t)
    PROVE  FoundInv'
  <1>1. TreeInv'
    BY ParseKeepsTheTree DEF FoundInv
  <1>2. UNCHANGED <<i, in_info, info_end, metainfo>>
    BY DEF Parse, readerVars
  <1>3. /\ stage' = "parse" => stage = "parse"
        /\ stage' \in ReadStages => stage = "parse" /\ err' = "none"
    BY DEF Parse, ReadStages
  <1>4. StartsReading'
    BY <1>2, <1>3 DEF FoundInv, StartsReading
  <1>5. InfoIsKnown'
    BY <1>2, <1>3 DEF FoundInv, InfoIsKnown, StartsReading
  <1>6. FieldsAreFound'
    <2>1. stage = "parse" => \A f \in Fields : metainfo[f] = 0
      BY DEF FoundInv, StartsReading, NoMetainfo
    <2> QED
      BY <1>2, <1>3, <2>1 DEF FieldsAreFound
  <1> QED
    BY <1>1, <1>4, <1>5, <1>6 DEF FoundInv

\* A field that a step reads is where it may be.
LEMMA ReadingFindsFields ==
    ASSUME FoundInv, bc_parser_init_metainfo_step
    PROVE  FoundInv'
  <1>1. /\ i' = i + 1 /\ i < Len(kinds) /\ UNCHANGED bcVars /\ stage = "metainfo"
        /\ ReadsInfo \/ (\E f \in Fields \ {"info"} : Reads(f)) \/ Skips
    BY ReaderSteps
  <1>2. UNCHANGED <<kinds, lengths, spans, owner, err>>
    BY <1>1 DEF bcVars
  <1>3. InfoDicts' = InfoDicts
    BY <1>2 DEF InfoDicts
  <1>4. /\ i \in Nat \ {0, 1} /\ in_info \in BOOLEAN /\ metainfo \in [Fields -> Nat] /\ err = "none"
        /\ in_info => \E d \in InfoDicts : d <= i /\ info_end = d - 1 + lengths[d]
        /\ \A f \in Fields : metainfo[f] # 0 => Found(f, metainfo[f] - 1)
    BY <1>1 DEF FoundInv, InfoIsKnown, FieldsAreFound, ReadStages
  <1>5. TreeInv' /\ Parsed /\ Len(kinds) \in Nat /\ DOMAIN kinds = 1 .. Len(kinds)
    <2>1. Parsed
      BY <1>4 DEF FoundInv, Parsed
    <2> QED
      BY <1>1, <2>1, OthersKeepTheTree, ParsedFacts DEF FoundInv
  <1>6. stage' \in {"metainfo", "rejected"}
    BY <1>1 DEF ReadsInfo, Reads, Skips
  <1>7. InInfo \in BOOLEAN /\ (InInfo => in_info /\ i <= info_end)
    BY <1>4 DEF InInfo
  \* What was found stays, and what is new is at i.
  <1>8. ASSUME NEW f, NEW q, Found(f, q)
        PROVE  Found(f, q)'
    <2>1. 2 .. i - 1 \subseteq 2 .. i' - 1
      BY <1>1, <1>4
    <2>2. q \in 2 .. i' - 1
      BY <1>8, <2>1 DEF Found
    <2> QED
      BY <1>2, <1>3, <1>8, <2>2 DEF Found, InDict
  <1>9. ASSUME NEW f \in Fields, IsKey(f), f \notin {"announce", "info"} => InInfo
        PROVE  \E q1 : q1 = i /\ Found(f, q1)'
    <2>0. PICK q1 : q1 = i
      OBVIOUS
    <2>1. q1 \in 2 .. i' - 1 /\ q1 < Len(kinds)' /\ q1 = i' - 1
      BY <1>1, <1>2, <1>4, <2>0
    <2>2. kinds'[q1] = "str" /\ spans'[q1].text = <<f>>
      BY <1>2, <1>9, <2>0 DEF IsKey
    <2>3. ASSUME f \notin {"announce", "info"}
          PROVE  \E d \in InfoDicts' : InDict(q1, d)'
      <3>1. PICK d \in InfoDicts : d <= i /\ info_end = d - 1 + lengths[d]
        BY <1>4, <1>7, <1>9, <2>3
      <3>2. i <= info_end
        BY <1>7, <1>9, <2>3
      <3>3. d \in 2 .. Len(kinds) /\ kinds[d] = "dict" /\ kinds[i] = "str"
        BY <1>9 DEF InfoDicts, IsKey
      <3>4. lengths[d] \in Nat
        BY <1>5, <3>3, ParsedFacts, LengthFits DEF Containers
      <3>5. d < i /\ i < d + lengths[d]
        BY <1>4, <1>5, <3>1, <3>2, <3>3, <3>4
      <3> QED
        BY <1>2, <1>3, <2>0, <3>5 DEF InDict
    <2>4. Found(f, q1)'
      BY <2>1, <2>2, <2>3 DEF Found
    <2> QED
      BY <2>0, <2>4
  <1>10. CASE ReadsInfo
    <2>1. /\ metainfo' = [metainfo EXCEPT !["info"] = i + 1] /\ info_end' = i + lengths[i + 1]
          /\ kinds[i] = "str" /\ spans[i].text = <<"info">> /\ kinds[i + 1] = "dict" /\ in_info' = TRUE
      BY <1>10 DEF ReadsInfo, IsKey, ValueIs
    <2>2. i + 1 \in InfoDicts
      <3>1. i + 1 \in 2 .. Len(kinds) /\ (i + 1) - 1 = i
        BY <1>1, <1>4, <1>5
      <3> QED
        BY <2>1, <3>1 DEF InfoDicts
    <2>3. lengths[i + 1] \in Nat
      <3>1. i + 1 \in DOMAIN kinds
        BY <1>1, <1>4, <1>5
      <3> QED
        BY <1>5, <2>1, <3>1, ParsedFacts, LengthFits DEF Containers
    <2>4. \E d \in InfoDicts' : d <= i' /\ info_end' = d - 1 + lengths'[d]
      <3>1. i + 1 <= i' /\ i + lengths[i + 1] = (i + 1) - 1 + lengths[i + 1]
        BY <1>1, <1>4, <2>3
      <3> QED
        BY <1>2, <1>3, <2>1, <2>2, <3>1
    <2>5. metainfo' \in [Fields -> Nat] /\ i' \in Nat \ {0, 1}
      <3>1. i' \in Nat \ {0, 1} /\ i + 1 \in Nat
        BY <1>1, <1>4
      <3> QED
        BY <1>4, <2>1, <3>1
    <2>6. InfoIsKnown'
      BY <1>2, <1>4, <2>1, <2>4, <2>5 DEF InfoIsKnown
    <2>7. ASSUME NEW f \in Fields, metainfo'[f] # 0
          PROVE  Found(f, metainfo[f] - 1)'
      <3>1. CASE f = "info"
        <4>1. IsKey(f) /\ metainfo'[f] = i + 1 /\ metainfo'[f] - 1 = i
          BY <1>1, <1>4, <2>1, <3>1 DEF IsKey
        <4>2. PICK q : q = i /\ Found(f, q)'
          BY <1>9, <3>1, <4>1
        <4> QED
          BY <4>1, <4>2
      <3>2. CASE f # "info"
        <4>1. metainfo'[f] = metainfo[f]
          BY <1>4, <2>1, <3>2
        <4>2. PICK q : q = metainfo[f] - 1
          OBVIOUS
        <4>3. Found(f, q)'
          BY <1>4, <1>8, <2>7, <4>1, <4>2
        <4> QED
          BY <4>1, <4>2, <4>3
      <3> QED
        BY <3>1, <3>2
    <2> QED
      BY <1>5, <1>6, <2>6, <2>7 DEF FoundInv, StartsReading, FieldsAreFound
  <1>11. CASE (\E f \in Fields \ {"info"} : Reads(f)) \/ Skips
    <2>1. PICK f1 \in Fields \ {"info"} : Reads(f1) \/ Skips
      <3>1. "announce" \in Fields \ {"info"}
        BY DEF Fields
      <3>2. CASE Skips
        BY <3>1, <3>2
      <3> QED
        BY <1>11, <3>2
    <2>2. /\ in_info' = InInfo /\ info_end' = info_end
          /\ \/ metainfo' = metainfo
             \/ /\ metainfo' = [metainfo EXCEPT ![f1] = i + 1]
                /\ IsKey(f1) /\ (f1 = "announce" \/ InInfo)
      BY <2>1 DEF Reads, Skips
    <2>3. metainfo' \in [Fields -> Nat] /\ i' \in Nat \ {0, 1}
      BY <1>1, <1>4, <2>2
    <2>4. in_info' => \E d \in InfoDicts' : d <= i' /\ info_end' = d - 1 + lengths'[d]
      <3>1. \A d \in InfoDicts : d <= i => d <= i'
        BY <1>1, <1>4, <1>5 DEF InfoDicts
      <3> QED
        BY <1>2, <1>3, <1>4, <1>7, <2>2, <3>1
    <2>5. InfoIsKnown'
      BY <1>2, <1>4, <1>7, <2>2, <2>3, <2>4 DEF InfoIsKnown
    <2>6. ASSUME NEW f \in Fields, metainfo'[f] # 0
          PROVE  Found(f, metainfo[f] - 1)'
      <3>1. CASE metainfo'[f] = metainfo[f]
        <4>2. PICK q : q = metainfo[f] - 1
          OBVIOUS
        <4>3. Found(f, q)'
          BY <1>4, <1>8, <2>6, <3>1, <4>2
        <4> QED
          BY <3>1, <4>2, <4>3
      <3>2. CASE metainfo'[f] # metainfo[f]
        <4>1. f = f1 /\ metainfo'[f] = i + 1 /\ IsKey(f) /\ (f = "announce" \/ InInfo)
          BY <1>4, <2>2, <3>2
        <4>2. metainfo'[f] - 1 = i
          BY <1>1, <1>4, <4>1
        <4>3. PICK q : q = i /\ Found(f, q)'
          BY <1>9, <4>1
        <4> QED
          BY <4>2, <4>3
      <3> QED
        BY <3>1, <3>2
    <2> QED
      BY <1>5, <1>6, <2>5, <2>6 DEF FoundInv, StartsReading, FieldsAreFound
  <1> QED
    BY <1>1, <1>10, <1>11

-----------------------------------------------------------------------------
(* Plain torrents are read as they are written. *)

\* A key whose value a reader should take.
Wanted(f, q) ==
    /\ q < Len(kinds) /\ kinds[q] = "str" /\ spans[q].text = <<f>>
    /\ owner[q] \in Home(f) /\ GoodValue(f, q + 1)
\* Inside the info dictionary the reader knows it; what it passed over and
\* should have taken it has taken; and at the end it has taken everything.
RegionKnown ==
    \A d \in InfoDicts : d <= i /\ i < d + lengths[d] => in_info /\ info_end = d - 1 + lengths[d]
WantedAreRead == \A f \in Fields : \A q \in 2 .. i - 1 : Wanted(f, q) => metainfo[f] = q + 1
IsReadRight ==
    IF stage = "rejected" THEN \E f \in Fields : ~\E p \in Values(f) : GoodValue(f, p)
                          ELSE \A f \in Fields : Values(f) = {metainfo[f]}
PlainInv ==
    stage \in ReadStages /\ Plain =>
        IF stage = "metainfo" THEN RegionKnown /\ WantedAreRead ELSE IsReadRight

\* What is wanted depends on the arrays only.
LEMMA SameArraysSamePlain ==
    ASSUME UNCHANGED <<kinds, lengths, spans, owner>>
    PROVE  /\ Plain' <=> Plain
           /\ InfoDicts' = InfoDicts
           /\ \A f : Values(f)' = Values(f) /\ Home(f)' = Home(f)
           /\ \A f, p : (GoodValue(f, p)' <=> GoodValue(f, p)) /\ (Wanted(f, p)' <=> Wanted(f, p))
  <1>1. InfoDicts' = InfoDicts
    BY DEF InfoDicts
  <1>2. \A p : IsName(p)' <=> IsName(p)
    BY DEF IsName
  <1>3. \A p, d : IsDirectKey(p, d)' <=> IsDirectKey(p, d)
    BY DEF IsDirectKey
  <1>4. IsDictionary' <=> IsDictionary
    BY DEF IsDictionary
  <1>5. ASSUME NEW p
        PROVE  IsDirectKey(p, owner[p])' <=> IsDirectKey(p, owner[p])
    BY DEF IsDirectKey
  <1>6. ASSUME NEW p
        PROVE  IsDirectKey(p - 1, 1)' <=> IsDirectKey(p - 1, 1)
    BY DEF IsDirectKey
  <1>7. Plain' <=> Plain
    BY <1>1, <1>2, <1>4, <1>5, <1>6 DEF Plain
  <1>8. \A f : Home(f)' = Home(f)
    BY <1>1 DEF Home
  <1>9. \A f : Values(f)' = Values(f)
    BY <1>2, <1>8 DEF Values
  <1>10. \A f, p : GoodValue(f, p)' <=> GoodValue(f, p)
    BY DEF GoodValue
  <1>11. ASSUME NEW f, NEW p
         PROVE  Wanted(f, p)' <=> Wanted(f, p)
    <2>1. GoodValue(f, p + 1)' <=> GoodValue(f, p + 1)
      BY <1>10
    <2> QED
      BY <1>8, <2>1 DEF Wanted
  <1> QED
    BY <1>1, <1>7, <1>8, <1>9, <1>10, <1>11

\* The parts of Plain.
LEMMA PlainFacts ==
    ASSUME Plain
    PROVE  /\ kinds # <<>> /\ kinds[1] = "dict"
           /\ \A d \in InfoDicts : /\ owner[d - 1] = 1 /\ IsDirectKey(d - 1, 1)
                                   /\ \A p \in DOMAIN owner : owner[p] = d => kinds[p] \notin Containers
           /\ \A p \in DOMAIN kinds : IsName(p) => IsDirectKey(p, owner[p])
           /\ \A p \in DOMAIN kinds : IsName(p) /\ spans[p].text = <<"announce">> => owner[p] = 1
           /\ \A p, q \in DOMAIN kinds : IsName(p) /\ IsName(q) /\ spans[p].text = spans[q].text => p = q
  BY DEF Plain, IsDictionary, IsDirectKey

\* A plain torrent has one info dictionary.
LEMMA OneInfoDictionary ==
    ASSUME Parsed, Plain
    PROVE  \E d : InfoDicts = {d}
  <1>1. IsFiniteSet(InfoDicts)
    <2>1. PICK n : n = Len(kinds)
      OBVIOUS
    <2>2. n \in Int /\ 2 \in Int
      BY <2>1, ParsedFacts
    <2>3. IsFiniteSet(2 .. n)
      BY <2>2, FS_Interval
    <2>4. InfoDicts \subseteq 2 .. n
      BY <2>1 DEF InfoDicts
    <2> QED
      BY <2>3, <2>4, FS_Subset
  <1> QED
    BY <1>1, FS_Singleton DEF Plain

\* A value of a field is behind a name, and no other has the name.
LEMMA ValuesHaveNames ==
    ASSUME Plain, NEW f \in Fields, NEW q \in DOMAIN kinds, kinds[q] = "str", spans[q].text = <<f>>
    PROVE  /\ IsName(q)
           /\ \A p \in Values(f) : p = q + 1
           /\ owner[q] \in Home(f) => q + 1 \in Values(f)
  <1>1. IsName(q)
    BY DEF IsName
  <1>2. \A r \in DOMAIN kinds : IsName(r) /\ spans[r].text = <<f>> => r = q
    BY <1>1, PlainFacts
  <1>3. \A p \in Values(f) : p = q + 1
    BY <1>2 DEF Values
  <1>4. owner[q] \in Home(f) => q + 1 \in Values(f)
    BY <1>1 DEF Values
  <1> QED
    BY <1>1, <1>3, <1>4

\* A name at home has a value, and within the info dictionary it is before its end.
LEMMA NamesAtHome ==
    ASSUME Parsed, Plain, NEW f \in Fields, NEW q \in DOMAIN kinds, IsName(q), owner[q] \in Home(f)
    PROVE  /\ q \in 2 .. Len(kinds) - 1
           /\ \A d \in InfoDicts : owner[q] = d => InDict(q, d)
  <1>0. PICK n : n = Len(kinds)
    OBVIOUS
  <1>1. /\ n \in Nat /\ q \in 1 .. n /\ DOMAIN kinds = 1 .. n /\ DOMAIN owner = 1 .. n
        /\ owner[q] \in Nat /\ owner[q] < q /\ (owner[q] = 0 <=> q = 1)
    BY <1>0, ParsedFacts
  <1>2. owner[q] = 1 \/ owner[q] \in InfoDicts
    BY DEF Home
  <1>3. kinds[owner[q]] = "dict" /\ owner[q] # 0
    BY <1>2, PlainFacts DEF InfoDicts
  <1>4. IsDirectKey(q, owner[q])
    BY PlainFacts
  <1>5. PICK r \in DOMAIN kinds : q < r /\ owner[r] = owner[q]
    BY <1>3, <1>4, KeysHaveValues
  <1>6. q \in 2 .. n - 1
    BY <1>1, <1>3, <1>5
  <1>7. ASSUME NEW d \in InfoDicts, owner[q] = d
        PROVE  InDict(q, d)
    <2>1. d \in DOMAIN kinds /\ kinds[d] \in Containers /\ d < q
      BY <1>0, <1>1, <1>7 DEF InfoDicts, Containers
    <2>2. \A p \in DOMAIN owner : owner[p] = d => kinds[p] \notin Containers
      BY PlainFacts
    <2>3. r \in d + 1 .. d + lengths[d]
      BY <1>5, <1>7, <2>1, <2>2, FlatChildren
    <2>4. lengths[d] \in Nat
      BY <2>1, ParsedFacts, LengthFits
    <2> QED
      BY <1>1, <1>5, <2>1, <2>3, <2>4 DEF InDict
  <1> QED
    BY <1>0, <1>6, <1>7

\* What was found for a field is its value.
LEMMA FoundIsValue ==
    ASSUME Parsed, Plain, NEW f \in Fields, NEW q, Found(f, q), i \in Nat, f # "info"
    PROVE  Values(f) = {q + 1}
  <1>1. /\ Len(kinds) \in Nat /\ DOMAIN kinds = 1 .. Len(kinds) /\ DOMAIN owner = 1 .. Len(kinds)
    BY ParsedFacts
  <1>2. q \in DOMAIN kinds /\ kinds[q] = "str" /\ spans[q].text = <<f>> /\ q \in Nat
    BY <1>1 DEF Found
  <1>3. IsName(q) /\ (\A p \in Values(f) : p = q + 1) /\ (owner[q] \in Home(f) => q + 1 \in Values(f))
    BY <1>2, ValuesHaveNames
  <1>4. owner[q] \in Home(f)
    <2>1. CASE f = "announce"
      BY <1>2, <1>3, <2>1, PlainFacts DEF Home
    <2>2. CASE f # "announce"
      <3>1. PICK d \in InfoDicts : InDict(q, d)
        BY <2>2 DEF Found
      <3>2. d \in DOMAIN kinds /\ d \in Nat /\ kinds[d] \in Containers
        BY <1>1 DEF InfoDicts, Containers
      <3>3. lengths[d] \in Nat
        BY <3>2, ParsedFacts, LengthFits
      <3>4. q \in d + 1 .. d + lengths[d]
        BY <1>2, <3>1, <3>2, <3>3 DEF InDict
      <3>5. owner[q] = d
        BY <3>2, <3>4, PlainFacts, FlatValues
      <3> QED
        BY <2>2, <3>5 DEF Home
    <2> QED
      BY <2>1, <2>2
  <1> QED
    BY <1>3, <1>4

\* The info dictionary is the value of its key.
LEMMA InfoIsWanted ==
    ASSUME Parsed, Plain, NEW d \in InfoDicts
    PROVE  /\ d - 1 \in 2 .. Len(kinds) - 1 /\ d \in Nat /\ Wanted("info", d - 1)
           /\ Values("info") = {d}
  <1>1. /\ Len(kinds) \in Nat /\ DOMAIN kinds = 1 .. Len(kinds)
        /\ d \in 2 .. Len(kinds) /\ kinds[d] = "dict" /\ kinds[d - 1] = "str" /\ spans[d - 1].text = <<"info">>
        /\ owner[d - 1] = 1 /\ "info" \in Fields
    BY ParsedFacts, PlainFacts DEF InfoDicts, Fields
  <1>2. PICK q : q = d - 1
    OBVIOUS
  <1>3. q \in DOMAIN kinds /\ q + 1 = d /\ owner[q] = 1 /\ kinds[q] = "str" /\ spans[q].text = <<"info">>
    BY <1>1, <1>2
  <1>4. owner[q] \in Home("info")
    BY <1>3 DEF Home
  <1>5. IsName(q) /\ (\A p \in Values("info") : p = q + 1) /\ q + 1 \in Values("info")
    BY <1>1, <1>3, <1>4, ValuesHaveNames
  <1>6. q \in 2 .. Len(kinds) - 1
    BY <1>1, <1>3, <1>4, <1>5, NamesAtHome
  <1>7. GoodValue("info", q + 1)
    BY <1>1, <1>3 DEF GoodValue
  <1> QED
    BY <1>1, <1>2, <1>3, <1>4, <1>5, <1>6, <1>7 DEF Wanted

-----------------------------------------------------------------------------
\* No step passes over a key whose value is wanted, and one that rejects the file
\* has met a value that is wrong.
LEMMA ReadingKeepsPlain ==
    ASSUME FoundInv, PlainInv, bc_parser_init_metainfo_step
    PROVE  PlainInv'
  <1>1. /\ i' = i + 1 /\ i < Len(kinds) /\ UNCHANGED bcVars /\ stage = "metainfo"
        /\ ReadsInfo \/ (\E f \in Fields \ {"info"} : Reads(f)) \/ Skips
    BY ReaderSteps
  <1>2. UNCHANGED <<kinds, lengths, spans, owner, err>>
    BY <1>1 DEF bcVars
  <1>3. SUFFICES ASSUME Plain
                 PROVE  IF stage' = "metainfo" THEN RegionKnown' /\ WantedAreRead' ELSE IsReadRight'
    BY <1>2, SameArraysSamePlain DEF PlainInv
  <1>4. /\ i \in Nat \ {0, 1} /\ metainfo \in [Fields -> Nat] /\ Parsed
        /\ Len(kinds) \in Nat /\ DOMAIN kinds = 1 .. Len(kinds) /\ i \in DOMAIN kinds
    <2>1. i \in Nat \ {0, 1} /\ metainfo \in [Fields -> Nat] /\ Parsed
      BY <1>1 DEF FoundInv, InfoIsKnown, ReadStages, Parsed
    <2> QED
      BY <1>1, <2>1, ParsedFacts
  <1>5. RegionKnown /\ WantedAreRead
    BY <1>1, <1>3 DEF PlainInv, ReadStages
  <1>6. /\ InfoDicts' = InfoDicts
        /\ \A f : Values(f)' = Values(f)
        /\ \A f, p : (GoodValue(f, p)' <=> GoodValue(f, p)) /\ (Wanted(f, p)' <=> Wanted(f, p))
    BY <1>2, SameArraysSamePlain
  <1>7. PICK d : InfoDicts = {d}
    BY <1>3, <1>4, OneInfoDictionary
  <1>8. /\ d \in 2 .. Len(kinds) /\ d \in Nat /\ kinds[d] = "dict" /\ lengths[d] \in Nat
        /\ kinds[d - 1] = "str" /\ spans[d - 1].text = <<"info">>
    <2>1. d \in 2 .. Len(kinds) /\ kinds[d] = "dict" /\ kinds[d - 1] = "str" /\ spans[d - 1].text = <<"info">>
      BY <1>7 DEF InfoDicts
    <2>2. d \in DOMAIN kinds
      BY <1>4, <2>1
    <2> QED
      BY <1>4, <2>1, <2>2, ParsedFacts, LengthFits DEF Containers
  <1>9. i + 1 = d => ReadsInfo
    <2>1. SUFFICES ASSUME i + 1 = d
                   PROVE  ReadsInfo
      OBVIOUS
    <2>2. i = d - 1
      BY <1>4, <1>8, <2>1
    <2>3. IsKey("info") /\ ValueIs("dict")
      BY <1>8, <2>1, <2>2 DEF IsKey, ValueIs
    <2>4. ~Skips
      BY <2>3 DEF Skips, Matches
    <2>5. \A f \in Fields \ {"info"} : ~Reads(f)
      BY <2>3 DEF Reads, IsKey
    <2> QED
      BY <1>1, <2>4, <2>5
  <1>10. d <= i /\ i < d + lengths[d] => InInfo /\ info_end = d - 1 + lengths[d]
    <2>1. SUFFICES ASSUME d <= i, i < d + lengths[d]
                   PROVE  InInfo /\ info_end = d - 1 + lengths[d]
      OBVIOUS
    <2>2. in_info /\ info_end = d - 1 + lengths[d]
      BY <1>5, <1>7, <2>1 DEF RegionKnown
    <2> QED
      BY <1>4, <1>8, <2>1, <2>2 DEF InInfo
  <1>11. ReadsInfo => d = i + 1
    <2>1. SUFFICES ASSUME ReadsInfo
                   PROVE  i + 1 \in InfoDicts
      BY <1>7
    <2>2. i + 1 \in 2 .. Len(kinds) /\ (i + 1) - 1 = i
      BY <1>1, <1>4
    <2> QED
      BY <2>1, <2>2 DEF ReadsInfo, IsKey, ValueIs, InfoDicts
  <1>12. RegionKnown'
    <2> SUFFICES ASSUME d <= i', i' < d + lengths[d]
                 PROVE  in_info' /\ info_end' = d - 1 + lengths[d]
      BY <1>2, <1>6, <1>7 DEF RegionKnown
    <2>1. CASE i + 1 = d
      <3>1. in_info' = TRUE /\ info_end' = i + lengths[i + 1]
        BY <1>9, <2>1 DEF ReadsInfo
      <3> QED
        BY <1>4, <1>8, <2>1, <3>1
    <2>2. CASE i + 1 # d
      <3>1. d <= i /\ i < d + lengths[d]
        BY <1>1, <1>4, <1>8, <2>2
      <3>2. in_info' = InInfo /\ info_end' = info_end
        BY <1>1, <1>11, <2>2 DEF Reads, Skips
      <3> QED
        BY <1>10, <3>1, <3>2
    <2> QED
      BY <2>1, <2>2
  <1>13. ASSUME stage' = "metainfo", NEW f \in Fields, Wanted(f, i)
         PROVE  metainfo'[f] = i + 1
    <2>1. kinds[i] = "str" /\ spans[i].text = <<f>> /\ owner[i] \in Home(f) /\ GoodValue(f, i + 1)
      BY <1>13 DEF Wanted
    <2>2. IsKey(f) /\ IsName(i)
      BY <2>1 DEF IsKey, IsName
    <2>3. \A g : IsKey(g) => g = f
      BY <2>1 DEF IsKey
    <2>4. ~Skips
      <3>1. f \notin {"announce", "info"} => InInfo
        <4>1. SUFFICES ASSUME f \notin {"announce", "info"}
                       PROVE  InInfo
          OBVIOUS
        <4>2. owner[i] = d
          BY <1>7, <2>1, <4>1 DEF Home
        <4>3. InDict(i, d)
          BY <1>3, <1>4, <1>7, <2>1, <2>2, <4>2, NamesAtHome
        <4> QED
          BY <1>4, <1>8, <1>10, <4>3 DEF InDict
      <3>2. Matches
        BY <1>13, <2>1, <2>2, <3>1 DEF Matches, ValueIs, GoodValue, Fields
      <3> QED
        BY <3>2 DEF Skips
    <2>5. CASE ReadsInfo
      <3>1. f = "info" /\ metainfo' = [metainfo EXCEPT !["info"] = i + 1]
        BY <2>3, <2>5 DEF ReadsInfo
      <3> QED
        BY <1>4, <3>1
    <2>6. CASE \E g \in Fields \ {"info"} : Reads(g)
      <3>1. Reads(f)
        BY <2>3, <2>6 DEF Reads
      <3>2. metainfo' = [metainfo EXCEPT ![f] = i + 1]
        BY <1>13, <2>1, <3>1 DEF Reads
      <3> QED
        BY <1>4, <1>13, <3>2
    <2> QED
      BY <1>1, <2>4, <2>5, <2>6
  <1>14. ASSUME NEW f \in Fields, NEW q \in 2 .. i - 1, Wanted(f, q)
         PROVE  metainfo'[f] = q + 1
    <2>1. metainfo[f] = q + 1
      BY <1>5, <1>14 DEF WantedAreRead
    <2>2. kinds[q] = "str" /\ spans[q].text = <<f>> /\ q \in DOMAIN kinds /\ q # i
      BY <1>4, <1>14 DEF Wanted
    <2>3. ~IsKey(f)
      <3>1. SUFFICES ASSUME IsKey(f)
                     PROVE  FALSE
        OBVIOUS
      <3>2. kinds[i] = "str" /\ spans[i].text = <<f>>
        BY <3>1 DEF IsKey
      <3>3. IsName(i) /\ IsName(q)
        BY <1>3, <1>4, <1>14, <2>2, <3>2, ValuesHaveNames
      <3> QED
        BY <1>3, <1>4, <2>2, <3>2, <3>3, PlainFacts
    <2>4. metainfo'[f] = metainfo[f]
      BY <1>1, <1>4, <2>3 DEF ReadsInfo, Reads, Skips
    <2> QED
      BY <2>1, <2>4
  <1>15. CASE stage' = "metainfo"
    <2>1. \A q \in 2 .. i' - 1 : q = i \/ q \in 2 .. i - 1
      BY <1>1, <1>4
    <2>2. \A f \in Fields : \A q \in 2 .. i' - 1 : Wanted(f, q) => metainfo'[f] = q + 1
      BY <1>13, <1>14, <1>15, <2>1
    <2>3. WantedAreRead'
      BY <1>6, <2>2 DEF WantedAreRead
    <2> QED
      BY <1>12, <1>15, <2>3
  <1>16. CASE stage' # "metainfo"
    <2>1. PICK f \in Fields : Reads(f) /\ ~GoodValue(f, i + 1) /\ stage' = "rejected"
      BY <1>1, <1>16 DEF ReadsInfo, Reads, Skips
    <2>2. kinds[i] = "str" /\ spans[i].text = <<f>>
      BY <2>1 DEF Reads, IsKey
    <2>3. \A p \in Values(f) : p = i + 1
      BY <1>3, <1>4, <2>2, ValuesHaveNames
    <2>4. ~\E p \in Values(f)' : GoodValue(f, p)'
      BY <1>6, <2>1, <2>3
    <2> QED
      BY <1>16, <2>1, <2>4 DEF IsReadRight
  <1> QED
    BY <1>15, <1>16

\* After the last key, every value that is wanted was read, and none is missing
\* unless the file is rejected.
LEMMA ReadingEndsRight ==
    ASSUME FoundInv, PlainInv, bc_parser_init_metainfo_end
    PROVE  PlainInv'
  <1>1. /\ UNCHANGED bcVars /\ UNCHANGED readerVars /\ stage = "metainfo"
        /\ ~IsDictionary \/ i >= Len(kinds)
        /\ stage' = "rejected" => \E f \in Fields \ {"info"} : metainfo[f] = 0
        /\ stage' \in {"done", "fetch"} => \A f \in Fields \ {"info"} : metainfo[f] # 0
        /\ stage' \in {"rejected", "done", "fetch", "fatal"}
    BY DEF bc_parser_init_metainfo_end
  <1>2. UNCHANGED <<kinds, lengths, spans, owner, err, metainfo, i>>
    BY <1>1 DEF bcVars, readerVars
  <1>3. SUFFICES ASSUME Plain, stage' # "fatal"
                 PROVE  IsReadRight'
    BY <1>1, <1>2, SameArraysSamePlain DEF PlainInv, ReadStages
  <1>4. /\ i \in Nat \ {0, 1} /\ metainfo \in [Fields -> Nat] /\ Parsed
        /\ Len(kinds) \in Nat /\ DOMAIN kinds = 1 .. Len(kinds)
        /\ \A f \in Fields : metainfo[f] # 0 => Found(f, metainfo[f] - 1)
    <2>1. /\ i \in Nat \ {0, 1} /\ metainfo \in [Fields -> Nat] /\ Parsed
          /\ \A f \in Fields : metainfo[f] # 0 => Found(f, metainfo[f] - 1)
      BY <1>1 DEF FoundInv, InfoIsKnown, FieldsAreFound, ReadStages, Parsed
    <2> QED
      BY <2>1, ParsedFacts
  <1>5. WantedAreRead
    BY <1>1, <1>3 DEF PlainInv, ReadStages
  <1>6. /\ \A f : Values(f)' = Values(f)
        /\ \A f, p : GoodValue(f, p)' <=> GoodValue(f, p)
    BY <1>2, SameArraysSamePlain
  <1>7. i >= Len(kinds)
    BY <1>1, <1>3 DEF Plain
  <1>8. CASE stage' = "rejected"
    <2>1. PICK f \in Fields : metainfo[f] = 0
      BY <1>1, <1>8
    <2>2. ASSUME NEW p \in Values(f), GoodValue(f, p)
          PROVE  FALSE
      <3>1. PICK q \in DOMAIN kinds : p = q + 1 /\ IsName(q) /\ owner[q] \in Home(f) /\ spans[q].text = <<f>>
        BY DEF Values
      <3>2. q \in 2 .. Len(kinds) - 1
        BY <1>3, <1>4, <3>1, NamesAtHome
      <3>3. Wanted(f, q)
        BY <1>4, <2>2, <3>1, <3>2 DEF Wanted, IsName
      <3>4. q \in 2 .. i - 1
        BY <1>4, <1>7, <3>2
      <3>5. metainfo[f] = q + 1
        BY <1>5, <3>3, <3>4 DEF WantedAreRead
      <3> QED
        BY <2>1, <3>2, <3>5
    <2> QED
      BY <1>6, <1>8, <2>2 DEF IsReadRight
  <1>9. CASE stage' # "rejected"
    <2>1. ASSUME NEW f \in Fields \ {"info"}
          PROVE  Values(f) = {metainfo[f]}
      <3>1. metainfo[f] # 0 /\ metainfo[f] \in Nat
        BY <1>1, <1>3, <1>4, <1>9
      <3>2. PICK q : q = metainfo[f] - 1
        OBVIOUS
      <3>3. Found(f, q)
        BY <1>4, <3>1, <3>2
      <3>4. Values(f) = {q + 1}
        BY <1>3, <1>4, <3>3, FoundIsValue
      <3>5. q + 1 = metainfo[f]
        BY <3>1, <3>2
      <3> QED
        BY <3>4, <3>5
    <2>2. Values("info") = {metainfo["info"]}
      <3>1. PICK d : InfoDicts = {d}
        BY <1>3, <1>4, OneInfoDictionary
      <3>2. PICK q : q = d - 1
        OBVIOUS
      <3>3. q \in 2 .. Len(kinds) - 1 /\ d \in Nat /\ Wanted("info", q) /\ Values("info") = {d}
        BY <1>3, <1>4, <3>1, <3>2, InfoIsWanted
      <3>4. q \in 2 .. i - 1
        BY <1>4, <1>7, <3>3
      <3>5. metainfo["info"] = q + 1
        BY <1>5, <3>3, <3>4 DEF WantedAreRead, Fields
      <3> QED
        BY <3>2, <3>3, <3>5
    <2> QED
      BY <1>2, <1>6, <1>9, <2>1, <2>2 DEF IsReadRight
  <1> QED
    BY <1>8, <1>9

\* What does not read leaves what was read alone.
LEMMA PlainStays ==
    ASSUME PlainInv, UNCHANGED bcVars, UNCHANGED readerVars,
           stage' = stage \/ stage' \notin ReadStages
    PROVE  PlainInv'
  <1>1. UNCHANGED <<kinds, lengths, spans, owner, err, i, in_info, info_end, metainfo>>
    BY DEF bcVars, readerVars
  <1>2. SUFFICES ASSUME Plain, stage' \in ReadStages
                 PROVE  IF stage' = "metainfo" THEN RegionKnown' /\ WantedAreRead' ELSE IsReadRight'
    BY <1>1, SameArraysSamePlain DEF PlainInv
  <1>3. stage' = stage
    BY <1>2
  <1>4. /\ InfoDicts' = InfoDicts
        /\ \A f : Values(f)' = Values(f)
        /\ \A f, p : (GoodValue(f, p)' <=> GoodValue(f, p)) /\ (Wanted(f, p)' <=> Wanted(f, p))
    BY <1>1, SameArraysSamePlain
  <1>5. RegionKnown' <=> RegionKnown
    BY <1>1, <1>4 DEF RegionKnown
  <1>6. WantedAreRead' <=> WantedAreRead
    BY <1>1, <1>4 DEF WantedAreRead
  <1>7. IsReadRight' <=> IsReadRight
    BY <1>1, <1>3, <1>4 DEF IsReadRight
  <1> QED
    BY <1>2, <1>3, <1>5, <1>6, <1>7 DEF PlainInv

\* Reading begins with nothing passed over.
LEMMA ParsingStartsReading ==
    ASSUME FoundInv, NEW t, Parse(t)
    PROVE  PlainInv'
  <1>1. SUFFICES ASSUME stage' \in ReadStages, Plain'
                 PROVE  IF stage' = "metainfo" THEN RegionKnown' /\ WantedAreRead' ELSE IsReadRight'
    BY DEF PlainInv
  <1>2. stage' = "metainfo" /\ stage = "parse" /\ err' = "none" /\ UNCHANGED <<i, in_info, info_end, metainfo>>
    BY <1>1 DEF Parse, ReadStages, readerVars
  <1>3. i' = 2
    BY <1>2 DEF FoundInv, StartsReading
  <1>4. kinds'[1] = "dict" /\ \A d \in InfoDicts' : d \in 2 .. Len(kinds') /\ kinds'[d - 1] = "str"
    BY <1>1 DEF Plain, IsDictionary, InfoDicts
  <1>5. RegionKnown'
    <2>1. ASSUME NEW d \in InfoDicts', d <= 2
          PROVE  FALSE
      <3>1. d = 2
        BY <1>4, <2>1
      <3> QED
        BY <1>4, <3>1
    <2> QED
      BY <1>3, <2>1 DEF RegionKnown
  <1>6. WantedAreRead'
    BY <1>3 DEF WantedAreRead
  <1> QED
    BY <1>2, <1>5, <1>6

-----------------------------------------------------------------------------
ReaderInv == FoundInv /\ PlainInv

\* At the start nothing is read.
LEMMA InitReads == Init => ReaderInv
  <1> SUFFICES ASSUME Init PROVE ReaderInv
    OBVIOUS
  <1>1. /\ TreeInv /\ stage = "parse" /\ i = 2 /\ in_info = FALSE /\ metainfo = NoMetainfo
    BY NothingReadIsATree DEF Init, StartInit
  <1>2. NoMetainfo \in [Fields -> Nat]
    BY DEF NoMetainfo
  <1>3. stage \notin ReadStages
    BY <1>1 DEF ReadStages
  <1>4. StartsReading /\ InfoIsKnown
    <2>1. i \in Nat \ {0, 1} /\ metainfo \in [Fields -> Nat]
      BY <1>1, <1>2
    <2>2. in_info \in BOOLEAN
      BY <1>1
    <2>3. StartsReading
      BY <1>1 DEF StartsReading
    <2> QED
      BY <1>3, <2>1, <2>2, <2>3 DEF InfoIsKnown
  <1>5. FieldsAreFound /\ PlainInv
    BY <1>3 DEF FieldsAreFound, PlainInv
  <1> QED
    BY <1>1, <1>4, <1>5 DEF ReaderInv, FoundInv

\* Every step keeps the invariant of the reader.
LEMMA StepReads == ReaderInv /\ [Next]_vars => ReaderInv'
  <1> SUFFICES ASSUME ReaderInv, [Next]_vars
               PROVE  ReaderInv'
    OBVIOUS
  <1>0. FoundInv /\ PlainInv
    BY DEF ReaderInv
  <1>1. CASE Parsing \/ ParsingEnd \/ DumpedEnd
    <2>1. PICK t : Parse(t)
      BY <1>1 DEF Parsing, ParsingEnd, DumpedEnd
    <2> QED
      BY <1>0, <2>1, ParsingFindsNothing, ParsingStartsReading DEF ReaderInv
  <1>2. CASE bc_parser_init_metainfo_step
    BY <1>0, <1>2, ReadingFindsFields, ReadingKeepsPlain DEF ReaderInv
  <1>3. CASE bc_parser_init_metainfo_end
    <2>1. UNCHANGED bcVars /\ UNCHANGED readerVars /\ stage = "metainfo" /\ stage' # "parse"
      BY <1>3 DEF bc_parser_init_metainfo_end
    <2>2. FoundInv'
      BY <1>0, <2>1, FoundStays DEF ReadStages
    <2> QED
      BY <1>0, <1>3, <2>2, ReadingEndsRight DEF ReaderInv
  <1>4. CASE CurlSucceeds
    <2>1. BencodeReset' /\ UNCHANGED readerVars /\ stage' = "parse response"
      BY <1>4 DEF CurlSucceeds, BencodeReset, Goes
    <2>2. BencodeReset' => TreeInv'
      BY NothingReadIsATree, PTL
    <2>3. UNCHANGED <<i, in_info, info_end, metainfo>>
      BY <2>1 DEF readerVars
    <2>4. InfoIsKnown'
      BY <1>0, <2>1, <2>3 DEF FoundInv, InfoIsKnown, ReadStages
    <2> QED
      BY <2>1, <2>2, <2>4 DEF ReaderInv, FoundInv, PlainInv, StartsReading, FieldsAreFound, ReadStages
  <1>5. CASE ReadFails \/ tracker_parse_peer_addresses \/ open \/ ftruncate \/ peer_connect \/ Curl
    <2>1. UNCHANGED bcVars /\ UNCHANGED readerVars /\ (stage' = stage \/ stage' \notin ReadStages) /\ stage' # "parse"
      BY <1>5 DEF ReadFails, tracker_parse_peer_addresses, open, ftruncate, peer_connect,
                  Curl, tracker_on_response_chunk, CurlFails, Goes, ReadStages
    <2> QED
      BY <1>0, <2>1, FoundStays, PlainStays DEF ReaderInv
  <1>6. CASE Walking \/ UNCHANGED vars
    <2>1. UNCHANGED bcVars /\ UNCHANGED readerVars /\ stage' = stage
      BY <1>6 DEF Walking, vars, startVars, readerVars
    <2> QED
      BY <1>0, <2>1, FoundStays, PlainStays DEF ReaderInv
  <1> QED
    BY <1>1, <1>2, <1>3, <1>4, <1>5, <1>6 DEF Next, Starting, Main

\* What was found lies in the info dictionary, and is what a plain torrent has.
LEMMA FieldsAreInTheInfoDictionary == ReaderInv => MetainfoIsRead
  <1> SUFFICES ASSUME ReaderInv PROVE MetainfoIsRead
    OBVIOUS
  <1>1. FoundInv /\ PlainInv
    BY DEF ReaderInv
  <1>2. FieldsComeFromInfo
    <2> SUFFICES ASSUME stage \in ReadStages, NEW f \in Fields \ {"announce", "info"}, metainfo[f] # 0
                 PROVE  \E d \in InfoDicts : d < metainfo[f] /\ metainfo[f] < After(d)
      BY DEF FieldsComeFromInfo, ReadStages
    <2>1. Parsed /\ metainfo[f] \in Nat
      BY <1>1 DEF FoundInv, InfoIsKnown, Parsed
    <2>2. PICK q : q = metainfo[f] - 1
      OBVIOUS
    <2>3. Found(f, q)
      BY <1>1, <2>2 DEF FoundInv, FieldsAreFound
    <2>4. PICK d \in InfoDicts : InDict(q, d)
      BY <2>3 DEF Found
    <2>5. /\ d \in DOMAIN kinds /\ d \in Nat /\ kinds[d] \in Containers
      BY <2>1, ParsedFacts DEF InfoDicts, Containers
    <2>6. PICK s : Ends(d, s)
      BY <2>1, <2>5, ParsedFacts DEF AllEnd
    <2>7. After(d) = s
      BY <2>1, <2>5, <2>6, ParsedFacts, AfterIs
    <2>8. lengths[d] \in Nat /\ lengths[d] <= s - 1 - d /\ s \in d + 1 .. Len(kinds) + 1
      BY <2>1, <2>5, <2>6, ChildrenAreInside
    <2>9. Len(kinds) \in Nat
      BY <2>1, ParsedFacts
    <2>10. d < q /\ q < d + lengths[d]
      BY <2>4 DEF InDict
    <2>11. d < metainfo[f] /\ metainfo[f] < s
      <3> DEFINE x == metainfo[f]
                 l == lengths[d]
      <3>1. /\ x \in Nat /\ q = x - 1 /\ d \in Nat /\ l \in Nat /\ s \in Int
            /\ l <= s - 1 - d /\ d < q /\ q < d + l
        BY <2>1, <2>2, <2>5, <2>8, <2>9, <2>10
      <3> HIDE DEF x, l
      <3>2. d < x /\ x < s
        BY <3>1
      <3> QED
        BY <3>2 DEF x
    <2> QED
      BY <2>7, <2>11
  <1>3. ReadsTheInfoDictionary
    BY <1>1 DEF PlainInv, ReadsTheInfoDictionary, ReadStages, IsReadRight
  <1> QED
    BY <1>2, <1>3 DEF MetainfoIsRead

\* bc_parser_init_metainfo takes the fields of the info dictionary from inside it,
\* for every file that is accepted; and it reads a plain torrent as it is written,
\* in whatever order its keys come and whatever is between them, and rejects it
\* only for a field that is missing or wrong.
THEOREM FieldsAreRead == Spec => []MetainfoIsRead
  BY InitReads, StepReads, FieldsAreInTheInfoDictionary, PTL DEF Spec

-----------------------------------------------------------------------------
(* The addresses of peers. *)
NoneTaken == [v4 |-> <<>>, v6 |-> <<>>, next |-> "more"]
Takes(g, count) == g = [n \in 0 .. count |-> IF n = 0 THEN NoneTaken ELSE TakePair(g[n - 1], n)]

\* The pairs of a response can be taken one after the other.
LEMMA TakingExists ==
    ASSUME NEW count \in Nat
    PROVE  \E g : Takes(g, count)
  <1> DEFINE S == {k \in Nat : \E g : Takes(g, k)}
  <1>1. 0 \in S
    <2> DEFINE g == [k \in 0 .. 0 |-> NoneTaken]
    <2>1. g = [k \in 0 .. 0 |-> IF k = 0 THEN NoneTaken ELSE TakePair(g[k - 1], k)]
      <3>1. \A k \in 0 .. 0 : k = 0
        OBVIOUS
      <3> QED
        BY <3>1, Zenon
    <2>2. Takes(g, 0)
      BY <2>1, Zenon DEF Takes
    <2> QED
      BY <2>2
  <1>2. ASSUME NEW k \in S
        PROVE  k + 1 \in S
    <2>1. k \in Nat
      OBVIOUS
    <2>2. PICK g : Takes(g, k)
      OBVIOUS
    <2> HIDE DEF S
    <2> DEFINE next == TakePair(g[k], k + 1)
               h == [n \in 0 .. k + 1 |-> IF n = k + 1 THEN next ELSE g[n]]
    <2>3. ASSUME NEW n \in 0 .. k + 1
          PROVE  h[n] = IF n = 0 THEN NoneTaken ELSE TakePair(h[n - 1], n)
      <3>1. CASE n = 0
        <4>1. 0 \in 0 .. k + 1 /\ 0 # k + 1 /\ 0 \in 0 .. k
          BY <2>1
        <4>2. h[0] = g[0]
          BY <4>1
        <4>3. g[0] = NoneTaken
          <5> HIDE DEF h, next
          <5> QED
            BY <2>2, <4>1, Zenon DEF Takes
        <4> QED
          BY <3>1, <4>2, <4>3, Zenon
      <3>2. CASE n = k + 1
        <4>1. n # 0 /\ n - 1 = k /\ k \in 0 .. k + 1 /\ k # k + 1
          BY <2>1, <3>2
        <4>2. h[k] = g[k]
          BY <4>1
        <4>3. h[n] = next
          BY <3>2
        <4> QED
          BY <3>2, <4>1, <4>2, <4>3, Zenon
      <3>3. CASE n # 0 /\ n # k + 1
        <4>1. n \in 0 .. k /\ n - 1 \in 0 .. k + 1 /\ n - 1 # k + 1
          BY <2>1, <3>3
        <4>2. h[n] = g[n] /\ h[n - 1] = g[n - 1]
          BY <3>3, <4>1, Zenon
        <4>3. g[n] = TakePair(g[n - 1], n)
          <5> HIDE DEF h, next
          <5> QED
            BY <2>2, <3>3, <4>1, Zenon DEF Takes
        <4> QED
          BY <3>3, <4>2, <4>3, Zenon
      <3> QED
        BY <3>1, <3>2, <3>3
    <2>4. h = [n \in 0 .. k + 1 |-> h[n]]
      BY Zenon
    <2> HIDE DEF h
    <2>5. h = [n \in 0 .. k + 1 |-> IF n = 0 THEN NoneTaken ELSE TakePair(h[n - 1], n)]
      BY <2>3, <2>4, Zenon
    <2>6. Takes(h, k + 1)
      BY <2>5, Zenon DEF Takes
    <2> QED
      BY <2>1, <2>6 DEF S
  <1>3. S = Nat
    <2>1. S \in SUBSET Nat
      OBVIOUS
    <2> HIDE DEF S
    <2> QED
      BY <1>1, <1>2, <2>1, SetInduction
  <1> QED
    BY <1>3

\* The first addresses of a string, as many as there is room for.
LEMMA AddressesFacts ==
    ASSUME NEW len \in Nat, NEW room \in Nat
    PROVE  LET A == Addresses(len, room)
           IN  /\ A \in Seq(Nat) /\ Len(A) <= room /\ DOMAIN A = 1 .. Len(A)
               /\ \A k \in DOMAIN A : A[k] % 6 = 0 /\ A[k] + 6 <= len
               /\ IsInjective(A)
  <1> DEFINE A == Addresses(len, room)
             c == len \div 6
             low == Min({c, room})
  <1>1. c \in Nat /\ 6 * c <= len
    OBVIOUS
  <1>2. low \in Nat /\ low <= c /\ low <= room
    <2>1. \E x \in {c, room} : \A y \in {c, room} : x =< y
      <3> HIDE DEF c
      <3>1. c <= room \/ room <= c
        BY <1>1
      <3> QED
        BY <1>1, <3>1
    <2> HIDE DEF c
    <2>2. low \in {c, room} /\ \A y \in {c, room} : low =< y
      BY <2>1 DEF Min
    <2> HIDE DEF low
    <2> QED
      BY <1>1, <2>2
  <1>3. A = [k \in 1 .. low |-> 6 * (k - 1)]
    BY DEF Addresses
  <1> HIDE DEF A, c, low
  <1>4. A \in [1 .. low -> Nat]
    <2>1. \A k \in 1 .. low : 6 * (k - 1) \in Nat
      BY <1>2
    <2> QED
      BY <1>3, <2>1
  <1>5. A \in Seq(Nat) /\ Len(A) = low /\ DOMAIN A = 1 .. low
    BY <1>2, <1>4, IsASeq
  <1>6. ASSUME NEW k \in 1 .. low
        PROVE  A[k] = 6 * (k - 1) /\ A[k] % 6 = 0 /\ A[k] + 6 <= len
    <2>1. A[k] = 6 * (k - 1) /\ k \in Nat \ {0} /\ k <= c
      BY <1>1, <1>2, <1>3
    <2>2. (6 * (k - 1)) % 6 = 0
      BY <2>1
    <2>3. 6 * (k - 1) + 6 <= 6 * c
      BY <1>1, <2>1
    <2> QED
      BY <1>1, <2>1, <2>2, <2>3
  <1>7. IsInjective(A)
    <2>1. \A a, b \in 1 .. low : 6 * (a - 1) = 6 * (b - 1) => a = b
      BY <1>2
    <2> QED
      BY <1>5, <1>6, <2>1 DEF IsInjective
  <1> QED
    BY <1>2, <1>5, <1>6, <1>7 DEF A

-----------------------------------------------------------------------------
\* A response, as it is assumed to be.
ResponseInv ==
    /\ response \in Seq(Tokens)
    /\ \A t \in DOMAIN response : response[t].token = "str" => StringLength(response[t].text[1]) \in Nat

\* Which token each value comes from.
Sources(pos) ==
    /\ \A p \in DOMAIN kinds : pos[p] \in 1 .. read
    /\ \A p, q \in DOMAIN kinds : p < q => pos[p] < pos[q]
    /\ \A p \in DOMAIN kinds : kinds[p] = "str" =>
          /\ pos[p] \in DOMAIN response
          /\ spans[p] = response[pos[p]] /\ spans[p].token = "str"

\* An address of six bytes within a string of the response.
Listed(address) ==
    \E t \in DOMAIN response :
        /\ response[t].token = "str"
        /\ address % 6 = 0 /\ address + 6 <= StringLength(response[t].text[1])
TakenWell(v) ==
    /\ v \in Seq(Nat) /\ Len(v) <= TRACKER_MAX_PEERS
    /\ \A k \in DOMAIN v : Listed(v[k])

\* The pairs that are looked at are there, and of strings that were sent.
LEMMA PairFacts ==
    ASSUME Parsed, ResponseInv, NEW pos, Sources(pos), IsDictionary,
           NEW n \in 1 .. lengths[1] \div 2
    PROVE  /\ 2 * n \in DOMAIN kinds /\ 2 * n + 1 \in DOMAIN kinds /\ n \in Nat
           /\ \A key : PairIs(n, key) =>
                 /\ pos[2 * n] \in DOMAIN response
                 /\ response[pos[2 * n]] = Str(key)
                 /\ \E t \in DOMAIN response :
                       /\ response[t].token = "str" /\ response[t].text[1] = spans[2 * n + 1].text[1]
                       /\ StringLength(response[t].text[1]) \in Nat
  <1>0. PICK w, L : w = Len(kinds) /\ L = lengths[1]
    OBVIOUS
  <1>1. w \in Nat \ {0} /\ DOMAIN kinds = 1 .. w
    BY <1>0, ParsedFacts DEF IsDictionary
  <1>2. L \in Nat /\ 1 + L <= w
    BY <1>0, <1>1, ParsedFacts, LengthFits DEF IsDictionary, Containers
  <1>3. n \in Nat \ {0} /\ 2 * n <= L
    BY <1>0, <1>2
  <1>4. 2 * n \in DOMAIN kinds /\ 2 * n + 1 \in DOMAIN kinds
    BY <1>1, <1>2, <1>3
  <1>5. ASSUME NEW key, PairIs(n, key)
        PROVE  /\ pos[2 * n] \in DOMAIN response
               /\ response[pos[2 * n]] = Str(key)
               /\ \E t \in DOMAIN response :
                     /\ response[t].token = "str" /\ response[t].text[1] = spans[2 * n + 1].text[1]
                     /\ StringLength(response[t].text[1]) \in Nat
    <2>1. kinds[2 * n] = "str" /\ spans[2 * n].text = <<key>> /\ kinds[2 * n + 1] = "str"
      BY <1>5 DEF PairIs
    <2>2. PICK p, q : p = 2 * n /\ q = 2 * n + 1
      OBVIOUS
    <2>3. /\ pos[p] \in DOMAIN response /\ response[pos[p]] = spans[p] /\ spans[p].token = "str" /\ spans[p].text = <<key>>
          /\ pos[q] \in DOMAIN response /\ response[pos[q]] = spans[q] /\ spans[q].token = "str"
      BY <1>4, <2>1, <2>2 DEF Sources
    <2>4. response[pos[p]] \in Tokens
      BY <2>3 DEF ResponseInv
    <2>5. spans[p] = [token |-> spans[p].token, text |-> spans[p].text]
      BY <2>3, <2>4 DEF Tokens
    <2>6. response[pos[p]] = Str(key)
      BY <2>3, <2>5 DEF Str
    <2>7. StringLength(response[pos[q]].text[1]) \in Nat
      BY <2>3 DEF ResponseInv
    <2> QED
      BY <2>2, <2>3, <2>6, <2>7
  <1> QED
    BY <1>3, <1>4, <1>5

\* The addresses that a string adds are its own, and there is room for them.
LEMMA AppendsWell ==
    ASSUME ResponseInv, NEW v, TakenWell(v), NEW t \in DOMAIN response,
           response[t].token = "str", StringLength(response[t].text[1]) \in Nat
    PROVE  TakenWell(v \o Addresses(StringLength(response[t].text[1]), TRACKER_MAX_PEERS - Len(v)))
  <1>0. PICK len : len = StringLength(response[t].text[1])
    OBVIOUS
  <1>1. v \in Seq(Nat) /\ Len(v) \in Nat /\ Len(v) <= TRACKER_MAX_PEERS /\ TRACKER_MAX_PEERS \in Nat
    BY TRACKER_MAX_PEERS_Assumption DEF TakenWell
  <1>2. PICK A, room : A = Addresses(len, room) /\ room = TRACKER_MAX_PEERS - Len(v)
    OBVIOUS
  <1>3. /\ A \in Seq(Nat) /\ Len(A) <= TRACKER_MAX_PEERS - Len(v) /\ DOMAIN A = 1 .. Len(A)
        /\ \A k \in DOMAIN A : A[k] % 6 = 0 /\ A[k] + 6 <= len
    <2>1. len \in Nat /\ room \in Nat
      BY <1>0, <1>1, <1>2
    <2> QED
      BY <1>2, <2>1, AddressesFacts
  <1>4. /\ v \o A \in Seq(Nat) /\ Len(v \o A) = Len(v) + Len(A) /\ Len(A) \in Nat
        /\ DOMAIN (v \o A) = 1 .. Len(v) + Len(A)
        /\ \A k \in 1 .. Len(v) : (v \o A)[k] = v[k]
        /\ \A k \in Len(v) + 1 .. Len(v) + Len(A) : (v \o A)[k] = A[k - Len(v)]
    BY <1>1, <1>3
  <1>5. ASSUME NEW k \in DOMAIN (v \o A)
        PROVE  Listed((v \o A)[k])
    <2>1. CASE k \in 1 .. Len(v)
      BY <1>1, <1>4, <2>1 DEF TakenWell
    <2>2. CASE k \in Len(v) + 1 .. Len(v) + Len(A)
      <3>1. k - Len(v) \in DOMAIN A
        BY <1>1, <1>3, <1>4, <2>2
      <3>2. A[k - Len(v)] % 6 = 0 /\ A[k - Len(v)] + 6 <= len
        BY <1>3, <3>1
      <3> QED
        BY <1>0, <1>4, <2>2, <3>2 DEF Listed
    <2> QED
      BY <1>1, <1>4, <2>1, <2>2
  <1>6. Len(v \o A) <= TRACKER_MAX_PEERS
    BY <1>1, <1>3, <1>4
  <1> QED
    BY <1>0, <1>2, <1>4, <1>5, <1>6 DEF TakenWell

\* What the first n pairs gave.
TakenGood(acc, n) ==
    /\ acc = [v4 |-> acc.v4, v6 |-> acc.v6, next |-> acc.next]
    /\ TakenWell(acc.v4)
    /\ PeersOnce => IsInjective(acc.v4)
    /\ acc.v4 # <<>> => \E x \in 1 .. n : PairIs(x, "peers")

\* One pair more: its addresses lie within its string, and when there is one
\* peers in the response nothing was taken from another before.
LEMMA PairTaken ==
    ASSUME Parsed, ResponseInv, NEW pos, Sources(pos), IsDictionary,
           NEW n \in 1 .. lengths[1] \div 2, NEW acc, TakenGood(acc, n - 1),
           lengths[1] \in Nat
    PROVE  TakenGood(TakePair(acc, n), n)
  <1>1. n \in Nat /\ lengths[1] \div 2 \in Nat
    OBVIOUS
  <1>2. TakenGood(acc, n)
    <2>1. 1 .. n - 1 \subseteq 1 .. n
      BY <1>1
    <2> QED
      BY <2>1 DEF TakenGood
  <1>3. CASE acc.next = "more" /\ PairIs(n, "peers")
    <2>1. PICK t \in DOMAIN response :
             /\ response[t].token = "str" /\ response[t].text[1] = spans[2 * n + 1].text[1]
             /\ StringLength(response[t].text[1]) \in Nat
      BY <1>3, PairFacts
    <2>2. PICK len : len = StringLength(spans[2 * n + 1].text[1]) /\ len = StringLength(response[t].text[1]) /\ len \in Nat
      BY <2>1
    <2>3. PICK v4 : v4 = acc.v4 \o Addresses(len, TRACKER_MAX_PEERS - Len(acc.v4))
      OBVIOUS
    <2>4. TakenWell(v4)
      BY <2>1, <2>2, <2>3, AppendsWell DEF TakenGood
    <2>5. ASSUME PeersOnce
          PROVE  IsInjective(v4)
      <3>1. acc.v4 = <<>>
        <4> SUFFICES ASSUME acc.v4 # <<>>
                     PROVE  FALSE
          OBVIOUS
        <4>1. PICK x \in 1 .. n - 1 : PairIs(x, "peers")
          BY DEF TakenGood
        <4>2. x \in 1 .. lengths[1] \div 2 /\ x \in Nat /\ 2 * x < 2 * n
          BY <1>1
        <4>3. /\ 2 * x \in DOMAIN kinds /\ pos[2 * x] \in DOMAIN response /\ response[pos[2 * x]] = Str("peers")
              /\ 2 * n \in DOMAIN kinds /\ pos[2 * n] \in DOMAIN response /\ response[pos[2 * n]] = Str("peers")
          BY <1>3, <4>1, <4>2, PairFacts
        <4>4. pos[2 * x] = pos[2 * n]
          BY <2>5, <4>3 DEF PeersOnce
        <4>5. pos[2 * x] < pos[2 * n] /\ pos[2 * x] \in Int /\ pos[2 * n] \in Int
          <5>1. \A p \in DOMAIN kinds : pos[p] \in 1 .. read
            BY DEF Sources
          <5> QED
            BY <4>2, <4>3, <5>1 DEF Sources
        <4> QED
          BY <4>4, <4>5
      <3>2. TRACKER_MAX_PEERS \in Nat
        BY TRACKER_MAX_PEERS_Assumption
      <3>3. PICK A : A = Addresses(len, TRACKER_MAX_PEERS)
        OBVIOUS
      <3>4. A \in Seq(Nat) /\ IsInjective(A)
        BY <2>2, <3>2, <3>3, AddressesFacts
      <3>5. v4 = <<>> \o Addresses(len, TRACKER_MAX_PEERS - 0)
        <4>1. Len(<<>>) = 0
          OBVIOUS
        <4> QED
          BY <2>3, <3>1, <4>1, Zenon
      <3>6. TRACKER_MAX_PEERS - 0 = TRACKER_MAX_PEERS
        BY <3>2
      <3>7. v4 = <<>> \o A
        BY <3>3, <3>5, <3>6, Zenon
      <3>8. v4 = A
        BY <3>4, <3>7
      <3> QED
        BY <3>4, <3>8
    <2>6. \E x \in 1 .. n : PairIs(x, "peers")
      <3>1. n \in 1 .. n
        BY <1>1
      <3> QED
        BY <1>3, <3>1
    <2>7. PICK onward : TakePair(acc, n) = IF len % 6 = 0 THEN [v4 |-> v4, v6 |-> acc.v6, next |-> onward]
                                                          ELSE [acc EXCEPT !.next = "invalid"]
      BY <1>3, <2>2, <2>3 DEF TakePair
    <2>8. CASE len % 6 = 0
      <3>1. TakePair(acc, n) = [v4 |-> v4, v6 |-> acc.v6, next |-> onward]
        BY <2>7, <2>8, Zenon
      <3> QED
        BY <2>4, <2>5, <2>6, <3>1 DEF TakenGood
    <2>9. CASE ~(len % 6 = 0)
      <3>1. TakePair(acc, n) = [acc EXCEPT !.next = "invalid"]
        BY <2>7, <2>9, Zenon
      <3> QED
        BY <1>2, <3>1 DEF TakenGood
    <2> QED
      BY <2>8, <2>9
  <1>4. CASE acc.next = "more" /\ ~PairIs(n, "peers") /\ PairIs(n, "peers6")
    <2>1. \/ \E v6, onward : TakePair(acc, n) = [v4 |-> acc.v4, v6 |-> v6, next |-> onward]
          \/ TakePair(acc, n) = [acc EXCEPT !.next = "invalid"]
      BY <1>4 DEF TakePair
    <2> QED
      BY <1>2, <2>1 DEF TakenGood
  <1>5. CASE acc.next # "more" \/ (~PairIs(n, "peers") /\ ~PairIs(n, "peers6"))
    <2>1. TakePair(acc, n) = acc
      BY <1>5, Zenon DEF TakePair
    <2> QED
      BY <1>2, <2>1
  <1> QED
    BY <1>3, <1>4, <1>5

\* What tracker_parse_peer_addresses takes.
LEMMA PairsTaken ==
    ASSUME Parsed, ResponseInv, NEW pos, Sources(pos), IsDictionary
    PROVE  TakenWell(TakenPairs.v4) /\ (PeersOnce => IsInjective(TakenPairs.v4))
  <1> DEFINE count == lengths[1] \div 2
             after == CHOOSE g : Takes(g, count)
  <1>1. TakenPairs = after[count]
    BY DEF TakenPairs, Takes, NoneTaken
  <1>2. lengths[1] \in Nat /\ count \in Nat
    <2>1. lengths[1] \in Nat
      BY ParsedFacts, LengthFits DEF IsDictionary, Containers
    <2> QED
      BY <2>1
  <1>3. Takes(after, count)
    BY <1>2, TakingExists
  <1> HIDE DEF after
  <1>4. after[0] = NoneTaken /\ \A k \in 0 .. count : k # 0 => after[k] = TakePair(after[k - 1], k)
    <2> HIDE DEF count
    <2>1. \A k \in 0 .. count : after[k] = IF k = 0 THEN NoneTaken ELSE TakePair(after[k - 1], k)
      BY <1>3, Zenon DEF Takes
    <2>2. 0 \in 0 .. count
      BY <1>2
    <2> QED
      BY <2>1, <2>2, Zenon
  <1> DEFINE S == {k \in Nat : k <= count => TakenGood(after[k], k)}
  <1>5. 0 \in S
    <2>1. TakenGood(NoneTaken, 0)
      <3>1. NoneTaken.v4 = <<>> /\ NoneTaken = [v4 |-> NoneTaken.v4, v6 |-> NoneTaken.v6, next |-> NoneTaken.next]
        BY DEF NoneTaken
      <3>2. TakenWell(<<>>) /\ IsInjective(<<>>)
        BY TRACKER_MAX_PEERS_Assumption DEF TakenWell, IsInjective
      <3> QED
        BY <3>1, <3>2 DEF TakenGood
    <2> QED
      BY <1>4, <2>1
  <1>6. ASSUME NEW k \in S
        PROVE  k + 1 \in S
    <2>1. k \in Nat /\ (k <= count => TakenGood(after[k], k))
      OBVIOUS
    <2> HIDE DEF S
    <2>2. ASSUME k + 1 <= count
          PROVE  TakenGood(after[k + 1], k + 1)
      <3>1. PICK n : n = k + 1
        OBVIOUS
      <3>2. n \in 1 .. count /\ n \in 0 .. count /\ n # 0 /\ n - 1 = k /\ k <= count
        <4> HIDE DEF count
        <4> QED
          BY <1>2, <2>1, <2>2, <3>1
      <3>3. after[n] = TakePair(after[k], n) /\ TakenGood(after[k], n - 1)
        BY <1>4, <2>1, <3>2, Zenon
      <3>4. TakenGood(TakePair(after[k], n), n)
        BY <1>2, <3>2, <3>3, PairTaken
      <3> QED
        BY <3>1, <3>3, <3>4, Zenon
    <2>3. k + 1 \in Nat
      BY <2>1
    <2> QED
      BY <2>2, <2>3 DEF S
  <1>7. S = Nat
    <2>1. S \in SUBSET Nat
      OBVIOUS
    <2> HIDE DEF S
    <2> QED
      BY <1>5, <1>6, <2>1, SetInduction
  <1>8. TakenGood(after[count], count)
    <2>1. count \in S /\ count <= count
      <3> HIDE DEF S, count
      <3> QED
        BY <1>2, <1>7
    <2> HIDE DEF count
    <2> QED
      BY <2>1
  <1> QED
    BY <1>1, <1>8 DEF TakenGood

-----------------------------------------------------------------------------
(* The invariant of the start of a download. *)

\* What was read of a response keeps its place, whatever token comes next.
LEMMA ParsingKeepsSources ==
    ASSUME TreeInv, ResponseInv, response' = response, NEW pos, Sources(pos),
           NEW t, Parse(t),
           (read + 1 \in DOMAIN response /\ t = response[read + 1]) \/ t = Mark("end")
    PROVE  \E new : Sources(new)'
  <1>0. PICK n : n = Len(kinds)
    OBVIOUS
  <1>1. /\ ArraysInv /\ StackInv /\ err = "parsing"
        /\ n \in Nat /\ DOMAIN kinds = 1 .. n /\ read \in Nat
    BY <1>0, ArrayFacts DEF TreeInv, ArraysInv, Parse, bc_parse
  <1>2. ASSUME NEW kind \in Kinds, NEW len, NEW span, Add(kind, len, span),
               kind = "str" => span = t /\ t.token = "str" /\ t = response[read + 1] /\ read + 1 \in DOMAIN response
        PROVE  \E new : Sources(new)'
    <2>1. /\ Len(kinds)' = n + 1 /\ DOMAIN kinds' = 1 .. n + 1
          /\ \A p \in 1 .. n : kinds'[p] = kinds[p] /\ spans'[p] = spans[p]
          /\ kinds'[n + 1] = kind /\ spans'[n + 1] = span /\ read' = read + 1
      <3>1. /\ Len(kinds)' = n + 1
            /\ \A p \in 1 .. n : kinds'[p] = kinds[p] /\ spans'[p] = spans[p]
            /\ kinds'[n + 1] = kind /\ spans'[n + 1] = span /\ read' = read + 1
            /\ ArraysInv'
        BY <1>0, <1>1, <1>2, AddFacts
      <3>2. kinds' \in Seq(Kinds)
        BY <3>1 DEF ArraysInv
      <3> QED
        BY <1>1, <3>1, <3>2
    <2>2. PICK new : new = [p \in 1 .. n + 1 |-> IF p = n + 1 THEN read + 1 ELSE pos[p]]
      OBVIOUS
    <2>3. \A p \in 1 .. n + 1 : p = n + 1 \/ (p \in 1 .. n /\ p # n + 1)
      BY <1>1
    <2>4. new[n + 1] = read + 1 /\ \A p \in 1 .. n : new[p] = pos[p]
      <3>1. n + 1 \in 1 .. n + 1 /\ \A p \in 1 .. n : p \in 1 .. n + 1 /\ p # n + 1
        BY <1>1
      <3> QED
        BY <2>2, <3>1
    <2>5. \A p \in 1 .. n : pos[p] \in 1 .. read
      BY <1>1 DEF Sources
    <2>6. ASSUME NEW p \in 1 .. n + 1
          PROVE  new[p] \in 1 .. read + 1
      BY <1>1, <2>3, <2>4, <2>5
    <2>7. ASSUME NEW p \in 1 .. n + 1, NEW q \in 1 .. n + 1, p < q
          PROVE  new[p] < new[q]
      <3>1. p \in 1 .. n
        BY <1>1, <2>7
      <3>2. CASE q = n + 1
        BY <1>1, <2>4, <2>5, <3>1, <3>2
      <3>3. CASE q \in 1 .. n
        <4>1. pos[p] < pos[q]
          BY <1>1, <2>7, <3>1, <3>3 DEF Sources
        <4> QED
          BY <2>4, <3>1, <3>3, <4>1
      <3> QED
        BY <2>3, <3>2, <3>3
    <2>8. ASSUME NEW p \in 1 .. n + 1, kinds'[p] = "str"
          PROVE  new[p] \in DOMAIN response /\ spans'[p] = response[new[p]] /\ spans'[p].token = "str"
      <3>1. CASE p = n + 1
        BY <1>2, <2>1, <2>4, <2>8, <3>1
      <3>2. CASE p \in 1 .. n
        <4>1. kinds[p] = "str" /\ p \in DOMAIN kinds
          BY <1>1, <2>1, <2>8, <3>2
        <4> QED
          BY <2>1, <2>4, <3>2, <4>1 DEF Sources
      <3> QED
        BY <2>3, <3>1, <3>2
    <2>9. Sources(new)'
      BY <2>1, <2>6, <2>7, <2>8 DEF Sources
    <2> QED
      BY <2>9
  <1>3. CASE Scalar(t)
    <2>1. t # Mark("end")
      BY <1>3 DEF Scalar, Mark
    <2>2. CASE t.token = "int" /\ Add("int", Len(t.text), t)
      BY <1>2, <2>2 DEF Kinds
    <2>3. CASE t.token = "str" /\ Add("str", 1, t)
      BY <1>2, <2>1, <2>3 DEF Kinds
    <2> QED
      BY <1>3, <2>2, <2>3 DEF Scalar
  <1>4. CASE Open(t)
    <2>1. PICK kind, span : kind \in {"list", "dict"} /\ Add(kind, 0, span)
      BY <1>4 DEF Open
    <2> QED
      BY <1>2, <2>1 DEF Kinds
  <1>5. CASE Close(t)
    <2>1. kinds[Top] \in Containers /\ Last(calls).me = Top
      BY <1>1, <1>5, CloseFacts
    <2>2. PICK top : top = Top
      OBVIOUS
    <2>3. /\ kinds' = kinds /\ read' = read + 1
          /\ \E v : spans' = spans \/ spans' = [spans EXCEPT ![top] = v]
      BY <1>5, <2>1, <2>2 DEF Close
    <2>4. DOMAIN spans = 1 .. n
      BY <1>0, <1>1 DEF ArraysInv, IsArray
    <2>5. ASSUME NEW p \in 1 .. n, kinds[p] = "str"
          PROVE  spans'[p] = spans[p]
      <3>1. p # top
        BY <2>1, <2>2, <2>5 DEF Containers
      <3> QED
        BY <2>3, <2>4, <3>1
    <2>6. \A p \in 1 .. n : pos[p] \in 1 .. read'
      <3>1. \A p \in 1 .. n : pos[p] \in 1 .. read
        BY <1>1 DEF Sources
      <3> QED
        BY <1>1, <2>3, <3>1
    <2>7. Sources(pos)'
      BY <1>1, <2>3, <2>5, <2>6 DEF Sources
    <2> QED
      BY <2>7
  <1>6. CASE Stop(t)
    <2>1. UNCHANGED <<kinds, spans, read>>
      BY <1>6 DEF Stop
    <2>2. Sources(pos)'
      BY <2>1 DEF Sources
    <2> QED
      BY <2>2
  <1> QED
    BY <1>3, <1>4, <1>5, <1>6 DEF Parse, bc_parse

-----------------------------------------------------------------------------
\* In each stage, what the stages before it found out about the response and the
\* peers.
Tools        == {"torrent", "bencode_dump", "geometry"}
Asked        == {"fetch", "parse response", "addresses"}
Opened       == {"ftruncate", "peers", "run"}
ResponseRead ==
    /\ stage \in {"parse response", "addresses", "open"} => input = response
    /\ stage \in {"parse response", "addresses"} => \E pos : Sources(pos)
    /\ stage = "addresses" => err = "none"
HasPeers == ipv4 # <<>> \/ ipv6 # <<>>
PeersAreKnown ==
    /\ stage \in {"open"} \cup Opened =>
          HasPeers /\ TakenWell(ipv4) /\ (PeersOnce => IsInjective(ipv4))
    /\ stage = "run" => connected = ipv4
    /\ file # "none" => stage \in Opened \cup {"fatal"} /\ HasPeers
PeersInv ==
    /\ TreeInv /\ ResponseInv
    /\ tool \in Tools
    /\ stage \in Asked \cup {"open"} \cup Opened => tool = "torrent"
    /\ ResponseRead /\ PeersAreKnown

\* Nothing that the invariant is about changes.
LEMMA SameResponse ==
    ASSUME response' = response, kinds' = kinds, spans' = spans, read' = read
    PROVE  /\ ResponseInv => ResponseInv'
           /\ \A pos : Sources(pos) => Sources(pos)'
  BY DEF ResponseInv, Sources

\* The addresses are judged by the response only.
LEMMA SamePeers ==
    ASSUME response' = response, ipv4' = ipv4, ipv6' = ipv6
    PROVE  /\ TakenWell(ipv4)' <=> TakenWell(ipv4)
           /\ PeersOnce' <=> PeersOnce
           /\ HasPeers' <=> HasPeers
           /\ ResponseInv' <=> ResponseInv
  BY DEF TakenWell, Listed, PeersOnce, HasPeers, ResponseInv

\* In the stages before there are peers, and where nothing goes on.
LEMMA NoPeersYet ==
    ASSUME PeersInv, TreeInv', response' = response, tool' = tool, stage \notin Opened,
           stage' \notin {"parse response", "addresses", "open"} \cup Opened,
           file' = file, ipv4' = ipv4, ipv6' = ipv6,
           stage' \in Asked => stage \in Asked \/ tool = "torrent",
           stage = "fatal" => stage' = "fatal"
    PROVE  PeersInv'
  <1>1. ResponseInv' /\ tool' \in Tools /\ (stage' \in Asked \cup {"open"} \cup Opened => tool' = "torrent")
    BY SamePeers DEF PeersInv, Asked
  <1>2. ResponseRead'
    BY DEF ResponseRead
  <1>3. PeersAreKnown'
    BY SamePeers DEF PeersInv, PeersAreKnown, Opened
  <1> QED
    BY <1>1, <1>2, <1>3 DEF PeersInv

\* At the start nothing was asked.
LEMMA InitPeers == Init => PeersInv
  <1> SUFFICES ASSUME Init PROVE PeersInv
    OBVIOUS
  <1>1. TreeInv /\ stage = "parse" /\ file = "none"
    BY NothingReadIsATree DEF Init, StartInit
  <1>2. tool \in Tools
    BY DEF Init, Tools
  <1>3. ResponseInv
    <2>1. CASE response = <<>>
      BY <2>1 DEF ResponseInv
    <2>2. CASE \E s \in Starts : response = s.answer
      BY <2>2, StartsAssumption DEF ResponseInv
    <2> QED
      BY <2>1, <2>2 DEF Init
  <1> QED
    BY <1>1, <1>2, <1>3 DEF PeersInv, ResponseRead, PeersAreKnown, Asked, Opened

\* Reading the file, or the response.
LEMMA ParsingKeepsPeers ==
    ASSUME PeersInv, TreeInv', Starting, Parsing \/ ParsingEnd \/ DumpedEnd
    PROVE  PeersInv'
  <1>1. PICK t : Parse(t) /\ \/ tool # "torrent"
                             \/ read < Len(input) /\ t = input[read + 1]
                             \/ t = Mark("end")
    BY DEF Parsing, ParsingEnd, DumpedEnd, Mark
  <1>2. /\ stage \in {"parse", "parse response"}
        /\ stage' \in {"parse", "fatal", "metainfo", "parse response", "addresses"}
        /\ stage = "parse" => stage' \in {"parse", "fatal", "metainfo"}
        /\ stage' = "addresses" => err' = "none"
        /\ UNCHANGED <<tool, input, trackerVars, mainVars>>
    BY <1>1 DEF Parse
  <1>3. UNCHANGED <<response, ipv4, ipv6, file, connected, tool, input>>
    BY <1>2 DEF trackerVars, mainVars
  <1>4. CASE stage' \in {"parse", "fatal", "metainfo"}
    BY <1>2, <1>3, <1>4, NoPeersYet DEF Asked, Opened
  <1>5. CASE stage' \in {"parse response", "addresses"}
    <2>1. stage = "parse response" /\ tool = "torrent" /\ input = response
      BY <1>2, <1>5 DEF PeersInv, ResponseRead, Asked
    <2>2. PICK pos : Sources(pos)
      BY <2>1 DEF PeersInv, ResponseRead
    <2>3. (read + 1 \in DOMAIN response /\ t = response[read + 1]) \/ t = Mark("end")
      <3>1. PICK w : w = Len(response)
        OBVIOUS
      <3>2. read \in Nat /\ w \in Nat /\ DOMAIN response = 1 .. w
        BY <3>1 DEF PeersInv, TreeInv, ArraysInv, ResponseInv
      <3>3. (read < w /\ t = response[read + 1]) \/ t = Mark("end")
        BY <1>1, <2>1, <3>1, Zenon
      <3>4. read < w => read + 1 \in DOMAIN response
        BY <3>2
      <3> QED
        BY <3>3, <3>4, Zenon
    <2>4. \E new : Sources(new)'
      BY <1>1, <1>3, <2>2, <2>3, ParsingKeepsSources DEF PeersInv
    <2>5. ResponseRead'
      BY <1>2, <1>3, <2>1, <2>4 DEF ResponseRead
    <2>6. PeersAreKnown'
      BY <1>3, <1>5, <2>1 DEF PeersInv, PeersAreKnown, Opened
    <2> QED
      BY <1>3, <2>1, <2>5, <2>6, SamePeers DEF PeersInv
  <1> QED
    BY <1>2, <1>4, <1>5

\* The response is there, whole: a parser is reset for it.
LEMMA CurlKeepsPeers ==
    ASSUME PeersInv, TreeInv', CurlSucceeds
    PROVE  PeersInv'
  <1>1. /\ UNCHANGED <<tool, response, ipv4, ipv6, file, connected>> /\ stage = "fetch" /\ stage' = "parse response"
        /\ input' = SubSeq(response, 1, Len(response)) /\ kinds' = <<>> /\ tool = "torrent"
    BY DEF CurlSucceeds, Responded, Goes, trackerVars, mainVars, PeersInv, Asked
  <1>2. input' = response
    <2>1. PICK w, T : w = Len(response) /\ T = Tokens
      OBVIOUS
    <2>2. response \in Seq(T) /\ w \in Nat /\ DOMAIN response = 1 .. w
      BY <2>1 DEF PeersInv, ResponseInv
    <2>3. /\ SubSeq(response, 1, w) \in Seq(T) /\ Len(SubSeq(response, 1, w)) = w
          /\ \A k \in 1 .. w : SubSeq(response, 1, w)[k] = response[k]
      BY <2>1, <2>2
    <2>4. SubSeq(response, 1, w) = response
      BY <2>1, <2>2, <2>3
    <2> QED
      BY <1>1, <2>1, <2>4, Zenon
  <1>3. Sources(<<>>)'
    <2>1. DOMAIN kinds' = {}
      <3>1. Len(<<>>) = 0 /\ DOMAIN <<>> = {}
        OBVIOUS
      <3> QED
        BY <1>1, <3>1, Zenon
    <2> QED
      BY <2>1 DEF Sources
  <1>4. ResponseRead'
    BY <1>1, <1>2, <1>3 DEF ResponseRead
  <1>5. PeersAreKnown'
    BY <1>1 DEF PeersInv, PeersAreKnown, Opened
  <1> QED
    BY <1>1, <1>4, <1>5, SamePeers DEF PeersInv

\* The addresses are taken from the response.
LEMMA AddressesKeepPeers ==
    ASSUME PeersInv, TreeInv', tracker_parse_peer_addresses
    PROVE  PeersInv'
  <1>1. /\ stage = "addresses" /\ stage' \in {"fatal", "open"} /\ file = "none" /\ tool = "torrent"
        /\ UNCHANGED <<kinds, tool, input, response, file, connected>>
    <2>1. stage = "addresses" /\ stage' \in {"fatal", "open"} /\ UNCHANGED <<bcVars, tool, input, response, mainVars>>
      BY DEF tracker_parse_peer_addresses, Goes
    <2> QED
      BY <2>1 DEF bcVars, mainVars, PeersInv, PeersAreKnown, Opened, Asked
  <1>2. input = response /\ \E pos : Sources(pos)
    BY <1>1 DEF PeersInv, ResponseRead
  <1>3. Parsed
    BY <1>1 DEF Parsed, PeersInv, ResponseRead
  <1>4. ResponseInv'
    BY <1>1 DEF PeersInv, ResponseInv
  <1>5. CASE stage' = "fatal"
    BY <1>1, <1>4, <1>5 DEF PeersInv, ResponseRead, PeersAreKnown, Asked, Opened
  <1>6. CASE stage' = "open"
    <2>1. IsDictionary /\ ipv4' = TakenPairs.v4 /\ ipv6' = TakenPairs.v6 /\ ~NoPeers(TakenPairs)
      BY <1>6 DEF tracker_parse_peer_addresses, Goes
    <2>2. TakenWell(ipv4') /\ (PeersOnce => IsInjective(ipv4'))
      BY <1>2, <1>3, <2>1, PairsTaken DEF PeersInv
    <2>3. TakenWell(ipv4)' /\ (PeersOnce => IsInjective(ipv4))'
      BY <1>1, <2>2 DEF TakenWell, Listed, PeersOnce
    <2>4. HasPeers'
      BY <2>1 DEF HasPeers, NoPeers
    <2>5. PeersAreKnown'
      BY <1>1, <1>6, <2>3, <2>4 DEF PeersAreKnown, Opened
    <2>6. ResponseRead'
      BY <1>1, <1>2, <1>6 DEF ResponseRead
    <2> QED
      BY <1>1, <1>4, <2>5, <2>6 DEF PeersInv
  <1> QED
    BY <1>1, <1>5, <1>6

\* Peers are known, and the file is opened, sized and used.
LEMMA OpeningKeepsPeers ==
    ASSUME PeersInv, TreeInv', open \/ ftruncate \/ peer_connect
    PROVE  PeersInv'
  <1>1. /\ stage \in {"open"} \cup Opened /\ stage' \in Opened \cup {"fatal"}
        /\ UNCHANGED <<tool, response, ipv4, ipv6>>
        /\ stage' = "run" => connected' = ipv4
    BY DEF open, ftruncate, peer_connect, Goes, Connects, trackerVars, Opened
  <1>2. tool = "torrent" /\ HasPeers /\ TakenWell(ipv4) /\ (PeersOnce => IsInjective(ipv4))
    BY <1>1 DEF PeersInv, PeersAreKnown
  <1>3. HasPeers' /\ TakenWell(ipv4)' /\ (PeersOnce => IsInjective(ipv4))'
    BY <1>1, <1>2, SamePeers
  <1>4. PeersAreKnown'
    BY <1>1, <1>3 DEF PeersAreKnown, Opened
  <1>5. ResponseRead'
    BY <1>1 DEF ResponseRead, Opened
  <1> QED
    BY <1>1, <1>2, <1>4, <1>5, SamePeers DEF PeersInv, Tools

\* Nothing happens to the start of a download.
LEMMA NothingKeepsPeers ==
    ASSUME PeersInv, TreeInv', UNCHANGED <<bcVars, startVars>>
    PROVE  PeersInv'
  <1>1. UNCHANGED <<kinds, spans, read, err, tool, input, response, stage, ipv4, ipv6, file, connected>>
    BY DEF bcVars, startVars
  <1>2. ResponseRead'
    BY <1>1, SameResponse DEF PeersInv, ResponseRead
  <1>3. PeersAreKnown'
    BY <1>1, SamePeers DEF PeersInv, PeersAreKnown
  <1> QED
    BY <1>1, <1>2, <1>3, SamePeers DEF PeersInv

\* Every step keeps the invariant of the start.
LEMMA StepKeepsPeers == PeersInv /\ [Next]_vars => PeersInv'
  <1> SUFFICES ASSUME PeersInv, [Next]_vars
               PROVE  PeersInv'
    OBVIOUS
  <1>0. TreeInv'
    BY StepKeepsTheTree DEF PeersInv
  <1>1. CASE Starting /\ (Parsing \/ ParsingEnd \/ DumpedEnd)
    BY <1>0, <1>1, ParsingKeepsPeers
  <1>2. CASE CurlSucceeds
    BY <1>0, <1>2, CurlKeepsPeers
  <1>3. CASE tracker_parse_peer_addresses
    BY <1>0, <1>3, AddressesKeepPeers
  <1>4. CASE open \/ ftruncate \/ peer_connect
    BY <1>0, <1>4, OpeningKeepsPeers
  <1>5. CASE Starting /\ (ReadFails \/ bc_parser_init_metainfo_step \/ bc_parser_init_metainfo_end \/ Curl)
    <2>1. /\ stage \in {"parse", "metainfo", "fetch"}
          /\ UNCHANGED <<tool, response, ipv4, ipv6, mainVars>>
      BY <1>5 DEF ReadFails, bc_parser_init_metainfo_step, bc_parser_init_metainfo_end, Curl,
                  tracker_on_response_chunk, CurlFails, trackerVars
    <2>2. stage' \in {"fatal", "metainfo", "rejected", "done", "fetch"}
      BY <1>5, ReaderSteps DEF ReadFails, bc_parser_init_metainfo_end, Curl, tracker_on_response_chunk, CurlFails, Goes,
                  ReadsInfo, Reads, Skips
    <2>3. stage' \in Asked => stage \in Asked \/ tool = "torrent"
      <3>1. CASE bc_parser_init_metainfo_end
        BY <1>5, <3>1 DEF bc_parser_init_metainfo_end, PeersInv, Tools, Starting, Asked
      <3>2. CASE bc_parser_init_metainfo_step
        BY <3>2, ReaderSteps DEF ReadsInfo, Reads, Skips, Asked
      <3>3. CASE ReadFails \/ Curl
        BY <3>3 DEF ReadFails, Curl, tracker_on_response_chunk, CurlFails, Goes, Asked
      <3> QED
        BY <1>5, <3>1, <3>2, <3>3
    <2>4. file' = file
      BY <2>1 DEF mainVars
    <2> QED
      BY <1>0, <2>1, <2>2, <2>3, <2>4, NoPeersYet DEF Opened
  <1>6. CASE Walking \/ UNCHANGED vars
    <2>1. UNCHANGED <<bcVars, startVars>>
      BY <1>6 DEF Walking, vars
    <2> QED
      BY <1>0, <2>1, NothingKeepsPeers
  <1> QED
    BY <1>1, <1>2, <1>3, <1>4, <1>5, <1>6 DEF Next, Starting, Main

\* The invariant says what a connection needs.
LEMMA KnownPeersAreListed == PeersInv => PeersAreThoseListed
  <1> SUFFICES ASSUME PeersInv
               PROVE  PeersAreThoseListed
    OBVIOUS
  <1>1. ResponseIsWhole
    BY DEF PeersInv, ResponseRead, ResponseIsWhole
  <1>2. NoFileWithoutPeers
    BY DEF PeersInv, PeersAreKnown, NoFileWithoutPeers, HasPeers
  <1>3. ConnectsToListedPeers
    BY DEF PeersInv, PeersAreKnown, ConnectsToListedPeers, TakenWell, Listed, Opened
  <1> QED
    BY <1>1, <1>2, <1>3 DEF PeersAreThoseListed

\* tracker_fetch_peers and main: only a whole response is parsed; the file on the
\* disk is touched only after the tracker has named a peer; each connection is to
\* an address within a string of the response, there are at most
\* TRACKER_MAX_PEERS, and no two are to the same when the response has one peers.
\* For every response, however it is cut and whatever it nests.
THEOREM PeersAreListed == Spec => []PeersAreThoseListed
  BY InitPeers, StepKeepsPeers, KnownPeersAreListed, PTL DEF Spec

-----------------------------------------------------------------------------
(* The geometry of torrents. *)

\* The torrents of the model are those that lengths and piece lengths up to the
\* bounds give.
LEMMA TorrentsAreWellFormed ==
    ASSUME NEW t \in Torrents
    PROVE  WellFormed(t) /\ t.length \in 1 .. MaxLength
  <1>1. PICK l \in 1 .. MaxLength, k \in 1 .. MaxBlocksPerPiece :
            t = metainfo_init(l, k * BlockLength, CeilDiv(l, k * BlockLength))
    BY DEF Torrents
  <1> DEFINE P == k * BlockLength
  <1>2. /\ k \in Nat \ {0} /\ BlockLength \in Nat \ {0} /\ Word \in Nat \ {0}
        /\ MaxBlocksPerPiece \in Nat /\ MaxBlocksPerPiece * BlockLength < Word
        /\ l \in Nat \ {0} /\ MaxLength \in Nat
    BY MaxLengthAssumption, MaxBlocksPerPieceAssumption, BlockLengthAssumption, WordAssumption
  <1>3. P \in Nat \ {0} /\ P < Word
    <2>1. P <= MaxBlocksPerPiece * BlockLength /\ P >= 1
      BY <1>2
    <2> QED
      BY <1>2, <2>1
  <1>4. P % BlockLength = 0
    <2>1. (BlockLength * k + 0) % BlockLength = 0
      BY <1>2, DivisionUnique
    <2> QED
      BY <1>2, <2>1
  <1> HIDE DEF P
  <1>5. t = metainfo_init(l, P, CeilDiv(l, P))
    BY <1>1 DEF P
  <1>6. WellFormed(t)
    BY <1>2, <1>3, <1>4, <1>5 DEF WellFormed
  <1>7. t.length = l
    BY <1>5 DEF metainfo_init
  <1> QED
    BY <1>6, <1>7

\* Rounding up is monotonic.
LEMMA RoundedUpMonotonic ==
    ASSUME NEW a \in Nat \ {0}, NEW c \in Nat \ {0}, a <= c
    PROVE  CeilDiv(a, BlockLength) <= CeilDiv(c, BlockLength)
  <1> DEFINE q == CeilDiv(a, BlockLength)
             w == CeilDiv(c, BlockLength)
  <1>1. /\ BlockLength \in Nat \ {0}
        /\ q \in Nat \ {0} /\ (q - 1) * BlockLength < a
        /\ w \in Nat \ {0} /\ c <= w * BlockLength
    BY BlockLengthAssumption, RoundedUp
  <1> HIDE DEF q, w
  <1>2. (q - 1) * BlockLength < w * BlockLength
    BY <1>1
  <1>3. q - 1 < w
    BY <1>1, <1>2
  <1> QED
    BY <1>1, <1>3 DEF q, w

\* The blocks of a file that is not too long can be numbered.
LEMMA TorrentBlocks ==
    ASSUME NEW t \in Torrents
    PROVE  /\ CeilDiv(t.length, BlockLength) < Word
           /\ 0 \in Blocks(t)
  <1>1. WellFormed(t) /\ t.length \in 1 .. MaxLength
    BY TorrentsAreWellFormed
  <1>2. /\ MaxLength \in Nat \ {0} /\ BlockLength \in Nat \ {0} /\ Word \in Nat
        /\ CeilDiv(MaxLength, BlockLength) < Word
        /\ t.length \in Nat \ {0} /\ t.length <= MaxLength
    BY <1>1, MaxLengthAssumption, BlockLengthAssumption, WordAssumption
  <1>3. /\ CeilDiv(t.length, BlockLength) \in Nat
        /\ CeilDiv(MaxLength, BlockLength) \in Nat
        /\ CeilDiv(t.length, BlockLength) <= CeilDiv(MaxLength, BlockLength)
    BY <1>2, RoundedUp, RoundedUpMonotonic
  <1>4. CeilDiv(t.length, BlockLength) < Word
    BY <1>2, <1>3
  <1>5. t.blocks_count \in Nat \ {0}
    BY <1>1, <1>4, BlocksNumbered
  <1> QED
    BY <1>4, <1>5 DEF Blocks

-----------------------------------------------------------------------------
(* Some torrent, and one of its blocks. *)
GeometryInv == m \in Torrents /\ block \in Blocks(m)

\* There are torrents.
LEMMA FirstTorrentIsOne == FirstTorrent \in Torrents
  <1>1. 1 \in 1 .. MaxLength /\ 1 \in 1 .. MaxBlocksPerPiece
    BY MaxLengthAssumption, MaxBlocksPerPieceAssumption
  <1>2. metainfo_init(1, 1 * BlockLength, CeilDiv(1, 1 * BlockLength)) \in Torrents
    BY <1>1 DEF Torrents
  <1> QED
    BY <1>2 DEF FirstTorrent

\* A walk begins with the first block of a torrent.
LEMMA InitGeometry == Init => GeometryInv
  <1> SUFFICES ASSUME Init PROVE GeometryInv
    OBVIOUS
  <1>1. m \in Torrents /\ block = 0
    BY FirstTorrentIsOne DEF Init, GeometryInit
  <1> QED
    BY <1>1, TorrentBlocks DEF GeometryInv

\* A walk goes on to a block of the same torrent.
LEMMA StepKeepsGeometry == GeometryInv /\ [Next]_vars => GeometryInv'
  <1> SUFFICES ASSUME GeometryInv, [Next]_vars PROVE GeometryInv'
    OBVIOUS
  <1>1. CASE Walking
    BY <1>1 DEF Walking, NextBlock, GeometryInv
  <1>2. CASE Starting
    BY <1>2 DEF Starting, GeometryInv, geometryVars
  <1>3. CASE UNCHANGED vars
    BY <1>3 DEF vars, GeometryInv, geometryVars
  <1> QED
    BY <1>1, <1>2, <1>3 DEF Next

-----------------------------------------------------------------------------
(* What the positions of any block are. *)

\* A request leads back to its block, and fits its piece.
LEMMA RequestsNameBlocks == GeometryInv => RequestNamesItsBlock
  <1> SUFFICES ASSUME GeometryInv PROVE RequestNamesItsBlock
    OBVIOUS
  <1>1. WellFormed(m) /\ block \in Blocks(m)
    BY TorrentsAreWellFormed DEF GeometryInv
  <1>2. Fits(m, request_of_block(m, block))
    BY <1>1, RequestFitsItsPiece
  <1>3. block_of_answer(m, request_of_block(m, block).index, request_of_block(m, block).begin) = block
    BY <1>1, RequestRoundTrip
  <1> QED
    BY <1>1, <1>2, <1>3, BlockIsInPiece, BlockStarts DEF Fits, RequestNamesItsBlock

\* The blocks of a torrent follow one another, up to the end of the file.
LEMMA BlocksTile == GeometryInv => BlocksTileTheFile
  BY TorrentsAreWellFormed, TorrentBlocks, BlockEnds DEF GeometryInv, BlocksTileTheFile

\* What is read for a checksum is the blocks of the piece.
LEMMA ChecksumsReadPieces == GeometryInv => ChecksumReadsThePiece
  <1> SUFFICES ASSUME GeometryInv PROVE ChecksumReadsThePiece
    OBVIOUS
  <1> DEFINE piece == piece_of_block(m, block)
             mine  == blocks_of_piece(m, piece)
             r     == request_of_block(m, block)
  <1>1. WellFormed(m) /\ block \in Blocks(m) /\ CeilDiv(m.length, BlockLength) < Word
    BY TorrentsAreWellFormed, TorrentBlocks DEF GeometryInv
  <1>2. piece \in Pieces(m) /\ piece \in Nat /\ r.index = piece
    <2>1. piece \in Pieces(m)
      BY <1>1, PieceOfBlock
    <2>2. r.index = piece
      BY DEF request_of_block
    <2> QED
      BY <1>1, <2>1, <2>2, BlocksInPiece
  <1> HIDE DEF piece
  <1>3. /\ block \in mine
        /\ \A b \in mine : b \in Blocks(m) /\ piece_of_block(m, b) = piece
    BY <1>1, <1>2, PieceHasBlock, PieceBlocksExist DEF piece
  <1>4. ASSUME m.length <= Word
        PROVE  /\ checksum_offset(m, piece) <= put_offset(block)
               /\ put_offset(block) + r.length
                      <= checksum_offset(m, piece) + metainfo_piece_length(m, piece)
               /\ \E b \in mine : checksum_offset(m, piece) = put_offset(b)
    <2>1. /\ checksum_offset(m, piece) = piece * m.piece_length
          /\ checksum_offset(m, piece) = put_offset(piece * m.blocks_per_piece)
      BY <1>1, <1>2, <1>4, ChecksumStart
    <2>2. put_offset(block) = piece * m.piece_length + r.begin
      BY <1>1, <1>2, BlockStarts
    <2>3. Fits(m, r)
      BY <1>1, RequestFitsItsPiece
    <2> HIDE DEF r
    <2>4. /\ r.begin \in Nat /\ r.length \in Nat
          /\ r.begin + r.length <= metainfo_piece_length(m, piece)
      BY <1>2, <2>3, BlockLengthAssumption, WordAssumption DEF Fits
    <2>5. piece * m.piece_length \in Int /\ metainfo_piece_length(m, piece) \in Int
      BY <1>1, <1>2, BlocksPerPiece, LastPiece DEF metainfo_piece_length
    <2>6. piece * m.blocks_per_piece \in mine
      BY <1>1, <1>2, PieceBlocksExist
    <2> QED
      BY <2>1, <2>2, <2>4, <2>5, <2>6
  <1> QED
    BY <1>3, <1>4 DEF ChecksumReadsThePiece, piece

\* The answer to the request for a block is accepted, and written where the
\* block belongs; the blocks cover the file without overlapping, the last one
\* ends with it; and in files of at most 4 GiB a checksum reads exactly the
\* blocks whose arrival it waited for.  For every file, short last block or
\* not, whose blocks can be numbered in 32 bits.
THEOREM PositionsAlwaysAgree == Spec => []PositionsAgree
  <1>1. GeometryInv => PositionsAgree
    BY RequestsNameBlocks, BlocksTile, ChecksumsReadPieces DEF PositionsAgree
  <1> QED
    BY <1>1, InitGeometry, StepKeepsGeometry, PTL DEF Spec
=============================================================================
