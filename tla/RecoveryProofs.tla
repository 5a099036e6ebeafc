--------------------------- MODULE RecoveryProofs ---------------------------
(***************************************************************************)
(* Theorems about Recovery: the engine with its directory of tables, the   *)
(* end of the process at any moment and the next open.                     *)
(***************************************************************************)
EXTENDS Recovery, CompactionProofs

-----------------------------------------------------------------------------
(* Recovery is for one client.                                              *)
LEMMA SingleClient == OneClient /\ IsFiniteSet(Client)
<1>1. OneClient
  BY RecoveryAssumption DEF OneClient
<1>2. CASE Client = {}
  BY <1>1, <1>2, FS_EmptySet
<1>3. CASE Client # {}
  <2>1. PICK c : c \in Client
    BY <1>3
  <2>2. Client = {c}
    BY <1>1, <2>1 DEF OneClient
  <2> QED
    BY <1>1, <2>2, FS_Singleton
<1> QED
  BY <1>1, <1>2, <1>3

(* The directory: which files it has, and which one was made before which.  *)
Holds(d, f) == \E i \in DOMAIN d : d[i] = f
Earlier(d, f, g) == \E i, j \in DOMAIN d : i < j /\ d[i] = f /\ d[j] = g
NamesOnce(d) == \A i, j \in DOMAIN d : i # j => d[i].name # d[j].name

LEMMA NamesOnceFacts ==
  ASSUME NEW d \in Seq(File)
  PROVE  /\ NamesOnce(d) <=> \A f, g : Earlier(d, f, g) => f.name # g.name
         /\ NamesOnce(d) => \A f, g : Holds(d, f) /\ Holds(d, g) /\ f.name = g.name => f = g
         /\ \A f, g : Earlier(d, f, g) => Holds(d, f) /\ Holds(d, g)
<1>1. \A i, j \in DOMAIN d : i # j <=> i < j \/ j < i
  OBVIOUS
<1>2. ASSUME NamesOnce(d), NEW f, NEW g, Earlier(d, f, g) PROVE f.name # g.name
  BY <1>1, <1>2 DEF NamesOnce, Earlier
<1>3. ASSUME \A f, g : Earlier(d, f, g) => f.name # g.name PROVE NamesOnce(d)
  <2> SUFFICES ASSUME NEW i \in DOMAIN d, NEW j \in DOMAIN d, i # j PROVE d[i].name # d[j].name
    BY DEF NamesOnce
  <2>1. Earlier(d, d[i], d[j]) \/ Earlier(d, d[j], d[i])
    BY <1>1 DEF Earlier
  <2> QED
    BY <1>3, <2>1
<1>4. ASSUME NamesOnce(d), NEW f, NEW g, Holds(d, f), Holds(d, g), f.name = g.name PROVE f = g
  BY <1>4 DEF NamesOnce, Holds
<1> QED
  BY <1>2, <1>3, <1>4 DEF Earlier, Holds

(* Some of the files of d, in their order: s gives their positions.         *)
PositionsOf(s, d, at) ==
  /\ s \in Seq(at) /\ DOMAIN s = 1..Len(s)
  /\ Chosen(d, at) = [i \in 1..Len(s) |-> d[s[i]]]
  /\ \A i, j \in 1..Len(s) : i < j => s[i] < s[j]
  /\ \A p \in at : \E i \in 1..Len(s) : s[i] = p

LEMMA ChosenFacts ==
  ASSUME NEW S, NEW d \in Seq(S), NEW at \in SUBSET DOMAIN d
  PROVE  Chosen(d, at) \in Seq(S) /\ \E s : PositionsOf(s, d, at)
<1> DEFINE s == Sorted(at)
<1>1. at \in SUBSET Nat /\ IsFiniteSet(at)
  <2>1. IsFiniteSet(1..Len(d)) /\ DOMAIN d = 1..Len(d)
    BY FS_Interval
  <2> QED
    BY <2>1, FS_Subset
<1>2. /\ s \in Seq(at) /\ Len(s) = Cardinality(at)
      /\ \A i, j \in 1..Cardinality(at) : i < j => s[i] < s[j]
      /\ \A p \in at : \E i \in 1..Cardinality(at) : s[i] = p
  BY <1>1, SortedFacts
<1>3. Chosen(d, at) = [i \in DOMAIN s |-> d[s[i]]]
  BY DEF Chosen
<1> HIDE DEF s
<1>4. DOMAIN s = 1..Len(s) /\ Len(s) \in Nat /\ \A i \in 1..Len(s) : s[i] \in at /\ d[s[i]] \in S
  BY <1>2
<1>5. Chosen(d, at) \in Seq(S)
  BY <1>3, <1>4
<1>6. PositionsOf(s, d, at)
  BY <1>2, <1>3, <1>4 DEF PositionsOf
<1> QED
  BY <1>5, <1>6

LEMMA ChosenKeeps ==
  ASSUME NEW d \in Seq(File), NEW at \in SUBSET DOMAIN d, NEW w, w = Chosen(d, at)
  PROVE  /\ w \in Seq(File)
         /\ \A f : Holds(w, f) <=> \E p \in at : d[p] = f
         /\ \A f, g : Earlier(w, f, g) <=> \E p, q \in at : p < q /\ d[p] = f /\ d[q] = g
<1>1. w \in Seq(File)
  BY ChosenFacts
<1>2. PICK s : PositionsOf(s, d, at)
  BY ChosenFacts
<1>3. /\ DOMAIN w = 1..Len(s) /\ \A i \in 1..Len(s) : w[i] = d[s[i]] /\ s[i] \in at
      /\ \A i, j \in 1..Len(s) : i < j => s[i] < s[j]
      /\ \A p \in at : \E i \in 1..Len(s) : s[i] = p
      /\ at \subseteq Nat /\ Len(s) \in Nat
  BY <1>2 DEF PositionsOf
<1>4. \A f : Holds(w, f) <=> \E p \in at : d[p] = f
  <2> TAKE f
  <2>1. ASSUME NEW i \in 1..Len(s), w[i] = f PROVE \E p \in at : d[p] = f
    BY <1>3, <2>1
  <2>2. ASSUME NEW p \in at, d[p] = f PROVE \E i \in 1..Len(s) : w[i] = f
    BY <1>3, <2>2
  <2> QED
    BY <1>3, <2>1, <2>2 DEF Holds
<1>5. ASSUME NEW f, NEW g, Earlier(w, f, g)
      PROVE  \E p, q \in at : p < q /\ d[p] = f /\ d[q] = g
  <2>1. PICK i, j \in 1..Len(s) : i < j /\ w[i] = f /\ w[j] = g
    BY <1>3, <1>5 DEF Earlier
  <2>2. s[i] \in at /\ s[j] \in at /\ s[i] < s[j] /\ d[s[i]] = f /\ d[s[j]] = g
    BY <1>3, <2>1
  <2> QED
    BY <2>2
<1>6. ASSUME NEW f, NEW g, NEW p \in at, NEW q \in at, p < q, d[p] = f, d[q] = g
      PROVE  Earlier(w, f, g)
  <2>1. PICK i, j \in 1..Len(s) : s[i] = p /\ s[j] = q
    BY <1>3
  <2>2. i # j /\ ~(j < i)
    <3>1. p \in Nat /\ q \in Nat /\ ~(q < p) /\ p # q
      BY <1>3, <1>6
    <3> QED
      BY <1>3, <2>1, <3>1
  <2>3. i < j
    BY <2>2
  <2> QED
    BY <1>3, <1>6, <2>1, <2>3 DEF Earlier
<1> QED
  BY <1>1, <1>4, <1>5, <1>6

(* Without one name, the others stay and keep their order; so do the files  *)
(* of a level that are loaded.                                              *)
LEMMA WithoutFacts ==
  ASSUME NEW d \in Seq(File), NEW name
  PROVE  /\ Without(d, name) \in Seq(File)
         /\ \A f : Holds(Without(d, name), f) <=> Holds(d, f) /\ f.name # name
         /\ \A f, g : Earlier(Without(d, name), f, g) <=>
                        Earlier(d, f, g) /\ f.name # name /\ g.name # name
<1> DEFINE at == {i \in DOMAIN d : d[i].name # name}
           w == Without(d, name)
<1>1. w = Chosen(d, at) /\ at \in SUBSET DOMAIN d
  BY DEF Without
<1> HIDE DEF w
<1>2. /\ w \in Seq(File)
      /\ \A f : Holds(w, f) <=> \E p \in at : d[p] = f
      /\ \A f, g : Earlier(w, f, g) <=> \E p, q \in at : p < q /\ d[p] = f /\ d[q] = g
  <2> HIDE DEF at
  <2> QED
    BY <1>1, ChosenKeeps
<1>3. \A f : (\E p \in at : d[p] = f) <=> Holds(d, f) /\ f.name # name
  BY Zenon DEF Holds
<1>4. \A f, g : (\E p, q \in at : p < q /\ d[p] = f /\ d[q] = g)
                <=> Earlier(d, f, g) /\ f.name # name /\ g.name # name
  BY Zenon DEF Earlier
<1> HIDE DEF at
<1> QED
  BY <1>2, <1>3, <1>4 DEF w

LEMMA LoadedFacts ==
  ASSUME disk \in Seq(File), NEW l
  PROVE  /\ Loaded(l) \in Seq(File)
         /\ \A f : Holds(Loaded(l), f) <=> Holds(disk, f) /\ f.name.level = l
         /\ \A f, g : Earlier(Loaded(l), f, g) <=>
                        Earlier(disk, f, g) /\ f.name.level = l /\ g.name.level = l
<1> DEFINE at == {i \in DOMAIN disk : disk[i].name.level = l}
           w == Loaded(l)
<1>1. w = Chosen(disk, at) /\ at \in SUBSET DOMAIN disk
  BY DEF Loaded
<1> HIDE DEF w
<1>2. /\ w \in Seq(File)
      /\ \A f : Holds(w, f) <=> \E p \in at : disk[p] = f
      /\ \A f, g : Earlier(w, f, g) <=> \E p, q \in at : p < q /\ disk[p] = f /\ disk[q] = g
  <2>1. PICK d : d = disk
    OBVIOUS
  <2> HIDE DEF at
  <2> QED
    BY <1>1, <2>1, ChosenKeeps
<1>3. \A f : (\E p \in at : disk[p] = f) <=> Holds(disk, f) /\ f.name.level = l
  BY Zenon DEF Holds
<1>4. \A f, g : (\E p, q \in at : p < q /\ disk[p] = f /\ disk[q] = g)
                <=> Earlier(disk, f, g) /\ f.name.level = l /\ g.name.level = l
  BY Zenon DEF Earlier
<1> HIDE DEF at
<1> QED
  BY <1>2, <1>3, <1>4 DEF w

(* A file that writing f does not touch.                                    *)
Spared(g, f, left) == left = "absent" \/ g.name # f.name

(* What the writer of a file may leave: nothing happens to the files of     *)
(* other names, and the new file comes last.                                *)
LEMMA WrittenFacts ==
  ASSUME NEW d \in Seq(File), NEW f \in File, NEW left \in Left,
         NEW w, w = Written(d, f, left)
  PROVE  /\ w \in Seq(File)
         /\ \A g : Holds(w, g) => g = f \/ Holds(d, g)
         /\ \A g, h : Earlier(w, g, h) => Earlier(d, g, h) \/ (h = f /\ Holds(d, g))
         /\ NamesOnce(d) => NamesOnce(w)
         /\ \A g : Holds(d, g) /\ Spared(g, f, left) => Holds(w, g)
         /\ \A g, h : Earlier(d, g, h) /\ Spared(g, f, left) /\ Spared(h, f, left) => Earlier(w, g, h)
         /\ left = "complete" => Holds(w, f) /\ \A g : Holds(d, g) /\ g.name # f.name => Earlier(w, g, f)
<1> DEFINE r == Without(d, f.name)
<1>1. /\ r \in Seq(File)
      /\ \A g : Holds(r, g) <=> Holds(d, g) /\ g.name # f.name
      /\ \A g, h : Earlier(r, g, h) <=> Earlier(d, g, h) /\ g.name # f.name /\ h.name # f.name
  BY WithoutFacts
<1>4. NamesOnce(d) => NamesOnce(r)
  BY <1>1, NamesOnceFacts
<1> HIDE DEF r
<1>5. CASE left = "absent"
  <2>1. w = d
    BY <1>5 DEF Written
  <2> QED
    BY <1>5, <2>1
<1>6. CASE left = "cut"
  <2>1. w = r
    BY <1>6 DEF Written, r
  <2> QED
    BY <1>1, <1>4, <1>6, <2>1 DEF Spared
<1>7. CASE left = "complete"
  <2>1. w = Append(r, f)
    BY <1>7 DEF Written, r
  <2>2. /\ w \in Seq(File) /\ Len(r) \in Nat /\ DOMAIN r = 1..Len(r) /\ DOMAIN w = 1..(Len(r) + 1)
        /\ w[Len(r) + 1] = f /\ \A i \in 1..Len(r) : w[i] = r[i]
    BY <1>1, <2>1
  <2>3. \A g : Holds(w, g) <=> g = f \/ Holds(r, g)
    BY <2>2 DEF Holds
  <2>4. \A g, h : Earlier(w, g, h) <=> Earlier(r, g, h) \/ (h = f /\ Holds(r, g))
    <3> TAKE g, h
    <3>1. ASSUME Earlier(r, g, h) PROVE Earlier(w, g, h)
      BY <2>2, <3>1 DEF Earlier
    <3>2. ASSUME h = f, Holds(r, g) PROVE Earlier(w, g, h)
      BY <2>2, <3>2 DEF Earlier, Holds
    <3>3. ASSUME Earlier(w, g, h) PROVE Earlier(r, g, h) \/ (h = f /\ Holds(r, g))
      <4>1. PICK i, j \in DOMAIN w : i < j /\ w[i] = g /\ w[j] = h
        BY <3>3 DEF Earlier
      <4>2. i \in DOMAIN r /\ r[i] = g
        BY <2>2, <4>1
      <4>3. j = Len(r) + 1 \/ j \in DOMAIN r
        BY <2>2
      <4> QED
        BY <2>2, <4>1, <4>2, <4>3 DEF Earlier, Holds
    <3> QED
      BY <3>1, <3>2, <3>3
  <2>5. NamesOnce(d) => NamesOnce(w)
    BY <1>1, <1>4, <2>2, <2>4, NamesOnceFacts
  <2>6. \A g, h : Earlier(w, g, h) => Earlier(d, g, h) \/ (h = f /\ Holds(d, g))
    BY <1>1, <2>4
  <2>7. /\ \A g : Holds(d, g) /\ Spared(g, f, left) => Holds(w, g)
        /\ \A g, h : Earlier(d, g, h) /\ Spared(g, f, left) /\ Spared(h, f, left) => Earlier(w, g, h)
    BY <1>1, <1>7, <2>3, <2>4 DEF Spared
  <2>8. Holds(w, f) /\ \A g : Holds(d, g) /\ g.name # f.name => Earlier(w, g, f)
    BY <1>1, <2>3, <2>4
  <2>9. \A g : Holds(w, g) => g = f \/ Holds(d, g)
    BY <1>1, <2>3
  <2> QED
    BY <1>7, <2>2, <2>5, <2>6, <2>7, <2>8, <2>9
<1> QED
  BY <1>5, <1>6, <1>7 DEF Left

(* Several files are written when the process ends.                         *)
WriteLeft(file, d, left) == Written(d, file, left[file])
Writes == INSTANCE FoldProofs WITH Op <- WriteLeft, Pick <- AnyOf

LEMMA WrittenIsFold ==
  ASSUME NEW S, NEW d, NEW left
  PROVE  FoldSet(LAMBDA file, e : Written(e, file, left[file]), d, S) = Writes!Fold(S, d, left)
BY DEF FoldSet, MapThenFoldSet, Writes!Fold, Writes!Unfolds, WriteLeft, AnyOf

LEMMA WritesKeep ==
  ASSUME NEW S \in SUBSET File, IsFiniteSet(S), NEW left \in [S -> Left], NEW d,
         NEW V, V \subseteq Seq(File), d \in V,
         \A f \in S, v \in V : Written(v, f, left[f]) \in V
  PROVE  Writes!Fold(S, d, left) \in V
<1>1. Writes!IsFiniteSet(S) /\ Writes!Picks(S)
  BY DEF IsFiniteSet, Writes!IsFiniteSet, Writes!Picks, AnyOf
<1>2. Writes!Closed(S, V, left)
  BY DEF Writes!Closed, WriteLeft
<1> QED
  BY <1>1, <1>2, Writes!FoldClosed

LEMMA AllWrittenFacts ==
  ASSUME NEW S \in SUBSET File, IsFiniteSet(S), NEW left \in [S -> Left], NEW d \in Seq(File),
         NEW w, w = Writes!Fold(S, d, left)
  PROVE  /\ w \in Seq(File)
         /\ \A g : Holds(w, g) => g \in S \/ Holds(d, g)
         /\ \A g, h : Earlier(w, g, h) =>
              Earlier(d, g, h) \/ (h \in S /\ (g \in S \/ Holds(d, g)))
         /\ NamesOnce(d) => NamesOnce(w)
         /\ \A g : Holds(d, g) /\ (\A f \in S : Spared(g, f, left[f])) => Holds(w, g)
         /\ \A g, h : Earlier(d, g, h) /\ (\A f \in S : Spared(g, f, left[f]) /\ Spared(h, f, left[f]))
                       => Earlier(w, g, h)
<1>1. w \in {v \in Seq(File) :
              /\ \A i \in DOMAIN v : v[i] \in S \/ Holds(d, v[i])
              /\ \A i, j \in DOMAIN v : i < j =>
                   Earlier(d, v[i], v[j]) \/ (v[j] \in S /\ (v[i] \in S \/ Holds(d, v[i])))}
  <2> DEFINE V == {v \in Seq(File) :
              /\ \A i \in DOMAIN v : v[i] \in S \/ Holds(d, v[i])
              /\ \A i, j \in DOMAIN v : i < j =>
                   Earlier(d, v[i], v[j]) \/ (v[j] \in S /\ (v[i] \in S \/ Holds(d, v[i])))}
  <2>1. d \in V
    BY DEF Holds, Earlier
  <2>2. ASSUME NEW v \in Seq(File)
        PROVE  v \in V <=> /\ \A g : Holds(v, g) => g \in S \/ Holds(d, g)
                           /\ \A g, h : Earlier(v, g, h) =>
                                Earlier(d, g, h) \/ (h \in S /\ (g \in S \/ Holds(d, g)))
    <3>1. (\A g : Holds(v, g) => g \in S \/ Holds(d, g))
            <=> \A i \in DOMAIN v : v[i] \in S \/ Holds(d, v[i])
      BY DEF Holds
    <3>2. (\A g, h : Earlier(v, g, h) => Earlier(d, g, h) \/ (h \in S /\ (g \in S \/ Holds(d, g))))
            <=> \A i, j \in DOMAIN v : i < j =>
                   Earlier(d, v[i], v[j]) \/ (v[j] \in S /\ (v[i] \in S \/ Holds(d, v[i])))
      <4> DEFINE P(g, h) == Earlier(d, g, h) \/ (h \in S /\ (g \in S \/ Holds(d, g)))
      <4> HIDE DEF P
      <4>1. (\A g, h : Earlier(v, g, h) => P(g, h)) <=> \A i, j \in DOMAIN v : i < j => P(v[i], v[j])
        BY Zenon DEF Earlier
      <4> QED
        BY <4>1 DEF P
    <3> QED
      BY <3>1, <3>2
  <2>3. ASSUME NEW f \in S, NEW v \in V PROVE Written(v, f, left[f]) \in V
    <3> DEFINE u == Written(v, f, left[f])
    <3>0. v \in Seq(File) /\ f \in File /\ left[f] \in Left
      OBVIOUS
    <3> HIDE DEF V
    <3>1. /\ u \in Seq(File)
          /\ \A g : Holds(u, g) => g = f \/ Holds(v, g)
          /\ \A g, h : Earlier(u, g, h) => Earlier(v, g, h) \/ (h = f /\ Holds(v, g))
      BY <3>0, WrittenFacts
    <3> HIDE DEF u
    <3>2. /\ \A g : Holds(v, g) => g \in S \/ Holds(d, g)
          /\ \A g, h : Earlier(v, g, h) => Earlier(d, g, h) \/ (h \in S /\ (g \in S \/ Holds(d, g)))
      BY <2>2, <3>0
    <3>3. /\ \A g : Holds(u, g) => g \in S \/ Holds(d, g)
          /\ \A g, h : Earlier(u, g, h) => Earlier(d, g, h) \/ (h \in S /\ (g \in S \/ Holds(d, g)))
      BY <3>1, <3>2
    <3> QED
      BY <2>2, <3>1, <3>3 DEF u
  <2>4. V \subseteq Seq(File)
    OBVIOUS
  <2> HIDE DEF V
  <2>5. w \in V
    BY <2>1, <2>3, <2>4, WritesKeep
  <2> QED
    BY <2>5 DEF V
<1>2. w \in Seq(File)
  BY <1>1
<1>3. (\A g : Holds(w, g) => g \in S \/ Holds(d, g))
      /\ \A g, h : Earlier(w, g, h) => Earlier(d, g, h) \/ (h \in S /\ (g \in S \/ Holds(d, g)))
  <2>1. /\ \A i \in DOMAIN w : w[i] \in S \/ Holds(d, w[i])
        /\ \A i, j \in DOMAIN w : i < j =>
             Earlier(d, w[i], w[j]) \/ (w[j] \in S /\ (w[i] \in S \/ Holds(d, w[i])))
    BY <1>1
  <2>2. ASSUME NEW g, NEW h, Earlier(w, g, h)
        PROVE  Earlier(d, g, h) \/ (h \in S /\ (g \in S \/ Holds(d, g)))
    <3>1. PICK i, j \in DOMAIN w : i < j /\ w[i] = g /\ w[j] = h
      BY <2>2 DEF Earlier
    <3>2. Earlier(d, w[i], w[j]) \/ (w[j] \in S /\ (w[i] \in S \/ Holds(d, w[i])))
      BY <2>1, <3>1
    <3> QED
      BY <3>1, <3>2
  <2>3. ASSUME NEW g, Holds(w, g) PROVE g \in S \/ Holds(d, g)
    BY <2>1, <2>3 DEF Holds
  <2> QED
    BY <2>2, <2>3
<1>4. ASSUME NamesOnce(d) PROVE NamesOnce(w)
  <2> DEFINE V == {v \in Seq(File) : NamesOnce(v)}
  <2>1. d \in V
    BY <1>4
  <2>2. \A f \in S, v \in V : Written(v, f, left[f]) \in V
    <3> TAKE f \in S, v \in V
    <3>1. v \in Seq(File) /\ NamesOnce(v) /\ f \in File /\ left[f] \in Left
      OBVIOUS
    <3>2. Written(v, f, left[f]) \in Seq(File) /\ NamesOnce(Written(v, f, left[f]))
      BY <3>1, WrittenFacts
    <3> QED
      BY <3>2
  <2>3. V \subseteq Seq(File)
    OBVIOUS
  <2> HIDE DEF V
  <2>4. w \in V
    BY <2>1, <2>2, <2>3, WritesKeep
  <2> QED
    BY <2>4 DEF V
<1>5. ASSUME NEW g, Holds(d, g), \A f \in S : Spared(g, f, left[f]) PROVE Holds(w, g)
  <2> DEFINE V == {v \in Seq(File) : Holds(v, g)}
  <2>1. d \in V
    BY <1>5
  <2>2. \A f \in S, v \in V : Written(v, f, left[f]) \in V
    <3> TAKE f \in S, v \in V
    <3>1. v \in Seq(File) /\ Holds(v, g) /\ f \in File /\ left[f] \in Left
      OBVIOUS
    <3>2. Written(v, f, left[f]) \in Seq(File) /\ Holds(Written(v, f, left[f]), g)
      BY <1>5, <3>1, WrittenFacts
    <3> QED
      BY <3>2
  <2>3. V \subseteq Seq(File)
    OBVIOUS
  <2> HIDE DEF V
  <2>4. w \in V
    BY <2>1, <2>2, <2>3, WritesKeep
  <2> QED
    BY <2>4 DEF V
<1>6. ASSUME NEW g, NEW h, Earlier(d, g, h),
             \A f \in S : Spared(g, f, left[f]) /\ Spared(h, f, left[f])
      PROVE  Earlier(w, g, h)
  <2> DEFINE V == {v \in Seq(File) : Earlier(v, g, h)}
  <2>1. d \in V
    BY <1>6
  <2>2. \A f \in S, v \in V : Written(v, f, left[f]) \in V
    <3> TAKE f \in S, v \in V
    <3>1. v \in Seq(File) /\ Earlier(v, g, h) /\ f \in File /\ left[f] \in Left
      OBVIOUS
    <3>2. Written(v, f, left[f]) \in Seq(File) /\ Earlier(Written(v, f, left[f]), g, h)
      BY <1>6, <3>1, WrittenFacts
    <3> QED
      BY <3>2
  <2>3. V \subseteq Seq(File)
    OBVIOUS
  <2> HIDE DEF V
  <2>4. w \in V
    BY <2>1, <2>2, <2>3, WritesKeep
  <2> QED
    BY <2>4 DEF V
<1> QED
  BY <1>2, <1>3, <1>4, <1>5, <1>6

-----------------------------------------------------------------------------
(* Finite sets: images, and the highest of some numbers.                    *)
LEMMA ImageFinite ==
  ASSUME NEW S, IsFiniteSet(S), NEW f, DOMAIN f = S
  PROVE  IsFiniteSet({f[x] : x \in S})
<1> DEFINE T == {f[x] : x \in S}
           g == [x \in S |-> f[x]]
<1>1. g \in [S -> T] /\ \A t \in T : \E x \in S : g[x] = t
  OBVIOUS
<1>2. g \in Surjection(S, T)
  BY <1>1 DEF Surjection
<1> HIDE DEF g, T
<1>3. IsFiniteSet(T)
  BY <1>2, FS_Surjection
<1> QED
  BY <1>3 DEF T

LEMMA MaxFacts ==
  ASSUME NEW S \in SUBSET Nat, IsFiniteSet(S), S # {}
  PROVE  Max(S) \in S /\ \A x \in S : x <= Max(S)
<1> DEFINE n == Cardinality(S)
           s == Sorted(S)
<1>1. n \in Nat /\ n # 0
  BY FS_CardinalityType, FS_EmptySet
<1>2. /\ s \in Seq(S) /\ Len(s) = n
      /\ \A i, j \in 1..n : i < j => s[i] < s[j]
      /\ \A x \in S : \E i \in 1..n : s[i] = x
  BY SortedFacts
<1> HIDE DEF n, s
<1>3. n \in 1..n /\ s[n] \in S
  BY <1>1, <1>2
<1>4. \A x \in S : s[n] >= x
  <2> TAKE x \in S
  <2>1. PICK i \in 1..n : s[i] = x
    BY <1>2
  <2>2. i = n \/ i < n
    BY <1>1
  <2>3. i < n => s[i] < s[n]
    BY <1>2, <1>3
  <2>4. x \in Nat /\ s[n] \in Nat
    BY <1>3
  <2> QED
    BY <2>1, <2>2, <2>3, <2>4
<1>5. Max(S) \in S /\ \A x \in S : Max(S) >= x
  BY <1>3, <1>4 DEF Max
<1>6. \A x \in S : x \in Nat
  OBVIOUS
<1> QED
  BY <1>5, <1>6

LEMMA StampType ==
  ASSUME NEW data \in EntryMap, NEW k \in Key
  PROVE  /\ StampOf(data[k]) \in Nat
         /\ data[k] = None => StampOf(data[k]) = 0
         /\ data[k] # None => data[k] \in Entry /\ StampOf(data[k]) = data[k].stamp
<1>1. data[k] \in Entry \cup {None}
  BY DEF EntryMap
<1>2. \A e \in Entry : e.stamp \in Nat /\ e # None
  BY NoneAssumption DEF Entry
<1> QED
  BY <1>1, <1>2 DEF StampOf

(* The newest entry of a key on the disk.                                   *)
LEMMA TopStampFacts ==
  ASSUME NEW d \in Seq(File), NEW k \in Key
  PROVE  /\ TopStamp(d, k) \in Nat
         /\ \A f : Holds(d, f) => StampOf(f.data[k]) <= TopStamp(d, k)
         /\ TopStamp(d, k) > 0 => \E f : Holds(d, f) /\ StampOf(f.data[k]) = TopStamp(d, k)
<1> DEFINE g == [i \in DOMAIN d |-> StampOf(d[i].data[k])]
           T == {g[i] : i \in DOMAIN d}
           S == {0} \cup T
<1>1. DOMAIN d = 1..Len(d) /\ IsFiniteSet(1..Len(d)) /\ Len(d) \in Nat
  BY FS_Interval
<1>2. IsFiniteSet(T)
  BY <1>1, ImageFinite
<1>3. IsFiniteSet(S)
  <2> HIDE DEF T
  <2> QED
    BY <1>2, FS_Singleton, FS_Union
<1>4. \A i \in DOMAIN d : d[i].data \in EntryMap /\ g[i] \in Nat
  <2> TAKE i \in DOMAIN d
  <2>1. d[i] \in File
    OBVIOUS
  <2>2. d[i].data \in EntryMap
    BY <2>1 DEF File
  <2> QED
    BY <2>2, StampType
<1>5. S \in SUBSET Nat /\ S # {}
  <2> HIDE DEF g
  <2> QED
    BY <1>4
<1>6. S = {0} \cup {StampOf(d[i].data[k]) : i \in DOMAIN d}
  OBVIOUS
<1>7. TopStamp(d, k) = Max(S)
  BY <1>6 DEF TopStamp
<1>8. /\ \A i \in DOMAIN d : StampOf(d[i].data[k]) \in S
      /\ \A x \in S : x = 0 \/ \E i \in DOMAIN d : StampOf(d[i].data[k]) = x
  BY <1>6
<1> HIDE DEF S, T, g
<1>9. Max(S) \in S /\ \A x \in S : x <= Max(S)
  BY <1>3, <1>5, MaxFacts
<1>10. Max(S) \in Nat
  BY <1>5, <1>9
<1> QED
  BY <1>7, <1>8, <1>9, <1>10 DEF Holds

-----------------------------------------------------------------------------
(* What every step needs to know besides the types: nothing in a file or in *)
(* a merged table was not written by somebody, and while no process runs    *)
(* memory is as the next one finds it.                                      *)
AsleepInMemory ==
  /\ cpc = "tick" /\ memtable = 1 /\ heap = <<NewMemTable(0)>> /\ immutable_memtables = <<>>
  /\ ~closed /\ \A c \in Client : pc[c] = "idle" /\ hand[c] = <<>>
DiskStamped == \A i \in DOMAIN disk : Stamped(disk[i].data)
InputsStamped == \A a \in DOMAIN Inputs : Stamped(Inputs[a])

BaseInv ==
  /\ WorkInv /\ RecoveryTypeOK
  /\ DiskStamped /\ InputsStamped
  /\ ~up => AsleepInMemory

(* A file is written, or the process ends while it is.                      *)
WritesFile(f, left) ==
  /\ disk' = Written(disk, f, left)
  /\ second' \in 0..MaxSecond
  /\ clobbered' = (left # "absent" /\ Exists(f.name))
  /\ stored' = IF left = "complete" THEN Higher(Stamps(f.data), stored) ELSE stored

LEMMA WriteFileFacts ==
  ASSUME RecoveryTypeOK, NEW l \in Level, NEW n \in Nat, NEW data \in EntryMap,
         NEW r, NEW left, NEW s \in 0..MaxSecond, WriteFile(l, n, data, r, left, s),
         NEW f, f = [name |-> NewName(l, s, n), data |-> data]
  PROVE  /\ f \in File /\ f.data = data /\ f.name = NewName(l, s, n) /\ f.name.level = l
         /\ left \in Left /\ (r = "ok" => left = "complete") /\ WritesFile(f, left)
<1>1. NewName(l, s, n) \in FileName /\ NewName(l, s, n).level = l
  BY DEF NewName, FileName
<1>2. f \in File /\ f.data = data /\ f.name = NewName(l, s, n)
  BY <1>1 DEF File
<1>3. left \in Left /\ (r = "ok" => left = "complete")
  BY DEF WriteFile, Left
<1>4. second' \in 0..MaxSecond
  BY DEF WriteFile, RecoveryTypeOK
<1> QED
  BY <1>1, <1>2, <1>3, <1>4 DEF WriteFile, WritesFile

(* The flush of a memtable to its file.                                     *)
FileOf(m, s) == [name |-> NewName(0, s, heap[m].next_sequence), data |-> heap[m].data]
Flushes(c, m, r, left, s) ==
  /\ m = hand[c][1] /\ m \in InHand(c) /\ FlushStep(c) /\ FlushMemtable(m, r)
  /\ \/ heap[m].count = 0 /\ UNCHANGED files
     \/ /\ heap[m].count # 0 /\ FileOf(m, s) \in File /\ left \in Left
        /\ (r = "ok" => left = "complete") /\ WritesFile(FileOf(m, s), left)
        /\ names' = IF r = "ok" THEN [names EXCEPT ![0] = Append(@, FileOf(m, s).name)] ELSE names
        /\ UNCHANGED <<inputs, made_names>>

LEMMA FlushedFacts ==
  ASSUME Shape, RecoveryTypeOK, NEW c \in Client, NEW r \in FlushResults \cup {"ok"},
         NEW left \in Left, NEW s \in 0..MaxSecond, FlushToFile(c, r, left, s),
         NEW m, m = hand[c][1]
  PROVE  m \in Ids /\ Flushes(c, m, r, left, s)
<1>0. 0 \in Level
  BY StorageEngineAssumption DEF Level
<1>1. FlushStep(c) /\ FlushMemtable(m, r)
  BY DEF FlushToFile, FlushStep, Flush, DrainFlush, CloseFlush
<1>2. pc[c] \in {"flush", "drain_flush", "clone_flush"}
  BY DEF FlushToFile, Flush, DrainFlush, CloseFlush
<1>3. hand[c] \in Seq(Ids) /\ (Len(hand[c]) = 1 \/ hand[c] # <<>>)
  BY <1>2 DEF Shape, TypeOK, HandShape
<1>4. m \in Ids /\ m \in InHand(c)
  <2>1. 1 \in DOMAIN hand[c]
    BY <1>3
  <2> QED
    BY <1>3, <2>1 DEF InHand
<1>5. heap[m] \in MemTableRec
  BY <1>4 DEF Shape, TypeOK, Ids
<1>6. heap[m].data \in EntryMap /\ heap[m].next_sequence \in Nat /\ heap[m].count \in Nat
  BY <1>5 DEF MemTableRec
<1>7. FlushFile(m, r, left, s)
  BY DEF FlushToFile
<1>8. CASE heap[m].count = 0
  BY <1>1, <1>4, <1>7, <1>8 DEF FlushFile, Flushes
<1>9. CASE heap[m].count # 0
  <2>1. /\ WriteFile(0, heap[m].next_sequence, heap[m].data, r, left, s)
        /\ names' = IF r = "ok" THEN [names EXCEPT ![0] = Append(@, NewName(0, s, heap[m].next_sequence))]
                                ELSE names
        /\ UNCHANGED <<inputs, made_names>>
    BY <1>7, <1>9 DEF FlushFile
  <2>2. /\ FileOf(m, s) \in File /\ FileOf(m, s).name = NewName(0, s, heap[m].next_sequence)
        /\ (r = "ok" => left = "complete") /\ WritesFile(FileOf(m, s), left)
    BY <1>0, <1>6, <2>1, WriteFileFacts DEF FileOf
  <2> QED
    BY <1>1, <1>4, <1>9, <2>1, <2>2 DEF Flushes
<1> QED
  BY <1>4, <1>8, <1>9

(* The file of a new table of compaction.                                   *)
LEMMA MadeFacts ==
  ASSUME WorkInv, RecoveryTypeOK, cpc = "create", NEW s \in 0..MaxSecond, NEW f, f = MadeFile(s)
  PROVE  /\ f \in File /\ f.name.level = level + 1 /\ f.data = Head(todo) /\ Stamped(f.data)
         /\ f.name = NewName(level + 1, s, sequence_counter)
         /\ \A k \in KeysOf(f.data) : \E t \in TableIndex :
              k \in KeysOf(sstables[t[1]][t[2]]) /\ f.data[k] = sstables[t[1]][t[2]][k]
<1> DEFINE rows == MergeOf(Inputs)
           tables == Split(rows)
           n == Len(made)
<1>1. /\ todo \in Seq(EntryMap) /\ todo # <<>> /\ made \in Seq(EntryMap)
      /\ made \o todo = tables /\ sequence_counter \in Nat /\ level + 1 \in Level
      /\ snapshot.from \in Seq(EntryMap) /\ snapshot.to \in Seq(EntryMap)
  BY DEF WorkInv, WorkShape, CompactorTypeOK, Shape, TypeOK
<1>2. Inputs \in Seq(EntryMap) /\ rows \in EntryMap
  BY <1>1, ConcatProperties, MergeOfFacts DEF Inputs
<1>3. SplitsRows(tables, rows)
  BY <1>2, SplitFacts
<1>4. Head(todo) = todo[1] /\ 1 \in 1..Len(todo) /\ Len(todo) \in Nat /\ n \in Nat /\ Head(todo) \in EntryMap
  BY <1>1
<1>5. n + 1 \in DOMAIN tables /\ tables[n + 1] = Head(todo)
  <2>1. /\ Len(made \o todo) = n + Len(todo) /\ made \o todo \in Seq(EntryMap)
        /\ \A i \in 1..(n + Len(todo)) : (made \o todo)[i] = IF i <= n THEN made[i] ELSE todo[i - n]
    BY <1>1, ConcatProperties
  <2>2. n + 1 \in 1..(n + Len(todo)) /\ ~(n + 1 <= n) /\ (n + 1) - n = 1
    BY <1>4
  <2>3. (made \o todo)[n + 1] = todo[1] /\ n + 1 \in DOMAIN (made \o todo)
    BY <2>1, <2>2
  <2> QED
    BY <1>1, <1>4, <2>3
<1> HIDE DEF rows, tables, n
<1>6. PartOf(Head(todo), LiveKeys(rows), rows)
  BY <1>3, <1>5 DEF SplitsRows
<1>7. ASSUME NEW k \in KeysOf(Head(todo))
      PROVE  \E t \in TableIndex : /\ k \in KeysOf(sstables[t[1]][t[2]])
                                   /\ Head(todo)[k] = sstables[t[1]][t[2]][k]
                                   /\ sstables[t[1]][t[2]][k].stamp > 0
  <2>1. k \in KeysOf(rows) /\ Head(todo)[k] = rows[k] /\ k \in Key /\ rows[k] # None
    BY <1>6 DEF PartOf, LiveKeys, KeysOf
  <2>2. PICK a \in DOMAIN Inputs : rows[k] = Inputs[a][k]
    BY <1>2, <2>1, MergeOfFacts DEF rows
  <2>3. PICK t \in TableIndex : Inputs[a] = sstables[t[1]][t[2]]
    BY InputsAreTables
  <2>4. k \in KeysOf(sstables[t[1]][t[2]]) /\ Head(todo)[k] = sstables[t[1]][t[2]][k]
    BY <2>1, <2>2, <2>3 DEF KeysOf
  <2>5. sstables[t[1]][t[2]][k].stamp > 0
    BY <2>4 DEF WorkInv, AllStamped, Stamped
  <2> QED
    BY <2>4, <2>5
<1>8. NewName(level + 1, s, sequence_counter) \in FileName
  BY <1>1 DEF NewName, FileName
<1>9. f \in File /\ f.data = Head(todo) /\ f.name = NewName(level + 1, s, sequence_counter)
  BY <1>4, <1>8 DEF MadeFile, File
<1> QED
  BY <1>7, <1>9 DEF NewName, Stamped

LEMMA CreatedFacts ==
  ASSUME WorkInv, RecoveryTypeOK, NEW r, NEW left, NEW s \in 0..MaxSecond, CreateFile(r, left, s),
         NEW f, f = MadeFile(s)
  PROVE  /\ f \in File /\ f.name.level = level + 1 /\ f.data = Head(todo) /\ Stamped(f.data)
         /\ left \in Left /\ (r = "ok" => left = "complete") /\ WritesFile(f, left)
<1>1. cpc = "create" /\ WriteFile(level + 1, sequence_counter, Head(todo), r, left, s)
  BY DEF CreateFile, CreateTable
<1>2. /\ f \in File /\ f.name.level = level + 1 /\ f.data = Head(todo) /\ Stamped(f.data)
  BY <1>1, MadeFacts
<1>3. level + 1 \in Level /\ sequence_counter \in Nat /\ Head(todo) \in EntryMap
  BY <1>2 DEF WorkInv, CompactorTypeOK, Shape, TypeOK, File
<1> QED
  BY <1>1, <1>2, <1>3, WriteFileFacts DEF MadeFile

(* The steps of the running process; on the memory and the tables they are  *)
(* steps of Compaction.                                                     *)
AnyResult == FlushResults \cup {"ok"}
RunningStep ==
  \/ \E c \in Client, r \in AnyResult, left \in Left, s \in 0..MaxSecond : FlushToFile(c, r, left, s)
  \/ \E r \in AnyResult, left \in Left, s \in 0..MaxSecond : CreateFile(r, left, s)
  \/ \E r \in AnyResult : CloneFiles(r)
  \/ \E r \in AnyResult : DeleteFile(r)
  \/ InstallFiles
  \/ Deleted /\ inputs = <<>> /\ UNCHANGED files
  \/ (Tick \/ CountLevel0 \/ MeasureLevel) /\ UNCHANGED files
  \/ \E c \in Client : (Invoke(c) \/ LockStep(c) \/ FreeStep(c)) /\ UNCHANGED <<compactor, files>>
AnyCrash == \E s \in 0..MaxSecond : \E left \in [UnderWay(s) -> Left] : Crash(s, left)

LEMMA RecoverySteps ==
  ASSUME RecoveryNext
  PROVE  (Running /\ RunningStep) \/ AnyCrash \/ Open
BY DEF RecoveryNext, ClientStep, CompactorStep, RunningStep, AnyCrash, AnyResult

LEMMA RunningIsCompaction ==
  ASSUME RunningStep
  PROVE  [CompactionNext]_cvars
<1>1. ASSUME NEW c \in Client, NEW r \in FlushResults \cup {"ok"}, NEW left, NEW s, FlushToFile(c, r, left, s)
      PROVE  CompactionNext
  BY <1>1 DEF FlushToFile, CompactionNext, Next, FlushStep
<1>2. ASSUME NEW r \in FlushResults \cup {"ok"}, NEW left, NEW s, CreateFile(r, left, s)
      PROVE  CompactionNext
  BY <1>2 DEF CreateFile, CompactionNext, Compact
<1>3. ASSUME NEW r \in FlushResults \cup {"ok"}, CloneFiles(r) PROVE CompactionNext
  BY <1>3 DEF CloneFiles, CompactionNext, Compact
<1>4. ASSUME NEW r, DeleteFile(r) PROVE UNCHANGED cvars
  BY <1>4 DEF DeleteFile
<1>5. ASSUME InstallFiles PROVE CompactionNext
  BY <1>5 DEF InstallFiles, CompactionNext, Compact
<1>6. ASSUME Deleted \/ Tick \/ CountLevel0 \/ MeasureLevel PROVE CompactionNext
  BY <1>6 DEF CompactionNext, Compact
<1>7. ASSUME NEW c \in Client, Invoke(c) \/ LockStep(c) \/ FreeStep(c), UNCHANGED compactor PROVE CompactionNext
  BY <1>7 DEF CompactionNext, Next
<1> QED
  BY <1>1, <1>2, <1>3, <1>4, <1>5, <1>6, <1>7 DEF RunningStep, AnyResult

-----------------------------------------------------------------------------
(* The steps keep the types.                                                *)
LEMMA StampsType ==
  ASSUME NEW data \in EntryMap, stored \in [Key -> Nat]
  PROVE  /\ Higher(Stamps(data), stored) \in [Key -> Nat]
         /\ \A k \in Key : /\ Higher(Stamps(data), stored)[k] >= stored[k]
                           /\ Higher(Stamps(data), stored)[k] >= StampOf(data[k])
                           /\ Higher(Stamps(data), stored)[k] \in {stored[k], StampOf(data[k])}
<1>1. \A k \in Key : StampOf(data[k]) \in Nat /\ stored[k] \in Nat
  BY StampType
<1>2. \A k \in Key : Stamps(data)[k] = StampOf(data[k])
  BY DEF Stamps
<1>3. \A k \in Key : Higher(Stamps(data), stored)[k] =
                       IF StampOf(data[k]) >= stored[k] THEN StampOf(data[k]) ELSE stored[k]
  BY <1>2 DEF Higher
<1>4. \A k \in Key : /\ Higher(Stamps(data), stored)[k] >= stored[k]
                     /\ Higher(Stamps(data), stored)[k] >= StampOf(data[k])
                     /\ Higher(Stamps(data), stored)[k] \in {stored[k], StampOf(data[k])}
  BY <1>1, <1>3
<1>5. Higher(Stamps(data), stored) \in [Key -> Nat]
  BY <1>1, <1>2 DEF Higher
<1> QED
  BY <1>4, <1>5

LEMMA StampedFiles ==
  DiskStamped <=> \A f : Holds(disk, f) => Stamped(f.data)
BY DEF DiskStamped, Holds

(* A step that changes the disk and what goes with it, and nothing else.    *)
LEMMA WritesFileBase ==
  ASSUME RecoveryTypeOK, DiskStamped, NEW f \in File, Stamped(f.data), NEW left \in Left,
         WritesFile(f, left)
  PROVE  /\ disk' \in Seq(File) /\ second' \in 0..MaxSecond /\ clobbered' \in BOOLEAN
         /\ stored' \in [Key -> Nat] /\ DiskStamped'
<1>1. disk \in Seq(File) /\ f.data \in EntryMap /\ stored \in [Key -> Nat]
  BY DEF RecoveryTypeOK, File
<1>2. PICK d : d = disk
  OBVIOUS
<1>3. PICK w : w = Written(d, f, left) /\ w = disk'
  BY <1>2 DEF WritesFile
<1>4. w \in Seq(File) /\ \A g : Holds(w, g) => g = f \/ Holds(d, g)
  BY <1>1, <1>2, <1>3, WrittenFacts
<1>5. \A g : Holds(w, g) => Stamped(g.data)
  BY <1>2, <1>4, StampedFiles
<1>6. DiskStamped'
  BY <1>3, <1>5 DEF DiskStamped, Stamped, Holds
<1>7. stored' \in [Key -> Nat]
  BY <1>1, StampsType DEF WritesFile
<1> QED
  BY <1>3, <1>4, <1>6, <1>7 DEF WritesFile

LEMMA NamesConcat ==
  ASSUME RecoveryTypeOK, CompactorTypeOK
  PROVE  /\ names[level] \in Seq(FileName) /\ names[level + 1] \in Seq(FileName)
         /\ names[level] \o names[level + 1] \in Seq(FileName)
<1>1. names[level] \in Seq(FileName) /\ names[level + 1] \in Seq(FileName)
  BY DEF RecoveryTypeOK, CompactorTypeOK
<1> QED
  BY <1>1, ConcatProperties

LEMMA SnapshotTables ==
  WorkInv /\ cpc \in {"create", "install"} =>
    \A a \in DOMAIN Inputs : \E i \in TableIndex : Inputs[a] = sstables[i[1]][i[2]]
BY InputsAreTables

LEMMA InputsStep ==
  ASSUME WorkInv, InputsStamped, [CompactionNext]_cvars
  PROVE  InputsStamped'
<1>1. CASE UNCHANGED snapshot
  BY <1>1 DEF InputsStamped, Inputs
<1>2. CASE snapshot' = NoSnapshot
  <2>1. Inputs' = <<>>
    BY <1>2 DEF Inputs, NoSnapshot
  <2> QED
    BY <2>1 DEF InputsStamped
<1>3. CASE cpc = "clone" /\ cpc' \in {"create", "install"} /\ UNCHANGED vars
  <2>1. WorkInv'
    BY WorkInvStep
  <2>2. \A a \in DOMAIN Inputs' : \E i \in TableIndex' : Inputs'[a] = sstables'[i[1]][i[2]]
    <3>1. (\A a \in DOMAIN Inputs : \E i \in TableIndex : Inputs[a] = sstables[i[1]][i[2]])'
      <4>1. (WorkInv /\ cpc \in {"create", "install"} =>
               \A a \in DOMAIN Inputs : \E i \in TableIndex : Inputs[a] = sstables[i[1]][i[2]])'
        BY SnapshotTables, PTL
      <4> QED
        BY <1>3, <2>1, <4>1
    <3> QED
      BY <3>1
  <2> QED
    BY <2>1, <2>2 DEF WorkInv, AllStamped, InputsStamped, Stamped
<1>4. \/ UNCHANGED snapshot \/ snapshot' = NoSnapshot
      \/ cpc = "clone" /\ cpc' \in {"create", "install"} /\ UNCHANGED vars
  BY DEF CompactionNext, Compact, Tick, CountLevel0, MeasureLevel, Deleted, Install, CloneAndMerge,
         CreateTable, NextLevel, GiveUp, compactor, cvars
<1> QED
  BY <1>1, <1>2, <1>3, <1>4

LEMMA RunningBase ==
  ASSUME BaseInv, Running, RunningStep
  PROVE  BaseInv'
<1>0. /\ WorkInv /\ RecoveryTypeOK /\ DiskStamped /\ InputsStamped /\ Shape /\ CompactorTypeOK
      /\ up' /\ UNCHANGED crashes
  BY DEF BaseInv, WorkInv, Running, process
<1>1. [CompactionNext]_cvars
  BY RunningIsCompaction
<1>2. WorkInv' /\ InputsStamped'
  BY <1>0, <1>1, WorkInvStep, InputsStep
<1>3. up' \in BOOLEAN /\ crashes' \in 0..MaxCrashes
  BY <1>0 DEF RecoveryTypeOK
<1> DEFINE DiskGood == /\ disk' \in Seq(File) /\ second' \in 0..MaxSecond /\ clobbered' \in BOOLEAN
                       /\ stored' \in [Key -> Nat] /\ DiskStamped'
           NamesGood == /\ names' \in [Level -> Seq(FileName)]
                        /\ inputs' \in Seq(FileName) /\ made_names' \in Seq(FileName)
<1>4. UNCHANGED <<disk, second, clobbered, stored>> => DiskGood
  BY <1>0 DEF RecoveryTypeOK, DiskStamped
<1>5. UNCHANGED <<names, inputs, made_names>> => NamesGood
  BY <1>0 DEF RecoveryTypeOK
<1>6. ASSUME NEW c \in Client, NEW r \in AnyResult, NEW left \in Left, NEW s \in 0..MaxSecond,
             FlushToFile(c, r, left, s)
      PROVE  DiskGood /\ NamesGood
  <2>1. PICK m \in Ids : Flushes(c, m, r, left, s)
    BY <1>0, <1>6, FlushedFacts DEF AnyResult
  <2>2. CASE heap[m].count = 0 /\ UNCHANGED files
    BY <1>4, <1>5, <2>2 DEF files
  <2>3. CASE heap[m].count # 0
    <3>1. /\ FileOf(m, s) \in File /\ WritesFile(FileOf(m, s), left)
          /\ names' = IF r = "ok" THEN [names EXCEPT ![0] = Append(@, FileOf(m, s).name)] ELSE names
          /\ UNCHANGED <<inputs, made_names>>
      BY <2>1, <2>3 DEF Flushes
    <3>2. Stamped(FileOf(m, s).data)
      BY <1>0 DEF WorkInv, AllStamped, FileOf
    <3>3. DiskGood
      BY <1>0, <3>1, <3>2, WritesFileBase
    <3>4. FileOf(m, s).name \in FileName
      BY <3>1 DEF File
    <3>5. names' \in [Level -> Seq(FileName)]
      <4>1. names \in [Level -> Seq(FileName)] /\ 0 \in Level
        BY <1>0, StorageEngineAssumption DEF RecoveryTypeOK, Level
      <4>2. PICK more : more = Append(names[0], FileOf(m, s).name)
        OBVIOUS
      <4>3. more \in Seq(FileName)
        BY <3>4, <4>1, <4>2
      <4>4. names' = names \/ names' = [names EXCEPT ![0] = more]
        BY <3>1, <4>2
      <4> QED
        BY <4>1, <4>3, <4>4
    <3> QED
      BY <1>0, <3>1, <3>3, <3>5 DEF RecoveryTypeOK
  <2> QED
    BY <2>1, <2>2, <2>3 DEF Flushes
<1>7. ASSUME NEW r \in AnyResult, NEW left \in Left, NEW s \in 0..MaxSecond, CreateFile(r, left, s)
      PROVE  DiskGood /\ NamesGood
  <2>1. PICK f : f = MadeFile(s)
    OBVIOUS
  <2>2. f \in File /\ Stamped(f.data) /\ WritesFile(f, left)
    BY <1>0, <1>7, <2>1, CreatedFacts
  <2>3. NewName(level + 1, s, sequence_counter) \in FileName
    BY <2>1, <2>2 DEF MadeFile, File
  <2>4. NamesGood
    BY <1>0, <1>7, <2>3 DEF CreateFile, RecoveryTypeOK
  <2> QED
    BY <1>0, <2>2, <2>4, WritesFileBase
<1>8. ASSUME NEW r \in AnyResult, CloneFiles(r) PROVE DiskGood /\ NamesGood
  <2>1. NamesGood
    BY <1>0, <1>8, NamesConcat DEF CloneFiles, RecoveryTypeOK
  <2> QED
    BY <1>4, <1>8, <2>1 DEF CloneFiles
<1>9. ASSUME NEW r \in AnyResult, DeleteFile(r) PROVE DiskGood /\ NamesGood
  <2>1. PICK d, w : d = disk /\ w = Without(d, Head(inputs))
    OBVIOUS
  <2>2. w \in Seq(File) /\ \A f : Holds(w, f) => Holds(d, f)
    BY <1>0, <2>1, WithoutFacts DEF RecoveryTypeOK
  <2>3. disk' \in {d, w}
    BY <1>9, <2>1 DEF DeleteFile
  <2>4. disk' \in Seq(File) /\ DiskStamped'
    <3>1. \A i \in DOMAIN disk' : Holds(disk', disk'[i])
      BY DEF Holds
    <3>2. \A i \in DOMAIN disk' : Holds(disk, disk'[i])
      BY <2>1, <2>2, <2>3, <3>1
    <3> QED
      BY <1>0, <2>1, <2>2, <2>3, <3>2, StampedFiles DEF RecoveryTypeOK, DiskStamped, Stamped
  <2>5. inputs' \in Seq(FileName)
    BY <1>0, <1>9 DEF DeleteFile, RecoveryTypeOK
  <2> QED
    BY <1>0, <1>9, <2>4, <2>5 DEF DeleteFile, RecoveryTypeOK
<1>10. ASSUME InstallFiles PROVE DiskGood /\ NamesGood
  <2>0. /\ names \in [Level -> Seq(FileName)] /\ made_names \in Seq(FileName) /\ <<>> \in Seq(FileName)
        /\ level \in Level /\ level + 1 \in Level
    BY <1>0 DEF RecoveryTypeOK, CompactorTypeOK
  <2>1. NamesGood
    BY <1>0, <1>10, <2>0 DEF InstallFiles, RecoveryTypeOK
  <2> QED
    BY <1>4, <1>10, <2>1 DEF InstallFiles
<1>11. ASSUME UNCHANGED files PROVE DiskGood /\ NamesGood
  BY <1>4, <1>5, <1>11 DEF files
<1>12. DiskGood /\ NamesGood
  <2> HIDE DEF DiskGood, NamesGood
  <2> QED
    BY <1>6, <1>7, <1>8, <1>9, <1>10, <1>11 DEF RunningStep
<1> QED
  BY <1>0, <1>2, <1>3, <1>12 DEF BaseInv, RecoveryTypeOK

(* The files that are being written when the process ends.                  *)
LEMMA UnderWayFacts ==
  ASSUME IsFiniteSet(Client), WorkInv, RecoveryTypeOK, NEW s \in 0..MaxSecond
  PROVE  /\ UnderWay(s) \in SUBSET File /\ IsFiniteSet(UnderWay(s))
         /\ \A f \in UnderWay(s) :
              /\ Stamped(f.data)
              /\ \/ cpc = "create" /\ f = MadeFile(s)
                 \/ \E c \in Client, m \in Memtables \cap Ids :
                      Flushing(c) /\ m = hand[c][1] /\ f = FileOf(m, s)
<1> DEFINE busy == {d \in Client : Flushing(d)}
           flushed == [c \in busy |-> FlushedFile(c, s)]
           flushes == {flushed[c] : c \in busy}
           creates == IF cpc = "create" THEN {MadeFile(s)} ELSE {}
<1>1. UnderWay(s) = flushes \cup creates
  <2>1. flushes = {FlushedFile(c, s) : c \in busy}
    OBVIOUS
  <2> QED
    BY <2>1 DEF UnderWay
<1>2. IsFiniteSet(flushes)
  <2>1. IsFiniteSet(busy)
    BY FS_Subset
  <2> HIDE DEF busy
  <2> QED
    BY <2>1, ImageFinite
<1>3. IsFiniteSet(creates)
  BY FS_EmptySet, FS_Singleton
<1>4. ASSUME NEW f \in flushes
      PROVE  /\ f \in File /\ Stamped(f.data)
             /\ \E c \in Client, m \in Memtables \cap Ids :
                  Flushing(c) /\ m = hand[c][1] /\ f = FileOf(m, s)
  <2>1. PICK c \in Client : Flushing(c) /\ f = FlushedFile(c, s)
    OBVIOUS
  <2>2. pc[c] \in {"flush", "drain_flush", "clone_flush"}
    BY <2>1 DEF Flushing, WorkInv, Shape, HandShape
  <2>3. hand[c] \in Seq(Ids) /\ hand[c] # <<>>
    BY <2>1 DEF Flushing, WorkInv, Shape, TypeOK, HandShape
  <2>4. PICK m \in Ids : m = hand[c][1] /\ m \in InHand(c)
    <3>1. 1 \in DOMAIN hand[c]
      BY <2>3
    <3> QED
      BY <2>3, <3>1 DEF InHand
  <2>5. m \in Memtables
    BY <2>4 DEF Memtables
  <2>6. f = FileOf(m, s)
    BY <2>1, <2>4 DEF FlushedFile, FileOf
  <2>7. heap[m] \in MemTableRec /\ Stamped(heap[m].data)
    BY DEF WorkInv, Shape, TypeOK, Ids, AllStamped
  <2>8. NewName(0, s, heap[m].next_sequence) \in FileName /\ heap[m].data \in EntryMap
    BY <2>7, StorageEngineAssumption DEF MemTableRec, NewName, FileName, Level
  <2>9. f \in File /\ Stamped(f.data)
    BY <2>6, <2>7, <2>8 DEF FileOf, File
  <2> QED
    BY <2>1, <2>4, <2>5, <2>6, <2>9
<1>5. ASSUME NEW f \in creates
      PROVE  f \in File /\ Stamped(f.data) /\ cpc = "create" /\ f = MadeFile(s)
  BY MadeFacts
<1> HIDE DEF flushes, creates
<1>6. IsFiniteSet(UnderWay(s))
  BY <1>1, <1>2, <1>3, FS_Union
<1> QED
  BY <1>1, <1>4, <1>5, <1>6

(* Memory as it is for the next process.                                    *)
Fresh ==
  /\ heap = <<NewMemTable(0)>> /\ memtable = 1 /\ immutable_memtables = <<>>
  /\ sequence_counter = 1 /\ closed = FALSE /\ imm_lock = Idle
  /\ pc = [c \in Client |-> "idle"] /\ call = [c \in Client |-> Idle]
  /\ hand = [c \in Client |-> <<>>] /\ target = [c \in Client |-> 1]
  /\ taken = [c \in Client |-> 0] /\ acc = [c \in Client |-> NoEntries]
  /\ answer = [c \in Client |-> Ok]
  /\ cpc = "tick" /\ level = 0 /\ snapshot = NoSnapshot /\ todo = <<>> /\ made = <<>>
  /\ floor = [c \in Client |-> [k \in Key |-> 0]]
  /\ dropped = {}

LEMMA FreshInv ==
  /\ Fresh /\ sstables \in [Level -> Seq(EntryMap)] /\ latest \in [Key -> Nat] /\ begun \in Nat
  /\ \A i \in TableIndex : Stamped(sstables[i[1]][i[2]])
  => WorkInv /\ InputsStamped /\ AsleepInMemory
<1> SUFFICES ASSUME Fresh, sstables \in [Level -> Seq(EntryMap)], latest \in [Key -> Nat], begun \in Nat,
                    \A i \in TableIndex : Stamped(sstables[i[1]][i[2]])
             PROVE  WorkInv /\ InputsStamped /\ AsleepInMemory
  OBVIOUS
<1> DEFINE m == NewMemTable(0)
<1>0. m \in MemTableRec /\ m.data = NoEntries /\ m.immutable = FALSE
  BY NewMemTableType
<1> HIDE DEF m
<1>1. /\ Len(heap) = 1 /\ Ids = {1}
      /\ heap[1] \in MemTableRec /\ heap \in Seq(MemTableRec)
      /\ heap[1].data = NoEntries /\ ~heap[1].immutable
  BY <1>0 DEF Fresh, Ids, m
<1>2. hand \in [Client -> Seq(Ids)] /\ immutable_memtables \in Seq(Ids)
  BY DEF Fresh
<1>3. acc \in [Client -> EntryMap] /\ answer \in [Client -> Answer]
  BY NoEntriesType, OkType DEF Fresh
<1>4. pc \in [Client -> Steps] /\ call \in [Client -> Request \cup {Idle}]
  BY DEF Fresh, Steps
<1>5. TypeOK
  BY <1>1, <1>2, <1>3, <1>4 DEF Fresh, TypeOK
<1>6. Shape
  BY <1>1, <1>5 DEF Fresh, Shape, InCall, HandShape, WritesActive, ActiveMutable, CountZeroIsEmpty
<1>7. 0 \in Level /\ 1 \in Level /\ NoSnapshot \in [from : Seq(EntryMap), to : Seq(EntryMap)]
  BY CompactionAssumption, StorageEngineAssumption DEF Level, NoSnapshot
<1>8. CompactorTypeOK /\ WorkShape /\ SnapshotStands
  BY <1>7 DEF Fresh, CompactorTypeOK, WorkShape, SnapshotStands
<1>9. AllStamped
  <2>1. KeysOf(NoEntries) = {}
    BY DEF KeysOf, NoEntries
  <2> QED
    BY <1>1, <2>1 DEF AllStamped, Stamped
<1>10. InputsStamped
  <2>1. Inputs = <<>>
    BY DEF Fresh, Inputs, NoSnapshot
  <2> QED
    BY <2>1 DEF InputsStamped
<1>11. AsleepInMemory
  BY DEF Fresh, AsleepInMemory
<1> QED
  BY <1>6, <1>8, <1>9, <1>10, <1>11 DEF WorkInv

LEMMA CrashBase ==
  ASSUME IsFiniteSet(Client), BaseInv, NEW s \in 0..MaxSecond, NEW left \in [UnderWay(s) -> Left],
         Crash(s, left)
  PROVE  /\ BaseInv' /\ UNCHANGED sstables /\ Fresh'
         /\ \E d, w : d = disk /\ w = disk' /\ w = Writes!Fold(UnderWay(s), d, left)
<1>0. WorkInv /\ RecoveryTypeOK /\ DiskStamped
  BY DEF BaseInv
<1>1. /\ UnderWay(s) \in SUBSET File /\ IsFiniteSet(UnderWay(s))
      /\ \A f \in UnderWay(s) : Stamped(f.data)
  BY <1>0, UnderWayFacts
<1>2. disk \in Seq(File)
  BY <1>0 DEF RecoveryTypeOK
<1>3. PICK S : S = UnderWay(s)
  OBVIOUS
<1>4. PICK d : d = disk
  OBVIOUS
<1>5. PICK w : w = Writes!Fold(S, d, left)
  OBVIOUS
<1>6. disk' = w
  <2>1. disk' = FoldSet(LAMBDA file, e : Written(e, file, left[file]), d, S)
    BY <1>3, <1>4 DEF Crash
  <2> QED
    BY <1>5, <2>1, WrittenIsFold
<1>7. w \in Seq(File) /\ \A g : Holds(w, g) => g \in S \/ Holds(d, g)
  <2>1. S \in SUBSET File /\ IsFiniteSet(S) /\ left \in [S -> Left] /\ d \in Seq(File)
    BY <1>1, <1>2, <1>3, <1>4
  <2> QED
    BY <1>5, <2>1, AllWrittenFacts
<1>8. disk' \in Seq(File) /\ DiskStamped'
  <2>1. \A g : Holds(w, g) => Stamped(g.data)
    BY <1>0, <1>1, <1>3, <1>4, <1>7, StampedFiles
  <2> QED
    BY <1>6, <1>7, <2>1 DEF DiskStamped, Stamped, Holds
<1>9. stored' \in [Key -> Nat] /\ latest' = stored'
  <2>1. \A k \in Key : TopStamp(w, k) \in Nat
    BY <1>7, TopStampFacts
  <2>2. stored' = [k \in Key |-> TopStamp(w, k)] /\ latest' = stored'
    BY <1>6 DEF Crash
  <2> QED
    BY <2>1, <2>2
<1>10. Fresh' /\ UNCHANGED sstables
  BY DEF Crash, Fresh
<1>11. WorkInv' /\ InputsStamped' /\ AsleepInMemory'
  <2>1. /\ sstables' \in [Level -> Seq(EntryMap)] /\ latest' \in [Key -> Nat] /\ begun' \in Nat
    BY <1>0, <1>9 DEF WorkInv, Shape, TypeOK, Crash
  <2>2. \A i \in TableIndex' : Stamped(sstables'[i[1]][i[2]])
    BY <1>0, <1>10 DEF WorkInv, AllStamped, TableIndex
  <2>3. (/\ Fresh /\ sstables \in [Level -> Seq(EntryMap)] /\ latest \in [Key -> Nat] /\ begun \in Nat
         /\ \A i \in TableIndex : Stamped(sstables[i[1]][i[2]])
         => WorkInv /\ InputsStamped /\ AsleepInMemory)'
    BY FreshInv, PTL
  <2> QED
    BY <1>10, <2>1, <2>2, <2>3 DEF Stamped
<1>12. RecoveryTypeOK'
  <2>0. /\ up' = FALSE /\ crashes < MaxCrashes /\ crashes' = crashes + 1
        /\ second' \in {s, second}
        /\ clobbered' \in BOOLEAN
        /\ inputs' = <<>> /\ made_names' = <<>> /\ names' = names
    <3>1. second' = IF disk' = disk THEN second ELSE s
      BY DEF Crash
    <3>2. second' \in {s, second}
      BY <3>1
    <3>3. \E b \in BOOLEAN : clobbered' = b
      <4>1. PICK b \in BOOLEAN : b = (clobbered \/ \E file \in UnderWay(s) :
                                  left[file] # "absent" /\ Exists(file.name))
        BY Zenon
      <4> QED
        BY <4>1, Zenon DEF Crash
    <3> QED
      BY <3>2, <3>3, Zenon DEF Crash
  <2>1. up' \in BOOLEAN /\ clobbered' \in BOOLEAN
    BY <2>0
  <2>3. crashes \in 0..MaxCrashes /\ second \in 0..MaxSecond /\ MaxCrashes \in Nat
    BY <1>0, RecoveryAssumption DEF RecoveryTypeOK
  <2>4. crashes' \in 0..MaxCrashes
    BY <2>0, <2>3
  <2>5. second' \in 0..MaxSecond
    BY <2>0, <2>3
  <2>2. inputs' \in Seq(FileName) /\ made_names' \in Seq(FileName) /\ names' \in [Level -> Seq(FileName)]
    BY <1>0, <2>0 DEF RecoveryTypeOK
  <2> QED
    BY <1>8, <1>9, <2>1, <2>2, <2>4, <2>5 DEF RecoveryTypeOK
<1> QED
  BY <1>3, <1>4, <1>5, <1>6, <1>8, <1>10, <1>11, <1>12 DEF BaseInv

(* What an open makes of the files.                                         *)
LEMMA OpenedTables ==
  ASSUME disk \in Seq(File), Open
  PROVE  /\ sstables' \in [Level -> Seq(EntryMap)] /\ names' \in [Level -> Seq(FileName)]
         /\ \A l \in Level : \A w : w = Loaded(l) =>
              /\ w \in Seq(File)
              /\ DOMAIN sstables'[l] = DOMAIN w /\ DOMAIN names'[l] = DOMAIN w
              /\ \A i \in DOMAIN w : /\ sstables'[l][i] = w[i].data /\ names'[l][i] = w[i].name
                                     /\ w[i].name.level = l /\ Holds(disk, w[i])
<1> SUFFICES ASSUME NEW l \in Level, NEW w, w = Loaded(l)
             PROVE  /\ sstables'[l] \in Seq(EntryMap) /\ names'[l] \in Seq(FileName)
                    /\ w \in Seq(File)
                    /\ DOMAIN sstables'[l] = DOMAIN w /\ DOMAIN names'[l] = DOMAIN w
                    /\ \A i \in DOMAIN w : /\ sstables'[l][i] = w[i].data /\ names'[l][i] = w[i].name
                                           /\ w[i].name.level = l /\ Holds(disk, w[i])
  <2>1. DOMAIN sstables' = Level /\ DOMAIN names' = Level
    BY DEF Open
  <2>2. sstables' = [l \in Level |-> sstables'[l]] /\ names' = [l \in Level |-> names'[l]]
    BY DEF Open
  <2>3. (\A l \in Level : sstables'[l] \in Seq(EntryMap)) => sstables' \in [Level -> Seq(EntryMap)]
    BY <2>2
  <2>4. (\A l \in Level : names'[l] \in Seq(FileName)) => names' \in [Level -> Seq(FileName)]
    BY <2>2
  <2>5. \A l \in Level : \E w : w = Loaded(l)
    OBVIOUS
  <2> QED
    BY <2>3, <2>4, <2>5
<1>1. w \in Seq(File) /\ \A f : Holds(w, f) => Holds(disk, f) /\ f.name.level = l
  BY LoadedFacts
<1>2. /\ sstables'[l] = [i \in DOMAIN w |-> w[i].data]
      /\ names'[l] = [i \in DOMAIN w |-> w[i].name]
  BY DEF Open
<1>3. DOMAIN w = 1..Len(w) /\ Len(w) \in Nat
  BY <1>1
<1>4. \A i \in DOMAIN w : Holds(w, w[i])
  BY DEF Holds
<1>5. \A i \in DOMAIN w : w[i].data \in EntryMap /\ w[i].name \in FileName
  <2>1. \A i \in DOMAIN w : w[i] \in File
    BY <1>1
  <2> QED
    BY <2>1 DEF File
<1> QED
  BY <1>1, <1>2, <1>3, <1>4, <1>5

LEMMA OpenBase ==
  ASSUME BaseInv, Open
  PROVE  BaseInv' /\ UNCHANGED <<others, compactor, disk>>
<1>0. WorkInv /\ RecoveryTypeOK /\ DiskStamped /\ InputsStamped /\ AsleepInMemory
  BY DEF BaseInv, Open
<1>1. UNCHANGED others /\ UNCHANGED compactor /\ UNCHANGED disk /\ UNCHANGED sequence_counter
  BY DEF Open, others
<1>2. /\ sstables' \in [Level -> Seq(EntryMap)] /\ names' \in [Level -> Seq(FileName)]
      /\ \A l \in Level : \A w : w = Loaded(l) =>
           /\ DOMAIN sstables'[l] = DOMAIN w
           /\ \A i \in DOMAIN w : sstables'[l][i] = w[i].data /\ Holds(disk, w[i])
  BY <1>0, OpenedTables DEF RecoveryTypeOK
<1>3. Shape'
  BY <1>0, <1>1, <1>2, OthersShape DEF WorkInv, Shape, TypeOK
<1>4. CompactorTypeOK' /\ WorkShape' /\ SnapshotStands' /\ InputsStamped' /\ AsleepInMemory'
  BY <1>0, <1>1 DEF WorkInv, CompactorTypeOK, WorkShape, SnapshotStands, compactor, AsleepInMemory,
                    others, Inputs, InputsStamped, Stamped, private
<1>5. AllStamped'
  <2>1. ASSUME NEW i \in TableIndex' PROVE Stamped(sstables'[i[1]][i[2]])
    <3>1. i[1] \in Level /\ i[2] \in DOMAIN sstables'[i[1]]
      BY DEF TableIndex
    <3>2. PICK w : w = Loaded(i[1])
      OBVIOUS
    <3>3. i[2] \in DOMAIN w /\ sstables'[i[1]][i[2]] = w[i[2]].data /\ Holds(disk, w[i[2]])
      BY <1>2, <3>1, <3>2
    <3>4. Stamped(w[i[2]].data)
      BY <1>0, <3>3, StampedFiles
    <3> QED
      BY <3>3, <3>4
  <2>2. \A m \in Ids' : Stamped(heap'[m].data)
    BY <1>0, <1>1 DEF WorkInv, AllStamped, Ids, others
  <2> QED
    BY <2>1, <2>2 DEF AllStamped, Stamped
<1>6. RecoveryTypeOK' /\ DiskStamped'
  <2>1. UNCHANGED <<disk, inputs, made_names, second, stored, crashes>> /\ up' \in BOOLEAN /\ clobbered' \in BOOLEAN
    BY DEF Open
  <2> QED
    BY <1>0, <1>2, <2>1 DEF RecoveryTypeOK, DiskStamped
<1> QED
  BY <1>1, <1>3, <1>4, <1>5, <1>6 DEF BaseInv, WorkInv

LEMMA RecoveryInitBase == RecoveryInit => BaseInv
<1> SUFFICES ASSUME RecoveryInit PROVE BaseInv
  OBVIOUS
<1>1. WorkInv
  BY CompactionInitInv DEF RecoveryInit
<1>2. NoTables \in [Level -> Seq(FileName)]
  BY DEF NoTables
<1>3. RecoveryTypeOK
  <2>1. 0 \in 0..MaxSecond /\ 0 \in 0..MaxCrashes
    BY RecoveryAssumption
  <2>2. up \in BOOLEAN /\ clobbered \in BOOLEAN
    BY DEF RecoveryInit
  <2>3. second \in 0..MaxSecond /\ crashes \in 0..MaxCrashes
    BY <2>1 DEF RecoveryInit
  <2>4. stored \in [Key -> Nat]
    BY DEF RecoveryInit
  <2>5. disk \in Seq(File) /\ inputs \in Seq(FileName) /\ made_names \in Seq(FileName)
    BY DEF RecoveryInit
  <2>6. names \in [Level -> Seq(FileName)]
    BY <1>2 DEF RecoveryInit
  <2> QED
    BY <2>2, <2>3, <2>4, <2>5, <2>6 DEF RecoveryTypeOK
<1>4. Inputs = <<>>
  BY DEF RecoveryInit, CompactionInit, AtRest, NoSnapshot, Inputs
<1>5. DiskStamped /\ InputsStamped /\ up
  BY <1>4 DEF RecoveryInit, DiskStamped, InputsStamped
<1> QED
  BY <1>1, <1>3, <1>5 DEF BaseInv

LEMMA BaseInvStep == IsFiniteSet(Client) /\ BaseInv /\ [RecoveryNext]_rvars => BaseInv'
<1> SUFFICES ASSUME IsFiniteSet(Client), BaseInv, [RecoveryNext]_rvars PROVE BaseInv'
  OBVIOUS
<1>1. CASE UNCHANGED rvars
  <2>1. UNCHANGED cvars /\ UNCHANGED <<disk, names, inputs, made_names, second, clobbered, stored, up, crashes>>
    BY <1>1 DEF rvars, files, process
  <2>2. [CompactionNext]_cvars
    BY <2>1
  <2>3. WorkInv' /\ InputsStamped'
    BY <2>2, WorkInvStep, InputsStep DEF BaseInv
  <2>4. RecoveryTypeOK' /\ DiskStamped'
    BY <2>1 DEF BaseInv, RecoveryTypeOK, DiskStamped
  <2>5. ~up' => AsleepInMemory'
    BY <2>1 DEF BaseInv, AsleepInMemory, cvars, vars, shared, private, compactor
  <2> QED
    BY <2>3, <2>4, <2>5 DEF BaseInv
<1>2. CASE Running /\ RunningStep
  BY <1>2, RunningBase
<1>3. CASE AnyCrash
  BY <1>3, CrashBase DEF AnyCrash
<1>4. CASE Open
  BY <1>4, OpenBase
<1> QED
  BY <1>1, <1>2, <1>3, <1>4, RecoverySteps

(* Types, the snapshot and the stamps of what is stored stand through every *)
(* flush, compaction, end of the process and open; and while no process runs*)
(* memory is as the next one finds it.                                      *)
THEOREM BaseInvariant == RecoverySpec => []BaseInv
<1>1. RecoveryInit => BaseInv
  BY RecoveryInitBase
<1>2. BaseInv /\ [RecoveryNext]_rvars => BaseInv'
  BY BaseInvStep, SingleClient
<1> QED
  BY <1>1, <1>2, PTL DEF RecoverySpec

(* The directory, the names of the tables and the history of the disk have  *)
(* their types, through every end of the process and every open.            *)
THEOREM RecoveryTypeCorrect == RecoverySpec => []RecoveryTypeOK
<1>1. BaseInv => RecoveryTypeOK
  BY DEF BaseInv
<1> QED
  BY <1>1, BaseInvariant, PTL

-----------------------------------------------------------------------------
(* The age of the entries, for one client and through every end of the      *)
(* process: the files of level 0 are ordered like its tables, and older     *)
(* than what is in memory.                                                  *)
FilesByAge ==
  \A i \in DOMAIN disk :
    /\ Within(disk[i].data, latest)
    /\ disk[i].name.level = 0 => AllNewer(disk[i].data)
    /\ \A j \in DOMAIN disk : i < j /\ disk[i].name.level = 0 /\ disk[j].name.level = 0
         => NotOlder(disk[j].data, disk[i].data)

LEMMA FilesByAgeIs ==
  FilesByAge <=>
    /\ \A f : Holds(disk, f) => Within(f.data, latest) /\ (f.name.level = 0 => AllNewer(f.data))
    /\ \A f, g : Earlier(disk, f, g) /\ f.name.level = 0 /\ g.name.level = 0 => NotOlder(g.data, f.data)
<1> DEFINE P(f) == Within(f.data, latest) /\ (f.name.level = 0 => AllNewer(f.data))
           Q(f, g) == f.name.level = 0 /\ g.name.level = 0 => NotOlder(g.data, f.data)
<1> HIDE DEF P, Q
<1>1. /\ (\A f : Holds(disk, f) => P(f)) <=> \A i \in DOMAIN disk : P(disk[i])
      /\ (\A f, g : Earlier(disk, f, g) => Q(f, g))
           <=> \A i, j \in DOMAIN disk : i < j => Q(disk[i], disk[j])
  BY Zenon DEF Holds, Earlier
<1>2. FilesByAge <=> /\ \A i \in DOMAIN disk : P(disk[i])
                     /\ \A i, j \in DOMAIN disk : i < j => Q(disk[i], disk[j])
  BY Zenon DEF FilesByAge, P, Q
<1> QED
  BY <1>1, <1>2 DEF P, Q

(* A step that writes the files S, in any order, and keeps of the others    *)
(* what it keeps.                                                           *)
LEMMA FilesAge ==
  ASSUME FilesByAge, NEW S, NEW d, d = disk, NEW w, w = disk',
         \A g : Holds(w, g) => g \in S \/ Holds(d, g),
         \A g, h : Earlier(w, g, h) => Earlier(d, g, h) \/ (h \in S /\ (g \in S \/ Holds(d, g))),
         \A g : Holds(w, g) => Within(g.data, latest') /\ (g.name.level = 0 => AllNewer(g.data)'),
         \A h \in S : \A g : h.name.level = 0 /\ g.name.level = 0 /\ (g \in S \/ Holds(d, g))
                           => NotOlder(h.data, g.data)
  PROVE  FilesByAge'
<1>1. \A f, g : Earlier(w, f, g) /\ f.name.level = 0 /\ g.name.level = 0 => NotOlder(g.data, f.data)
  BY FilesByAgeIs
<1>2. ASSUME NEW i \in DOMAIN w
      PROVE  /\ Within(w[i].data, latest') /\ (w[i].name.level = 0 => AllNewer(w[i].data)')
             /\ \A j \in DOMAIN w : i < j /\ w[i].name.level = 0 /\ w[j].name.level = 0
                  => NotOlder(w[j].data, w[i].data)
  BY <1>1 DEF Holds, Earlier
<1>3. ASSUME NEW i \in DOMAIN disk', disk'[i].name.level = 0, NEW m \in Memtables'
      PROVE  NotOlder(heap'[m].data, disk'[i].data)
  <2>1. PICK f : f = w[i]
    OBVIOUS
  <2>2. AllNewer(f.data)'
    BY <1>3, <2>1 DEF Holds
  <2> QED
    BY <2>1, <2>2 DEF AllNewer
<1> QED
  BY <1>2, <1>3 DEF FilesByAge, AllNewer

LEMMA MemoryAges ==
  ASSUME OneClient, WorkInv, ByAge, Level0ByAge, AllKnown, [CompactionNext]_cvars
  PROVE  /\ ByAge' /\ Level0ByAge' /\ AllKnown'
         /\ \A d \in EntryMap : Within(d, latest) =>
              Within(d, latest') /\ (AllNewer(d) => AllNewer(d)')
<1>0. Shape /\ Shape' /\ \A m \in Ids : Within(heap[m].data, latest)
  BY WorkInvStep DEF ByAge, WorkInv, AllKnown
<1>1. CASE [Next]_vars
  BY <1>0, <1>1, ByAgeStep, Level0Step, KnownStep, LatestGrows
<1>2. ASSUME UNCHANGED others
      PROVE  /\ ByAge' /\ Memtables' = Memtables /\ Ids' = Ids
             /\ UNCHANGED <<heap, latest>>
             /\ \A d \in EntryMap : Within(d, latest) =>
                  Within(d, latest') /\ (AllNewer(d) => AllNewer(d)')
  <2>1. /\ ByAge' /\ Memtables' = Memtables /\ Ids' = Ids /\ UNCHANGED <<heap, latest>>
    BY <1>0, <1>2, SharedByAge
  <2> QED
    BY <2>1 DEF AllNewer
<1>3. CASE Install
  <2>1. UNCHANGED others
    BY <1>3 DEF Install, others
  <2>2. AllKnown'
    BY <1>3, InstallKnown
  <2>3. sstables'[0] = sstables[0] \/ sstables'[0] = <<>>
    <3>1. level \in Level /\ 0 \in Level /\ level + 1 # 0
      BY StorageEngineAssumption DEF WorkInv, CompactorTypeOK, Level
    <3> QED
      BY <1>3, <3>1, InstallFacts
  <2>4. Level0ByAge'
    BY <1>2, <2>1, <2>3 DEF Level0ByAge, AllNewer
  <2> QED
    BY <1>2, <2>1, <2>2, <2>4
<1>4. CASE Compact /\ ~Install
  <2>1. UNCHANGED others /\ UNCHANGED sstables
    BY <1>4 DEF Compact, Tick, CountLevel0, MeasureLevel, Deleted, CloneAndMerge, CreateTable,
                vars, shared, others
  <2>2. TableIndex' = TableIndex
    BY <2>1 DEF TableIndex
  <2>3. AllKnown' /\ Level0ByAge'
    BY <1>2, <2>1, <2>2 DEF AllKnown, Level0ByAge, AllNewer
  <2> QED
    BY <1>2, <2>1, <2>3
<1> QED
  BY <1>1, <1>3, <1>4 DEF CompactionNext, cvars
(* A step of the process: a flushed file is the oldest of what was in       *)
(* memory, and what compaction writes is not in level 0.                    *)
LEMMA RunningFilesAge ==
  ASSUME OneClient, BaseInv, ByAge, Level0ByAge, AllKnown, FilesByAge, RunningStep
  PROVE  FilesByAge'
<1>0. WorkInv /\ RecoveryTypeOK /\ Shape /\ disk \in Seq(File)
  BY DEF BaseInv, WorkInv, RecoveryTypeOK
<1>1. [CompactionNext]_cvars
  BY RunningIsCompaction
<1>2. \A e \in EntryMap : Within(e, latest) =>
         Within(e, latest') /\ (AllNewer(e) => AllNewer(e)')
  BY <1>0, <1>1, MemoryAges
<1>3. PICK d : d = disk
  OBVIOUS
<1>4. PICK w : w = disk'
  OBVIOUS
<1>5. ASSUME NEW g, Holds(d, g)
      PROVE  Within(g.data, latest') /\ (g.name.level = 0 => AllNewer(g.data)')
  <2>1. g \in File /\ g.data \in EntryMap
    <3>1. g \in File
      BY <1>0, <1>3, <1>5 DEF Holds
    <3> QED
      BY <3>1 DEF File
  <2>2. Within(g.data, latest) /\ (g.name.level = 0 => AllNewer(g.data))
    BY <1>3, <1>5, FilesByAgeIs
  <2>3. PICK e \in EntryMap : e = g.data
    BY <2>1
  <2>4. Within(e, latest') /\ (g.name.level = 0 => AllNewer(e)')
    BY <1>2, <2>2, <2>3
  <2> QED
    BY <2>3, <2>4 DEF AllNewer
<1>6. ASSUME NEW f \in File, NEW left \in Left, WritesFile(f, left), Within(f.data, latest),
             f.name.level = 0 =>
               /\ AllNewer(f.data)' /\ NotOlder(f.data, f.data)
               /\ \A g : Holds(d, g) /\ g.name.level = 0 => NotOlder(f.data, g.data)
      PROVE  FilesByAge'
  <2>1. /\ \A g : Holds(w, g) => g = f \/ Holds(d, g)
        /\ \A g, h : Earlier(w, g, h) => Earlier(d, g, h) \/ (h = f /\ Holds(d, g))
    BY <1>0, <1>3, <1>4, <1>6, WrittenFacts DEF WritesFile
  <2>2. Within(f.data, latest')
    BY <1>2, <1>6 DEF File
  <2>3. PICK S : S = {f}
    OBVIOUS
  <2>4. \A g : Holds(w, g) => g \in S \/ Holds(d, g)
    BY <2>1, <2>3
  <2>5. \A g, h : Earlier(w, g, h) => Earlier(d, g, h) \/ (h \in S /\ (g \in S \/ Holds(d, g)))
    BY <2>1, <2>3
  <2>6. ASSUME NEW g, Holds(w, g) PROVE Within(g.data, latest') /\ (g.name.level = 0 => AllNewer(g.data)')
    <3>1. CASE g = f
      BY <1>6, <2>2, <3>1 DEF AllNewer
    <3>2. CASE Holds(d, g)
      BY <1>5, <3>2
    <3> QED
      BY <2>1, <2>6, <3>1, <3>2
  <2>7. \A h \in S : \A g : h.name.level = 0 /\ g.name.level = 0 /\ (g \in S \/ Holds(d, g))
                          => NotOlder(h.data, g.data)
    BY <1>6, <2>3
  <2> QED
    BY <1>3, <1>4, <2>4, <2>5, <2>6, <2>7, FilesAge
<1>7. ASSUME \A g : Holds(w, g) => Holds(d, g), \A g, h : Earlier(w, g, h) => Earlier(d, g, h)
      PROVE  FilesByAge'
  <2>1. \A g : Holds(w, g) => Within(g.data, latest') /\ (g.name.level = 0 => AllNewer(g.data)')
    BY <1>5, <1>7
  <2>2. PICK S : S = {}
    OBVIOUS
  <2> QED
    BY <1>3, <1>4, <1>7, <2>1, <2>2, FilesAge
<1>8. ASSUME UNCHANGED disk PROVE FilesByAge'
  BY <1>3, <1>4, <1>7, <1>8
<1>9. ASSUME NEW c \in Client, NEW r \in AnyResult, NEW left \in Left, NEW s \in 0..MaxSecond,
             FlushToFile(c, r, left, s)
      PROVE  FilesByAge'
  <2>1. PICK m \in Ids : m = hand[c][1] /\ Flushes(c, m, r, left, s)
    BY <1>0, <1>9, FlushedFacts DEF AnyResult
  <2>2. CASE UNCHANGED files
    BY <1>8, <2>2 DEF files
  <2>3. CASE ~UNCHANGED files
    <3>1. PICK f \in File : f = FileOf(m, s) /\ WritesFile(f, left)
      BY <2>1, <2>3 DEF Flushes
    <3>2. f.data = heap[m].data /\ heap[m].data \in EntryMap
      BY <1>0, <3>1, DataTypes DEF FileOf
    <3>3. [Next]_vars /\ FlushStep(c)
      BY <2>1 DEF Flushes, Next
    <3>4. m \in Memtables /\ \A n \in Memtables' : NotOlder(heap'[n].data, heap[m].data)
      BY <2>1, <3>3, AgesFlush
    <3>5. AllNewer(f.data)'
      BY <3>2, <3>4 DEF AllNewer
    <3>6. NotOlder(f.data, f.data)
      BY <3>2, NotOlderFacts
    <3>7. \A g : Holds(d, g) /\ g.name.level = 0 => NotOlder(f.data, g.data)
      BY <1>3, <3>2, <3>4, FilesByAgeIs DEF AllNewer
    <3>8. Within(f.data, latest)
      BY <3>2 DEF AllKnown
    <3> QED
      BY <1>6, <3>1, <3>5, <3>6, <3>7, <3>8
  <2> QED
    BY <2>2, <2>3
<1>10. ASSUME NEW r \in AnyResult, NEW left \in Left, NEW s \in 0..MaxSecond, CreateFile(r, left, s)
       PROVE  FilesByAge'
  <2>1. PICK f : f = MadeFile(s)
    OBVIOUS
  <2>2. f \in File /\ f.name.level = level + 1 /\ WritesFile(f, left)
    BY <1>0, <1>10, <2>1, CreatedFacts
  <2>3. f.name.level # 0
    BY <1>0, <2>2 DEF WorkInv, CompactorTypeOK, Level
  <2>4. Within(f.data, latest)
    <3>1. cpc = "create"
      BY <1>10 DEF CreateFile, CreateTable
    <3>2. \A k \in KeysOf(f.data) : \E t \in TableIndex :
            k \in KeysOf(sstables[t[1]][t[2]]) /\ f.data[k] = sstables[t[1]][t[2]][k]
      BY <1>0, <2>1, <3>1, MadeFacts
    <3> QED
      BY <3>2 DEF AllKnown, Within
  <2> QED
    BY <1>6, <2>2, <2>3, <2>4
<1>11. ASSUME NEW r \in AnyResult, DeleteFile(r) PROVE FilesByAge'
  <2>1. PICK name : name = Head(inputs)
    OBVIOUS
  <2>2. w = d \/ w = Without(d, name)
    BY <1>3, <1>4, <1>11, <2>1 DEF DeleteFile
  <2>3. (\A g : Holds(w, g) => Holds(d, g)) /\ \A g, h : Earlier(w, g, h) => Earlier(d, g, h)
    BY <1>0, <1>3, <2>2, WithoutFacts
  <2> QED
    BY <1>7, <2>3
<1>12. ASSUME InstallFiles \/ UNCHANGED files \/ \E r \in AnyResult : CloneFiles(r) PROVE FilesByAge'
  BY <1>8, <1>12 DEF InstallFiles, CloneFiles, files
<1> QED
  BY <1>9, <1>10, <1>11, <1>12 DEF RunningStep
(* The process ends: one file of level 0 at most was being written.         *)
NothingOlder ==
  /\ HeldOnce /\ MemtablesByAge /\ \A e : AllNewer(e)
  /\ \A m \in Ids : Within(heap[m].data, latest)

LEMMA FreshAges == Fresh => NothingOlder
<1> SUFFICES ASSUME Fresh PROVE NothingOlder
  OBVIOUS
<1>1. /\ Listed = {} /\ \A c \in Client : InHand(c) = {} /\ hand[c] = <<>> /\ pc[c] = "idle"
      /\ immutable_memtables = <<>> /\ memtable = 1 /\ Ids = {1} /\ heap[1].data = NoEntries
  BY DEF Fresh, Listed, InHand, Ids, NewMemTable
<1>2. Memtables = {1}
  BY <1>1 DEF Memtables
<1>3. HeldOnce
  BY <1>1 DEF HeldOnce
<1>4. MemtablesByAge
  BY <1>1, <1>2, NotOlderFacts DEF MemtablesByAge, ActiveNewest, ListByAge, HandByAge
<1>5. \A e : AllNewer(e)
  BY <1>1, <1>2, NotOlderFacts DEF AllNewer
<1>6. KeysOf(NoEntries) = {}
  BY DEF KeysOf, NoEntries
<1> QED
  BY <1>1, <1>3, <1>4, <1>5, <1>6 DEF Within, NothingOlder

LEMMA CrashAges ==
  ASSUME OneClient, IsFiniteSet(Client), BaseInv, ByAge, Level0ByAge, FilesByAge,
         NEW s \in 0..MaxSecond, NEW left \in [UnderWay(s) -> Left], Crash(s, left)
  PROVE  ByAge' /\ Level0ByAge' /\ FilesByAge'
<1>0. WorkInv /\ RecoveryTypeOK /\ disk \in Seq(File)
  BY DEF BaseInv, RecoveryTypeOK
<1>1. BaseInv' /\ UNCHANGED sstables /\ Fresh'
  BY CrashBase
<1>2. PICK d, w : d = disk /\ w = disk' /\ w = Writes!Fold(UnderWay(s), d, left)
  BY CrashBase
<1>3. PICK S : S = UnderWay(s)
  OBVIOUS
<1>4. /\ S \in SUBSET File /\ IsFiniteSet(S)
      /\ \A f \in S : \/ cpc = "create" /\ f = MadeFile(s)
                      \/ \E c \in Client, m \in Memtables \cap Ids : m = hand[c][1] /\ f = FileOf(m, s)
  BY <1>0, <1>3, UnderWayFacts
<1>5. /\ w \in Seq(File)
      /\ \A g : Holds(w, g) => g \in S \/ Holds(d, g)
      /\ \A g, h : Earlier(w, g, h) => Earlier(d, g, h) \/ (h \in S /\ (g \in S \/ Holds(d, g)))
  <2>1. left \in [S -> Left] /\ d \in Seq(File) /\ w = Writes!Fold(S, d, left)
    BY <1>0, <1>2, <1>3
  <2> QED
    BY <1>4, <2>1, AllWrittenFacts
<1>6. HeldOnce' /\ MemtablesByAge' /\ \A e : AllNewer(e)'
  <2>1. (Fresh => NothingOlder)'
    BY FreshAges, PTL
  <2> QED
    BY <1>1, <2>1 DEF NothingOlder
<1>7. ByAge'
  BY <1>1, <1>6 DEF ByAge, BaseInv, WorkInv
<1>8. Level0ByAge'
  BY <1>1, <1>6 DEF Level0ByAge, AllNewer
<1>9. ASSUME NEW g, Holds(w, g) PROVE Within(g.data, latest')
  <2>1. g.data \in EntryMap
    <3>1. g \in File
      BY <1>5, <1>9 DEF Holds
    <3> QED
      BY <3>1 DEF File
  <2>2. \A k \in Key : latest'[k] = TopStamp(w, k)
    <3>1. latest' = [k \in Key |-> TopStamp(w, k)]
      BY <1>2, ZenonT(60) DEF Crash
    <3> QED
      BY <3>1
  <2>3. ASSUME NEW k \in KeysOf(g.data) PROVE g.data[k].stamp <= latest'[k]
    <3>1. k \in Key /\ g.data[k] # None
      BY DEF KeysOf
    <3>2. StampOf(g.data[k]) = g.data[k].stamp
      BY <2>1, <3>1, StampType
    <3>3. StampOf(g.data[k]) <= TopStamp(w, k)
      BY <1>5, <1>9, <3>1, TopStampFacts
    <3> QED
      BY <2>2, <3>1, <3>2, <3>3
  <2> QED
    BY <2>3 DEF Within
<1>10. ASSUME NEW h \in S, h.name.level = 0
       PROVE  \E m \in Memtables \cap Ids : h.data = heap[m].data /\ \A c \in Client : m = hand[c][1]
  <2>1. ASSUME cpc = "create", h = MadeFile(s) PROVE FALSE
    <3>1. h.name.level = level + 1
      BY <1>0, <2>1, MadeFacts
    <3> QED
      BY <1>0, <1>10, <3>1 DEF WorkInv, CompactorTypeOK, Level
  <2>2. PICK c \in Client, m \in Memtables \cap Ids : m = hand[c][1] /\ h = FileOf(m, s)
    BY <1>4, <2>1
  <2> QED
    BY <2>2 DEF FileOf, OneClient
<1>11. ASSUME NEW h \in S, NEW g, h.name.level = 0, g.name.level = 0, g \in S \/ Holds(d, g)
       PROVE  NotOlder(h.data, g.data)
  <2>1. PICK m \in Memtables \cap Ids : h.data = heap[m].data /\ \A c \in Client : m = hand[c][1]
    BY <1>10, <1>11
  <2>2. CASE Holds(d, g)
    <3>1. AllNewer(g.data)
      BY <1>2, <1>11, <2>2, FilesByAgeIs
    <3> QED
      BY <2>1, <3>1 DEF AllNewer
  <2>3. CASE g \in S
    <3>1. PICK n \in Memtables \cap Ids : g.data = heap[n].data /\ \A c \in Client : n = hand[c][1]
      BY <1>10, <1>11, <2>3
    <3>2. g.data = h.data
      <4>1. Client # {} => n = m
        BY <2>1, <3>1
      <4>2. Client = {} => FALSE
        <5>1. ASSUME cpc = "create", h = MadeFile(s) PROVE FALSE
          <6>1. h.name.level = level + 1
            BY <1>0, <5>1, MadeFacts
          <6> QED
            BY <1>0, <1>11, <6>1 DEF WorkInv, CompactorTypeOK, Level
        <5> QED
          BY <1>4, <5>1
      <4> QED
        BY <2>1, <3>1, <4>1, <4>2
    <3>3. h.data \in EntryMap
      BY <1>4 DEF File
    <3> QED
      BY <3>2, <3>3, NotOlderFacts
  <2> QED
    BY <1>11, <2>2, <2>3
<1>12. FilesByAge'
  <2>1. \A g : Holds(w, g) => Within(g.data, latest') /\ (g.name.level = 0 => AllNewer(g.data)')
    BY <1>6, <1>9
  <2>2. \A h \in S : \A g : h.name.level = 0 /\ g.name.level = 0 /\ (g \in S \/ Holds(d, g))
                          => NotOlder(h.data, g.data)
    BY <1>11
  <2> QED
    BY <1>2, <1>5, <2>1, <2>2, FilesAge
<1> QED
  BY <1>7, <1>8, <1>12

(* The next open finds level 0 in the order of its files.                   *)
LEMMA OpenAges ==
  ASSUME BaseInv, ByAge, FilesByAge, Open
  PROVE  ByAge' /\ Level0ByAge' /\ FilesByAge' /\ AllKnown'
<1>0. WorkInv /\ disk \in Seq(File) /\ ~up /\ AsleepInMemory /\ 0 \in Level
  BY StorageEngineAssumption DEF BaseInv, RecoveryTypeOK, Open, Level
<1>1. BaseInv' /\ UNCHANGED <<others, compactor, disk>> /\ Shape'
  BY OpenBase DEF BaseInv, WorkInv
<1>2. /\ ByAge' /\ Memtables' = Memtables /\ Ids' = Ids
      /\ UNCHANGED <<heap, latest>>
  BY <1>1, SharedByAge
<1>3. FilesByAge'
  BY <1>1, <1>2 DEF FilesByAge, AllNewer
<1>4. ASSUME NEW l \in Level, NEW i \in DOMAIN sstables'[l], NEW w, w = Loaded(l)
      PROVE  /\ sstables'[l][i] = w[i].data /\ w[i].name.level = l /\ Holds(disk, w[i])
             /\ DOMAIN sstables'[l] = DOMAIN w
             /\ Within(w[i].data, latest) /\ (l = 0 => AllNewer(w[i].data))
  <2>1. /\ sstables'[l][i] = w[i].data /\ w[i].name.level = l /\ Holds(disk, w[i])
        /\ DOMAIN sstables'[l] = DOMAIN w
    BY <1>0, <1>4, OpenedTables
  <2>2. PICK f : f = w[i]
    OBVIOUS
  <2>3. Within(f.data, latest) /\ (f.name.level = 0 => AllNewer(f.data))
    BY <2>1, <2>2, FilesByAgeIs
  <2> QED
    BY <2>1, <2>2, <2>3
<1>5. AllKnown'
  <2>1. \A m \in Ids : Within(heap[m].data, latest)
    <3>1. Ids = {1} /\ heap[1].data = NoEntries
      BY <1>0 DEF AsleepInMemory, Ids, NewMemTable
    <3> QED
      BY <3>1 DEF Within, KeysOf, NoEntries
  <2>2. \A l \in Level : \A i \in DOMAIN sstables'[l] : Within(sstables'[l][i], latest)
    <3> TAKE l \in Level
    <3>1. PICK w : w = Loaded(l)
      OBVIOUS
    <3> QED
      BY <1>4, <3>1
  <2>3. \A i \in TableIndex' : i[1] \in Level /\ i[2] \in DOMAIN sstables'[i[1]]
    BY DEF TableIndex
  <2> QED
    BY <1>2, <2>1, <2>2, <2>3 DEF AllKnown
<1>6. Level0ByAge'
  <2>1. PICK w : w = Loaded(0)
    OBVIOUS
  <2>2. /\ \A f, g : Earlier(w, f, g) => Earlier(disk, f, g) /\ f.name.level = 0 /\ g.name.level = 0
        /\ DOMAIN sstables'[0] = DOMAIN w /\ w \in Seq(File)
    BY <1>0, <2>1, LoadedFacts, OpenedTables
  <2>3. \A i \in DOMAIN sstables'[0] : sstables'[0][i] = w[i].data /\ AllNewer(w[i].data)
    BY <1>0, <1>4, <2>1
  <2>4. ASSUME NEW i \in DOMAIN w, NEW j \in DOMAIN w, i > j PROVE NotOlder(w[i].data, w[j].data)
    <3>1. Earlier(w, w[j], w[i])
      <4>1. j < i
        BY <2>2, <2>4
      <4> QED
        BY <4>1 DEF Earlier
    <3>2. PICK f, g : f = w[j] /\ g = w[i]
      OBVIOUS
    <3> QED
      BY <2>2, <3>1, <3>2, FilesByAgeIs
  <2>5. \A i \in DOMAIN sstables'[0], m \in Memtables' : NotOlder(heap'[m].data, sstables'[0][i])
    BY <1>2, <2>3 DEF AllNewer
  <2>6. \A i, j \in DOMAIN sstables'[0] : i > j => NotOlder(sstables'[0][i], sstables'[0][j])
    BY <2>2, <2>3, <2>4
  <2> QED
    BY <2>5, <2>6 DEF Level0ByAge, AllNewer
<1> QED
  BY <1>2, <1>3, <1>5, <1>6
AgeInv == BaseInv /\ ByAge /\ Level0ByAge /\ FilesByAge /\ (up => AllKnown)

LEMMA AgeInvInit == RecoveryInit => AgeInv
<1> SUFFICES ASSUME RecoveryInit PROVE AgeInv
  OBVIOUS
<1>1. Aged /\ disk = <<>>
  BY AgedInit DEF RecoveryInit, CompactionInit
<1>2. Level0ByAge /\ ByAge /\ AllKnown
  BY <1>1, AgedImpliesNewestFirst DEF Aged
<1> QED
  BY <1>1, <1>2, RecoveryInitBase DEF AgeInv, FilesByAge

LEMMA AgeInvStep ==
  ASSUME OneClient, IsFiniteSet(Client)
  PROVE  AgeInv /\ [RecoveryNext]_rvars => AgeInv'
<1> SUFFICES ASSUME AgeInv, [RecoveryNext]_rvars PROVE AgeInv'
  OBVIOUS
<1>0. BaseInv /\ ByAge /\ Level0ByAge /\ FilesByAge /\ WorkInv
  BY DEF AgeInv, BaseInv
<1>1. BaseInv'
  BY <1>0, BaseInvStep
<1>2. CASE UNCHANGED rvars
  <2>1. /\ UNCHANGED <<disk, up, heap, memtable, immutable_memtables, hand, sstables, pc, latest>>
        /\ UNCHANGED others
    BY <1>2 DEF rvars, files, process, cvars, vars, shared, private, history, others
  <2>2. ByAge' /\ Memtables' = Memtables /\ Ids' = Ids
    BY <1>0, <1>1, <2>1, SharedByAge DEF BaseInv, WorkInv
  <2>3. TableIndex' = TableIndex
    BY <2>1 DEF TableIndex
  <2>4. Level0ByAge' /\ FilesByAge'
    BY <1>0, <2>1, <2>2 DEF Level0ByAge, FilesByAge, AllNewer
  <2>5. (up => AllKnown)'
    BY <2>1, <2>2, <2>3 DEF AgeInv, AllKnown
  <2> QED
    BY <1>1, <2>2, <2>4, <2>5 DEF AgeInv
<1>3. CASE Running /\ RunningStep
  <2>1. AllKnown
    BY <1>3 DEF Running, AgeInv
  <2>2. ByAge' /\ Level0ByAge' /\ AllKnown'
    BY <1>0, <1>3, <2>1, MemoryAges, RunningIsCompaction
  <2>3. FilesByAge'
    BY <1>0, <1>3, <2>1, RunningFilesAge
  <2> QED
    BY <1>1, <2>2, <2>3 DEF AgeInv
<1>4. CASE AnyCrash
  <2>1. PICK s \in 0..MaxSecond : \E left \in [UnderWay(s) -> Left] : Crash(s, left)
    BY <1>4 DEF AnyCrash
  <2>2. PICK left \in [UnderWay(s) -> Left] : Crash(s, left)
    BY <2>1
  <2>3. ~up'
    BY <2>2, Zenon DEF Crash
  <2>4. ByAge' /\ Level0ByAge' /\ FilesByAge'
    BY <1>0, <2>2, CrashAges
  <2> QED
    BY <1>1, <2>3, <2>4 DEF AgeInv
<1>5. CASE Open
  BY <1>0, <1>1, <1>5, OpenAges DEF AgeInv
<1> QED
  BY <1>2, <1>3, <1>4, <1>5, RecoverySteps

(* With one client, the memtables, the tables of level 0 and the files of   *)
(* level 0, in the order of their creation, stay ordered by age, through every*)
(* end of the process and every open.                                       *)
THEOREM AgeInvariant == RecoverySpec => []AgeInv
<1>1. RecoveryInit => AgeInv
  BY AgeInvInit
<1>2. OneClient /\ IsFiniteSet(Client)
  BY SingleClient
<1>3. AgeInv /\ [RecoveryNext]_rvars => AgeInv'
  BY <1>2, AgeInvStep
<1> QED
  BY <1>1, <1>3, PTL DEF RecoverySpec

(* With one client, memtables and tables of level 0 stay in the order in    *)
(* which a lookup asks them, newest first, also after the process has ended *)
(* in the middle of any write and open has loaded the files it left: an old *)
(* file of level 0 that was not deleted yet never comes before a newer one. *)
THEOREM NewestFirstHoldsRecovering == RecoverySpec => []NewestFirst
<1>1. AgeInv => NewestFirst
  BY ByAgeImpliesNewestFirst DEF AgeInv
<1> QED
  BY <1>1, AgeInvariant, PTL

-----------------------------------------------------------------------------
(* The files of the tables: every table of ts is the file of its name in    *)
(* ns, and they were written in the order of the list.                      *)
FileAt(ns, ts, i) == [name |-> ns[i], data |-> ts[i]]
ListOnDisk(ns, ts, d) ==
  /\ DOMAIN ns = DOMAIN ts
  /\ \A i \in DOMAIN ts : Holds(d, FileAt(ns, ts, i))
  /\ \A i, j \in DOMAIN ts : i < j => Earlier(d, FileAt(ns, ts, i), FileAt(ns, ts, j))
OfLevel(ns, l) == \A i \in DOMAIN ns : ns[i].level = l
Disjoint(ns, more) == \A i \in DOMAIN ns, j \in DOMAIN more : ns[i] # more[j]

TableFiles == \A l \in Level : ListOnDisk(names[l], sstables[l], disk) /\ OfLevel(names[l], l)

(* What compaction will delete is on the disk until it is deleted; what it  *)
(* has written so far is there too, and is nothing of what it will delete.  *)
InputFiles ==
  cpc \in {"create", "install", "delete"} =>
    /\ \A i \in DOMAIN inputs :
         /\ inputs[i].level \in {level, level + 1}
         /\ \E j \in DOMAIN Inputs : Holds(disk, [name |-> inputs[i], data |-> Inputs[j]])
    /\ \A i, j \in DOMAIN inputs : i # j => inputs[i] # inputs[j]
MadeFiles ==
  cpc \in {"create", "install"} =>
    /\ ListOnDisk(made_names, made, disk) /\ OfLevel(made_names, level + 1)
    /\ Disjoint(made_names, inputs)
DeletedFiles ==
  cpc = "delete" => /\ sstables[level + 1] = made
                    /\ \A l \in Level : Disjoint(names[l], inputs)
MadeAtRest == cpc \notin {"create", "install"} => made_names = <<>>

FilesInv ==
  /\ NamesOnce(disk) /\ MadeAtRest
  /\ ~clobbered => TableFiles /\ InputFiles /\ MadeFiles /\ DeletedFiles

LEMMA ListKept ==
  ASSUME NEW ns, NEW ts, NEW d, NEW w, ListOnDisk(ns, ts, d),
         \A g : Holds(d, g) /\ (\E i \in DOMAIN ns : g.name = ns[i]) => Holds(w, g),
         \A g, h : /\ Earlier(d, g, h)
                   /\ (\E i \in DOMAIN ns : g.name = ns[i]) /\ (\E i \in DOMAIN ns : h.name = ns[i])
                   => Earlier(w, g, h)
  PROVE  ListOnDisk(ns, ts, w)
<1>1. \A i \in DOMAIN ts : FileAt(ns, ts, i).name = ns[i] /\ i \in DOMAIN ns
  BY DEF FileAt, ListOnDisk
<1>2. ASSUME NEW i \in DOMAIN ts PROVE Holds(w, FileAt(ns, ts, i))
  <2>1. Holds(d, FileAt(ns, ts, i))
    BY DEF ListOnDisk
  <2> QED
    BY <1>1, <2>1
<1>3. ASSUME NEW i \in DOMAIN ts, NEW j \in DOMAIN ts, i < j
      PROVE  Earlier(w, FileAt(ns, ts, i), FileAt(ns, ts, j))
  <2>1. Earlier(d, FileAt(ns, ts, i), FileAt(ns, ts, j))
    BY <1>3 DEF ListOnDisk
  <2> QED
    BY <1>1, <2>1
<1> QED
  BY <1>2, <1>3 DEF ListOnDisk

(* A file of a new name is appended to the list of tables.                  *)
LEMMA ListAppended ==
  ASSUME NEW S, NEW T, NEW ns \in Seq(S), NEW ts \in Seq(T), NEW d, NEW w, NEW f,
         f.name \in S, f.data \in T, f = [name |-> f.name, data |-> f.data],
         ListOnDisk(ns, ts, d),
         \A g : Holds(d, g) => Holds(w, g),
         \A g, h : Earlier(d, g, h) => Earlier(w, g, h),
         Holds(w, f), \A g : Holds(d, g) => Earlier(w, g, f)
  PROVE  ListOnDisk(Append(ns, f.name), Append(ts, f.data), w)
<1> DEFINE n == Len(ts)
           ms == Append(ns, f.name)
           us == Append(ts, f.data)
<1>1. DOMAIN ns = DOMAIN ts /\ Len(ns) = n /\ n \in Nat
  BY DEF ListOnDisk
<1>2. /\ DOMAIN ms = 1..(n + 1) /\ DOMAIN us = 1..(n + 1) /\ DOMAIN ts = 1..n
      /\ ms[n + 1] = f.name /\ us[n + 1] = f.data
      /\ \A i \in 1..n : ms[i] = ns[i] /\ us[i] = ts[i]
  BY <1>1, SeqAppend
<1> HIDE DEF n, ms, us
<1>3. \A i \in 1..n : FileAt(ms, us, i) = FileAt(ns, ts, i)
  BY <1>2 DEF FileAt
<1>4. FileAt(ms, us, n + 1) = f
  BY <1>2 DEF FileAt
<1>5. /\ \A i \in 1..n : Holds(d, FileAt(ns, ts, i))
      /\ \A i, j \in 1..n : i < j => Earlier(d, FileAt(ns, ts, i), FileAt(ns, ts, j))
  BY <1>2 DEF ListOnDisk
<1>6. \A i \in 1..(n + 1) : i \in 1..n \/ i = n + 1
  BY <1>1
<1>7. \A i, j \in 1..(n + 1) : i < j => i \in 1..n
  BY <1>1
<1>8. \A i \in 1..(n + 1) : Holds(w, FileAt(ms, us, i))
  BY <1>3, <1>4, <1>5, <1>6
<1>9. ASSUME NEW i \in 1..(n + 1), NEW j \in 1..(n + 1), i < j
      PROVE  Earlier(w, FileAt(ms, us, i), FileAt(ms, us, j))
  <2>1. i \in 1..n
    BY <1>7, <1>9
  <2>2. CASE j = n + 1
    BY <1>3, <1>4, <1>5, <2>1, <2>2
  <2>3. CASE j \in 1..n
    BY <1>3, <1>5, <1>9, <2>1, <2>3
  <2> QED
    BY <1>6, <2>2, <2>3
<1> QED
  BY <1>2, <1>8, <1>9 DEF ListOnDisk, ms, us

(* Writing a file whose name is not in use leaves all files where they are. *)
LEMMA NewFileFacts ==
  ASSUME NEW d \in Seq(File), NEW f \in File, NEW left \in Left,
         NEW w, w = Written(d, f, left),
         left = "absent" \/ ~\E i \in DOMAIN d : d[i].name = f.name
  PROVE  /\ \A g : Holds(d, g) => Holds(w, g)
         /\ \A g, h : Earlier(d, g, h) => Earlier(w, g, h)
         /\ left = "complete" => Holds(w, f) /\ \A g : Holds(d, g) => Earlier(w, g, f)
<1>1. \A g : Holds(d, g) => Spared(g, f, left)
  BY DEF Holds, Spared
<1>2. \A g : left = "complete" /\ Holds(d, g) => g.name # f.name
  BY DEF Holds
<1>3. \A g, h : Earlier(d, g, h) => Holds(d, g) /\ Holds(d, h)
  BY NamesOnceFacts
<1>4. /\ \A g : Holds(d, g) /\ Spared(g, f, left) => Holds(w, g)
      /\ \A g, h : Earlier(d, g, h) /\ Spared(g, f, left) /\ Spared(h, f, left) => Earlier(w, g, h)
      /\ left = "complete" => Holds(w, f) /\ \A g : Holds(d, g) /\ g.name # f.name => Earlier(w, g, f)
  BY WrittenFacts
<1> QED
  BY <1>1, <1>2, <1>3, <1>4
LEMMA ListGrows ==
  ASSUME NEW ns, NEW ts, NEW d, NEW w, ListOnDisk(ns, ts, d),
         \A g : Holds(d, g) => Holds(w, g), \A g, h : Earlier(d, g, h) => Earlier(w, g, h)
  PROVE  ListOnDisk(ns, ts, w)
BY DEF ListOnDisk

LEMMA InputsExist ==
  ASSUME InputFiles, cpc \in {"create", "install", "delete"}, NEW i \in DOMAIN inputs
  PROVE  Exists(inputs[i])
<1>1. PICK f : Holds(disk, f) /\ f.name = inputs[i]
  <2>1. PICK j \in DOMAIN Inputs : Holds(disk, [name |-> inputs[i], data |-> Inputs[j]])
    BY DEF InputFiles
  <2> QED
    BY <2>1
<1> QED
  BY <1>1 DEF Holds, Exists

(* A step that writes the file f under a new name, if it writes it.         *)
LEMMA WritesNewFile ==
  ASSUME RecoveryTypeOK, NEW f \in File, NEW left \in Left, WritesFile(f, left), NamesOnce(disk),
         NEW d, d = disk, NEW w, w = disk'
  PROVE  /\ NamesOnce(w)
         /\ ~clobbered' =>
              /\ \A g : Holds(d, g) => Holds(w, g)
              /\ \A g, h : Earlier(d, g, h) => Earlier(w, g, h)
              /\ left = "complete" => /\ ~Exists(f.name) /\ Holds(w, f)
                                      /\ \A g : Holds(d, g) => Earlier(w, g, f)
<1>1. d \in Seq(File) /\ NamesOnce(d) /\ w = Written(d, f, left)
  BY DEF RecoveryTypeOK, WritesFile
<1>2. NamesOnce(w)
  BY <1>1, WrittenFacts
<1>3. ~clobbered' => left = "absent" \/ ~Exists(f.name)
  BY DEF WritesFile
<1>4. ~clobbered' => left = "absent" \/ ~\E i \in DOMAIN d : d[i].name = f.name
  BY <1>3 DEF Exists
<1> QED
  BY <1>1, <1>2, <1>3, <1>4, NewFileFacts

(* Nothing but the disk grows.                                              *)
LEMMA DiskGrows ==
  ASSUME NEW d, d = disk, NEW w, w = disk',
         \A g : Holds(d, g) => Holds(w, g), \A g, h : Earlier(d, g, h) => Earlier(w, g, h),
         UNCHANGED <<cpc, level, snapshot, inputs>>
  PROVE  /\ InputFiles => InputFiles'
         /\ MadeFiles /\ UNCHANGED <<made, made_names>> => MadeFiles'
         /\ TableFiles /\ UNCHANGED <<sstables, names>> => TableFiles'
<1>1. InputFiles => InputFiles'
  <2>1. Inputs' = Inputs
    BY DEF Inputs
  <2>2. \A g : Holds(disk, g) => Holds(disk', g)
    OBVIOUS
  <2> QED
    BY <2>1, <2>2 DEF InputFiles, Holds
<1>2. ASSUME MadeFiles, UNCHANGED <<made, made_names>> PROVE MadeFiles'
  <2>1. SUFFICES ASSUME cpc \in {"create", "install"}
                 PROVE  /\ ListOnDisk(made_names, made, w) /\ OfLevel(made_names, level + 1)
                        /\ Disjoint(made_names, inputs)
    BY <1>2 DEF MadeFiles, ListOnDisk, OfLevel, Disjoint, FileAt, Holds, Earlier
  <2> QED
    BY <1>2, <2>1, ListGrows DEF MadeFiles
<1>3. ASSUME TableFiles, UNCHANGED <<sstables, names>> PROVE TableFiles'
  <2>1. \A l \in Level : ListOnDisk(names[l], sstables[l], w)
    BY <1>3, ListGrows DEF TableFiles
  <2> QED
    BY <1>3, <2>1 DEF TableFiles, ListOnDisk, OfLevel, FileAt, Holds, Earlier
<1> QED
  BY <1>1, <1>2, <1>3

LEMMA SameFiles ==
  ASSUME FilesInv, UNCHANGED <<disk, names, inputs, made_names, clobbered, sstables>>,
         \/ UNCHANGED compactor
         \/ cpc \notin {"create", "install"} /\ cpc' \notin {"create", "install", "delete"}
  PROVE  FilesInv'
<1>1. NamesOnce(disk)' /\ MadeAtRest'
  BY DEF FilesInv, NamesOnce, MadeAtRest, compactor
<1>2. CASE UNCHANGED compactor
  <2>1. UNCHANGED <<cpc, level, snapshot, made>> /\ UNCHANGED <<sstables, names, made_names>>
    BY <1>2 DEF compactor
  <2>2. PICK d, w : d = disk /\ w = disk'
    OBVIOUS
  <2>3. /\ \A g : Holds(d, g) => Holds(w, g)
        /\ \A g, h : Earlier(d, g, h) => Earlier(w, g, h)
    BY <2>2
  <2>4. ~clobbered => TableFiles' /\ InputFiles' /\ MadeFiles'
    BY <2>1, <2>2, <2>3, DiskGrows DEF FilesInv
  <2>5. ~clobbered => DeletedFiles'
    BY <2>1 DEF FilesInv, DeletedFiles, Disjoint
  <2> QED
    BY <1>1, <2>4, <2>5 DEF FilesInv
<1>3. CASE cpc' \notin {"create", "install", "delete"}
  <2>1. InputFiles' /\ MadeFiles' /\ DeletedFiles'
    BY <1>3 DEF InputFiles, MadeFiles, DeletedFiles
  <2>2. ~clobbered => TableFiles'
    BY DEF FilesInv, TableFiles, ListOnDisk, FileAt, OfLevel, Holds, Earlier
  <2> QED
    BY <1>1, <2>1, <2>2 DEF FilesInv
<1> QED
  BY <1>2, <1>3
(* A flush: the new table is the newest of level 0, and so is its file.     *)
LEMMA FlushFiles ==
  ASSUME BaseInv, FilesInv, ~clobbered, NEW c \in Client, NEW r \in AnyResult, NEW left \in Left,
         NEW s \in 0..MaxSecond, FlushToFile(c, r, left, s)
  PROVE  FilesInv'
<1>0. /\ WorkInv /\ RecoveryTypeOK /\ Shape /\ disk \in Seq(File) /\ NamesOnce(disk) /\ MadeAtRest
      /\ TableFiles /\ InputFiles /\ MadeFiles /\ DeletedFiles
      /\ names \in [Level -> Seq(FileName)] /\ sstables \in [Level -> Seq(EntryMap)] /\ 0 \in Level
      /\ level \in Level /\ level + 1 \in Level /\ level + 1 # 0
  <2>1. 0 \in Level
    BY StorageEngineAssumption DEF Level
  <2>2. WorkInv /\ RecoveryTypeOK /\ Shape /\ disk \in Seq(File) /\ CompactorTypeOK
    BY DEF BaseInv, WorkInv, RecoveryTypeOK
  <2>3. NamesOnce(disk) /\ MadeAtRest /\ TableFiles /\ InputFiles /\ MadeFiles /\ DeletedFiles
    BY DEF FilesInv
  <2>4. names \in [Level -> Seq(FileName)] /\ sstables \in [Level -> Seq(EntryMap)]
    BY <2>2 DEF RecoveryTypeOK, Shape, TypeOK
  <2>5. level \in Level /\ level + 1 \in Level /\ level + 1 # 0
    BY <2>2 DEF CompactorTypeOK, Level
  <2> QED
    BY <2>1, <2>2, <2>3, <2>4, <2>5
<1>1. PICK m \in Ids : Flushes(c, m, r, left, s)
  BY <1>0, FlushedFacts DEF AnyResult
<1>2. UNCHANGED compactor /\ UNCHANGED <<cpc, level, snapshot, made>>
  BY DEF FlushToFile, compactor
<1>3. CASE heap[m].count = 0 /\ UNCHANGED files
  <2>1. UNCHANGED sstables
    BY <1>1, <1>3 DEF Flushes, FlushMemtable
  <2> QED
    BY <1>2, <1>3, <2>1, SameFiles DEF files
<1>4. CASE heap[m].count # 0
  <2>1. PICK f \in File : f = FileOf(m, s)
    BY <1>1, <1>4 DEF Flushes
  <2>2. /\ WritesFile(f, left) /\ (r = "ok" => left = "complete")
        /\ names' = IF r = "ok" THEN [names EXCEPT ![0] = Append(@, f.name)] ELSE names
        /\ sstables' = IF r = "ok" THEN [sstables EXCEPT ![0] = Append(@, f.data)] ELSE sstables
        /\ UNCHANGED <<inputs, made_names>>
    <3>1. f.data = heap[m].data
      BY <2>1 DEF FileOf
    <3>2. heap[m].count > 0
      <4>1. heap[m] \in MemTableRec
        BY <1>0, DataTypes
      <4>2. heap[m].count \in Nat
        BY <4>1 DEF MemTableRec
      <4> QED
        BY <1>4, <4>2
    <3> QED
      BY <1>1, <1>4, <2>1, <3>1, <3>2 DEF Flushes, FlushMemtable
  <2>3. PICK d, w : d = disk /\ w = disk'
    OBVIOUS
  <2>4. NamesOnce(w)
    BY <1>0, <2>2, <2>3, WritesNewFile
  <2>5. NamesOnce(disk)' /\ MadeAtRest'
    BY <1>0, <1>2, <2>2, <2>3, <2>4 DEF NamesOnce, MadeAtRest
  <2> SUFFICES ASSUME ~clobbered' PROVE TableFiles' /\ InputFiles' /\ MadeFiles' /\ DeletedFiles'
    BY <2>5 DEF FilesInv
  <2>6. /\ \A g : Holds(d, g) => Holds(w, g)
        /\ \A g, h : Earlier(d, g, h) => Earlier(w, g, h)
        /\ left = "complete" => /\ ~Exists(f.name) /\ Holds(w, f)
                                /\ \A g : Holds(d, g) => Earlier(w, g, f)
    BY <1>0, <2>2, <2>3, WritesNewFile
  <2>7. /\ InputFiles' /\ MadeFiles'
        /\ UNCHANGED <<sstables, names>> => TableFiles'
    BY <1>0, <1>2, <2>2, <2>3, <2>6, DiskGrows
  <2>8. CASE r # "ok"
    BY <1>0, <1>2, <2>2, <2>7, <2>8 DEF DeletedFiles, Disjoint
  <2>9. CASE r = "ok"
    <3>1. f.name \in FileName /\ f.data \in EntryMap /\ f = [name |-> f.name, data |-> f.data]
          /\ f.name.level = 0
      BY <2>1 DEF File, FileOf, NewName
    <3>2. PICK ns, ts : ns = Append(names[0], f.name) /\ ts = Append(sstables[0], f.data)
      OBVIOUS
    <3>3. /\ names'[0] = ns /\ sstables'[0] = ts
          /\ \A l \in Level : l # 0 => names'[l] = names[l] /\ sstables'[l] = sstables[l]
      BY <1>0, <2>2, <2>9, <3>2
    <3>4. ListOnDisk(ns, ts, w)
      <4>1. names[0] \in Seq(FileName) /\ sstables[0] \in Seq(EntryMap)
            /\ ListOnDisk(names[0], sstables[0], d)
        BY <1>0, <2>3 DEF TableFiles
      <4>2. Holds(w, f) /\ \A g : Holds(d, g) => Earlier(w, g, f)
        BY <2>2, <2>6, <2>9
      <4> QED
        BY <2>6, <3>1, <3>2, <4>1, <4>2, ListAppended
    <3>5. /\ DOMAIN ns = 1..(Len(names[0]) + 1) /\ Len(names[0]) \in Nat
          /\ DOMAIN names[0] = 1..Len(names[0])
          /\ ns[Len(names[0]) + 1] = f.name /\ \A i \in 1..Len(names[0]) : ns[i] = names[0][i]
      <4>1. names[0] \in Seq(FileName)
        BY <1>0
      <4> QED
        BY <3>1, <3>2, <4>1, SeqAppend
    <3>6. \A i \in DOMAIN ns : ns[i] = f.name \/ \E j \in DOMAIN names[0] : ns[i] = names[0][j]
      <4>1. \A i \in DOMAIN ns : i = Len(names[0]) + 1 \/ i \in DOMAIN names[0]
        BY <3>5
      <4> QED
        BY <3>5, <4>1
    <3>7. \A l \in Level : ListOnDisk(names'[l], sstables'[l], w) /\ OfLevel(names'[l], l)
      <4> TAKE l \in Level
      <4>1. CASE l = 0
        <5>1. OfLevel(names[0], 0)
          BY <1>0 DEF TableFiles
        <5>2. OfLevel(ns, 0)
          BY <3>1, <3>6, <5>1 DEF OfLevel
        <5> QED
          BY <3>3, <3>4, <4>1, <5>2
      <4>2. CASE l # 0
        <5>1. ListOnDisk(names[l], sstables[l], d) /\ OfLevel(names[l], l)
          BY <1>0, <2>3 DEF TableFiles
        <5>2. ListOnDisk(names[l], sstables[l], w)
          BY <2>6, <5>1, ListGrows
        <5> QED
          BY <3>3, <4>2, <5>1, <5>2
      <4> QED
        BY <4>1, <4>2
    <3>8. TableFiles'
      BY <2>3, <3>7 DEF TableFiles, ListOnDisk, OfLevel, FileAt, Holds, Earlier
    <3>9. ASSUME cpc = "delete"
          PROVE  sstables'[level + 1] = made /\ \A l \in Level : Disjoint(names'[l], inputs)
      <4>1. sstables[level + 1] = made /\ \A l \in Level : Disjoint(names[l], inputs)
        BY <1>0, <3>9 DEF DeletedFiles
      <4>2. \A i \in DOMAIN inputs : inputs[i] # f.name
        <5>1. \A i \in DOMAIN inputs : Exists(inputs[i])
          BY <1>0, <3>9, InputsExist
        <5> QED
          BY <2>2, <2>6, <2>9, <5>1
      <4>3. Disjoint(ns, inputs)
        <5>1. \A j \in DOMAIN names[0], i \in DOMAIN inputs : names[0][j] # inputs[i]
          BY <1>0, <4>1 DEF Disjoint
        <5>2. ASSUME NEW i \in DOMAIN ns, NEW j \in DOMAIN inputs PROVE ns[i] # inputs[j]
          BY <3>6, <4>2, <5>1
        <5> QED
          BY <5>2 DEF Disjoint
      <4> QED
        BY <1>0, <3>3, <4>1, <4>3
    <3>10. DeletedFiles'
      BY <1>2, <2>2, <3>9 DEF DeletedFiles, Disjoint
    <3> QED
      BY <2>7, <3>8, <3>10
  <2> QED
    BY <2>8, <2>9
<1> QED
  BY <1>1, <1>3, <1>4 DEF Flushes
(* What a step of a file needs of the types.                                *)
FilesContext ==
  /\ WorkInv /\ RecoveryTypeOK /\ disk \in Seq(File) /\ NamesOnce(disk) /\ MadeAtRest
  /\ names \in [Level -> Seq(FileName)] /\ sstables \in [Level -> Seq(EntryMap)]
  /\ level \in Level /\ level + 1 \in Level /\ level \in Nat
  /\ made \in Seq(EntryMap) /\ made_names \in Seq(FileName) /\ inputs \in Seq(FileName)

LEMMA FilesContextHolds ==
  ASSUME BaseInv, FilesInv
  PROVE  FilesContext
<1>1. WorkInv /\ RecoveryTypeOK /\ Shape /\ CompactorTypeOK
  BY DEF BaseInv, WorkInv
<1>2. NamesOnce(disk) /\ MadeAtRest
  BY DEF FilesInv
<1>3. names \in [Level -> Seq(FileName)] /\ sstables \in [Level -> Seq(EntryMap)]
      /\ disk \in Seq(File) /\ made_names \in Seq(FileName) /\ inputs \in Seq(FileName)
  BY <1>1 DEF RecoveryTypeOK, Shape, TypeOK
<1>4. level \in Level /\ level + 1 \in Level /\ level \in Nat /\ made \in Seq(EntryMap)
  BY <1>1 DEF CompactorTypeOK, Level
<1> QED
  BY <1>1, <1>2, <1>3, <1>4 DEF FilesContext

(* A new table of compaction.                                               *)
LEMMA CreateFiles ==
  ASSUME BaseInv, FilesInv, ~clobbered, NEW r, NEW left,
         NEW s \in 0..MaxSecond, CreateFile(r, left, s)
  PROVE  FilesInv'
<1>0. FilesContext /\ TableFiles /\ InputFiles /\ MadeFiles
  BY FilesContextHolds DEF FilesInv
<1>1. PICK f : f = MadeFile(s)
  OBVIOUS
<1>2. /\ f \in File /\ f.name.level = level + 1 /\ f.data = Head(todo)
      /\ left \in Left /\ (r = "ok" => left = "complete") /\ WritesFile(f, left)
  BY <1>0, <1>1, CreatedFacts DEF FilesContext
<1>3. /\ cpc = "create" /\ UNCHANGED <<sstables, names>>
      /\ r = "ok" => /\ made' = Append(made, f.data) /\ made_names' = Append(made_names, f.name)
                     /\ UNCHANGED <<inputs, level, snapshot>> /\ cpc' \in {"create", "install"}
      /\ r # "ok" => made_names' = <<>> /\ cpc' = "tick"
  <2>1. f.name = NewName(level + 1, s, sequence_counter)
    BY <1>1 DEF MadeFile
  <2> QED
    BY <1>2, <2>1 DEF CreateFile, CreateTable, GiveUp
<1>4. PICK d, w : d = disk /\ w = disk'
  OBVIOUS
<1>5. NamesOnce(w)
  BY <1>0, <1>2, <1>4, WritesNewFile DEF FilesContext
<1>6. NamesOnce(disk)' /\ MadeAtRest'
  BY <1>3, <1>4, <1>5 DEF NamesOnce, MadeAtRest
<1> SUFFICES ASSUME ~clobbered' PROVE TableFiles' /\ InputFiles' /\ MadeFiles' /\ DeletedFiles'
  BY <1>6 DEF FilesInv
<1>7. /\ \A g : Holds(d, g) => Holds(w, g)
      /\ \A g, h : Earlier(d, g, h) => Earlier(w, g, h)
      /\ left = "complete" => /\ ~Exists(f.name) /\ Holds(w, f)
                              /\ \A g : Holds(d, g) => Earlier(w, g, f)
  BY <1>0, <1>2, <1>4, WritesNewFile DEF FilesContext
<1>8. TableFiles'
  <2>1. \A l \in Level : ListOnDisk(names[l], sstables[l], w)
    BY <1>0, <1>4, <1>7, ListGrows DEF TableFiles
  <2> QED
    BY <1>0, <1>3, <1>4, <2>1 DEF TableFiles, ListOnDisk, OfLevel, FileAt, Holds, Earlier
<1>9. CASE r # "ok"
  BY <1>3, <1>8, <1>9 DEF InputFiles, MadeFiles, DeletedFiles
<1>10. CASE r = "ok"
  <2>1. InputFiles'
    <3>1. Inputs' = Inputs
      BY <1>3, <1>10 DEF Inputs
    <3>2. \A g : Holds(disk, g) => Holds(disk', g)
      BY <1>4, <1>7
    <3>3. /\ \A i \in DOMAIN inputs :
               /\ inputs[i].level \in {level, level + 1}
               /\ \E j \in DOMAIN Inputs : Holds(disk, [name |-> inputs[i], data |-> Inputs[j]])
          /\ \A i, j \in DOMAIN inputs : i # j => inputs[i] # inputs[j]
      BY <1>0, <1>3 DEF InputFiles
    <3>4. UNCHANGED <<inputs, level>>
      BY <1>3, <1>10
    <3>5. \A i \in DOMAIN inputs :
            \E j \in DOMAIN Inputs : Holds(disk', [name |-> inputs[i], data |-> Inputs[j]])
      BY <3>2, <3>3
    <3> QED
      BY <3>1, <3>3, <3>4, <3>5 DEF InputFiles, Holds
  <2>2. f.name \in FileName /\ f.data \in EntryMap /\ f = [name |-> f.name, data |-> f.data]
    BY <1>2 DEF File
  <2>3. ListOnDisk(made_names, made, d) /\ OfLevel(made_names, level + 1) /\ Disjoint(made_names, inputs)
    BY <1>0, <1>3, <1>4 DEF MadeFiles
  <2>4. PICK ns, ts : ns = Append(made_names, f.name) /\ ts = Append(made, f.data)
    OBVIOUS
  <2>5. ListOnDisk(ns, ts, w)
    <3>1. made_names \in Seq(FileName) /\ made \in Seq(EntryMap)
      BY <1>0 DEF FilesContext
    <3>2. Holds(w, f) /\ \A g : Holds(d, g) => Earlier(w, g, f)
      BY <1>2, <1>7, <1>10
    <3> QED
      BY <1>7, <2>2, <2>3, <2>4, <3>1, <3>2, ListAppended
  <2>6. \A i \in DOMAIN ns : ns[i] = f.name \/ \E j \in DOMAIN made_names : ns[i] = made_names[j]
    <3>1. made_names \in Seq(FileName)
      BY <1>0 DEF FilesContext
    <3>2. /\ DOMAIN ns = 1..(Len(made_names) + 1) /\ Len(made_names) \in Nat
          /\ DOMAIN made_names = 1..Len(made_names)
          /\ ns[Len(made_names) + 1] = f.name
          /\ \A i \in 1..Len(made_names) : ns[i] = made_names[i]
      BY <2>2, <2>4, <3>1, SeqAppend
    <3>3. \A i \in DOMAIN ns : i = Len(made_names) + 1 \/ i \in DOMAIN made_names
      BY <3>2
    <3> QED
      BY <3>2, <3>3
  <2>7. OfLevel(ns, level + 1)
    BY <1>2, <2>3, <2>6 DEF OfLevel
  <2>8. Disjoint(ns, inputs)
    <3>1. \A i \in DOMAIN inputs : inputs[i] # f.name
      <4>1. \A i \in DOMAIN inputs : Exists(inputs[i])
        BY <1>0, <1>3, InputsExist
      <4> QED
        BY <1>2, <1>7, <1>10, <4>1
    <3>2. \A j \in DOMAIN made_names, i \in DOMAIN inputs : made_names[j] # inputs[i]
      BY <2>3 DEF Disjoint
    <3>3. ASSUME NEW i \in DOMAIN ns, NEW j \in DOMAIN inputs PROVE ns[i] # inputs[j]
      BY <2>6, <3>1, <3>2
    <3> QED
      BY <3>3 DEF Disjoint
  <2>9. made' = ts /\ made_names' = ns /\ UNCHANGED <<inputs, level>> /\ cpc' # "delete"
    BY <1>3, <1>10, <2>4
  <2>10. MadeFiles' /\ DeletedFiles'
    BY <1>4, <2>5, <2>7, <2>8, <2>9 DEF MadeFiles, DeletedFiles, ListOnDisk, OfLevel, Disjoint, FileAt,
                                        Holds, Earlier
  <2> QED
    BY <1>8, <2>1, <2>10
<1> QED
  BY <1>9, <1>10

(* What compaction clones are two lists of tables, and their files.         *)
TablesOf(ns, ts, l, d) ==
  /\ ns \in Seq(FileName) /\ ts \in Seq(EntryMap)
  /\ ListOnDisk(ns, ts, d) /\ OfLevel(ns, l)
BothLevels(ns, ts, l, d) ==
  /\ \A i \in DOMAIN ns : /\ ns[i].level \in {l, l + 1}
                          /\ \E j \in DOMAIN ts : Holds(d, [name |-> ns[i], data |-> ts[j]])
  /\ \A i, j \in DOMAIN ns : i # j => ns[i] # ns[j]

LEMMA TwoLists ==
  ASSUME NEW a, NEW b, NEW x, NEW y, NEW d \in Seq(File), NEW l \in Nat, NamesOnce(d),
         TablesOf(a, x, l, d), TablesOf(b, y, l + 1, d)
  PROVE  BothLevels(a \o b, x \o y, l, d)
<1>0. PICK S, T : S = FileName /\ T = EntryMap
  OBVIOUS
<1>a. /\ a \in Seq(S) /\ b \in Seq(S) /\ x \in Seq(T) /\ y \in Seq(T)
      /\ ListOnDisk(a, x, d) /\ OfLevel(a, l) /\ ListOnDisk(b, y, d) /\ OfLevel(b, l + 1)
  BY <1>0 DEF TablesOf
<1>b. PICK c, z : c = a \o b /\ z = x \o y
  OBVIOUS
<1> DEFINE m == Len(a)
           n == Len(b)
<1>1. /\ DOMAIN a = DOMAIN x /\ DOMAIN b = DOMAIN y /\ m \in Nat /\ n \in Nat
      /\ Len(x) = m /\ Len(y) = n /\ DOMAIN a = 1..m /\ DOMAIN b = 1..n
  BY <1>a DEF ListOnDisk
<1>2. /\ c \in Seq(S) /\ Len(c) = m + n
      /\ \A i \in 1..(m + n) : c[i] = IF i <= m THEN a[i] ELSE b[i - m]
      /\ z \in Seq(T) /\ Len(z) = m + n
      /\ \A i \in 1..(m + n) : z[i] = IF i <= m THEN x[i] ELSE y[i - m]
  <2>1. a \o b \in Seq(S) /\ Len(a \o b) = m + n
        /\ \A i \in 1..(m + n) : (a \o b)[i] = IF i <= m THEN a[i] ELSE b[i - m]
    BY <1>a, ConcatProperties
  <2>2. x \o y \in Seq(T) /\ Len(x \o y) = Len(x) + Len(y)
        /\ \A i \in 1..(Len(x) + Len(y)) : (x \o y)[i] = IF i <= Len(x) THEN x[i] ELSE y[i - Len(x)]
    BY <1>a, ConcatProperties
  <2>3. Len(x) = m /\ Len(y) = n
    BY <1>1
  <2> QED
    BY <1>b, <2>1, <2>2, <2>3
<1> HIDE DEF m, n
<1>3. DOMAIN c = 1..(m + n) /\ DOMAIN z = 1..(m + n)
  BY <1>1, <1>2
<1>4. ASSUME NEW i \in 1..(m + n)
      PROVE  \/ i \in 1..m /\ c[i] = a[i] /\ z[i] = x[i]
             \/ i - m \in 1..n /\ c[i] = b[i - m] /\ z[i] = y[i - m] /\ i > m
  <2>1. CASE i <= m
    BY <1>1, <1>2, <2>1
  <2>2. CASE ~(i <= m)
    BY <1>1, <1>2, <2>2
  <2> QED
    BY <2>1, <2>2
<1>5. /\ \A i \in 1..m : a[i].level = l /\ Holds(d, [name |-> a[i], data |-> x[i]])
      /\ \A i \in 1..n : b[i].level = l + 1 /\ Holds(d, [name |-> b[i], data |-> y[i]])
  BY <1>1, <1>a DEF ListOnDisk, OfLevel, FileAt
<1>6. \A i \in 1..(m + n) : c[i].level \in {l, l + 1} /\ Holds(d, [name |-> c[i], data |-> z[i]])
  BY <1>4, <1>5
<1>7. \A i, j \in 1..m : i < j => a[i] # a[j]
  <2> SUFFICES ASSUME NEW i \in 1..m, NEW j \in 1..m, i < j PROVE a[i] # a[j]
    OBVIOUS
  <2>1. Earlier(d, FileAt(a, x, i), FileAt(a, x, j))
    BY <1>1, <1>a DEF ListOnDisk
  <2>2. FileAt(a, x, i).name # FileAt(a, x, j).name
    BY <2>1, NamesOnceFacts
  <2> QED
    BY <2>2 DEF FileAt
<1>8. \A i, j \in 1..n : i < j => b[i] # b[j]
  <2> SUFFICES ASSUME NEW i \in 1..n, NEW j \in 1..n, i < j PROVE b[i] # b[j]
    OBVIOUS
  <2>1. Earlier(d, FileAt(b, y, i), FileAt(b, y, j))
    BY <1>1, <1>a DEF ListOnDisk
  <2>2. FileAt(b, y, i).name # FileAt(b, y, j).name
    BY <2>1, NamesOnceFacts
  <2> QED
    BY <2>2 DEF FileAt
<1>9. ASSUME NEW i \in 1..(m + n), NEW j \in 1..(m + n), i < j PROVE c[i] # c[j]
  <2>1. CASE i \in 1..m /\ c[i] = a[i] /\ j \in 1..m /\ c[j] = a[j]
    BY <1>7, <1>9, <2>1
  <2>2. CASE i - m \in 1..n /\ c[i] = b[i - m] /\ j - m \in 1..n /\ c[j] = b[j - m]
    <3>1. i - m < j - m
      BY <1>1, <1>9
    <3> QED
      BY <1>8, <2>2, <3>1
  <2>3. CASE i \in 1..m /\ c[i] = a[i] /\ j - m \in 1..n /\ c[j] = b[j - m]
    <3>1. c[i].level = l /\ c[j].level = l + 1
      BY <1>5, <2>3
    <3>2. l # l + 1
      OBVIOUS
    <3> QED
      BY <3>1, <3>2
  <2>4. ~(i > m /\ j \in 1..m)
    BY <1>1, <1>9
  <2> QED
    BY <1>4, <2>1, <2>2, <2>3, <2>4
<1>10. \A i, j \in 1..(m + n) : i # j => c[i] # c[j]
  <2>1. \A i, j \in 1..(m + n) : i # j => i < j \/ j < i
    BY <1>1
  <2> QED
    BY <1>9, <2>1
<1>11. BothLevels(c, z, l, d)
  BY <1>3, <1>6, <1>10 DEF BothLevels
<1> QED
  BY <1>b, <1>11

LEMMA CloneStepFiles ==
  ASSUME BaseInv, FilesInv, ~clobbered, NEW r, CloneFiles(r)
  PROVE  FilesInv'
<1>0. FilesContext /\ TableFiles
  BY FilesContextHolds DEF FilesInv
<1>1. /\ cpc = "clone" /\ UNCHANGED <<disk, names, sstables, made_names, clobbered>> /\ made_names = <<>>
  BY <1>0 DEF CloneFiles, CloneAndMerge, vars, shared, FilesContext, MadeAtRest
<1>2. NamesOnce(disk)' /\ MadeAtRest'
  BY <1>0, <1>1 DEF FilesContext, NamesOnce, MadeAtRest
<1>3. TableFiles'
  BY <1>0, <1>1 DEF TableFiles, ListOnDisk, OfLevel, FileAt, Holds, Earlier
<1>4. CASE cpc' \notin {"create", "install", "delete"}
  BY <1>2, <1>3, <1>4 DEF FilesInv, InputFiles, MadeFiles, DeletedFiles
<1>5. CASE cpc' \in {"create", "install", "delete"}
  <2>1. /\ sstables[level] # <<>> /\ UNCHANGED level /\ cpc' \in {"create", "install"} /\ made' = made
        /\ snapshot' = [from |-> sstables[level], to |-> sstables[level + 1]]
    BY <1>1, <1>5 DEF CloneFiles, CloneAndMerge, NextLevel, GiveUp
  <2>2. inputs' = names[level] \o names[level + 1] /\ Inputs' = sstables[level] \o sstables[level + 1]
    BY <2>1 DEF CloneFiles, NoSnapshot, Inputs
  <2>3. made = <<>>
    BY <1>0, <1>1 DEF FilesContext, WorkInv, WorkShape
  <2>4. /\ \A i \in DOMAIN inputs' :
             /\ inputs'[i].level \in {level, level + 1}
             /\ \E j \in DOMAIN Inputs' : Holds(disk, [name |-> inputs'[i], data |-> Inputs'[j]])
        /\ \A i, j \in DOMAIN inputs' : i # j => inputs'[i] # inputs'[j]
    <3>1. PICK a, b, x, y : a = names[level] /\ b = names[level + 1] /\ x = sstables[level] /\ y = sstables[level + 1]
      OBVIOUS
    <3>2. PICK d, l : d = disk /\ l = level
      OBVIOUS
    <3>3. d \in Seq(File) /\ NamesOnce(d) /\ l \in Nat
      BY <1>0, <3>2 DEF FilesContext
    <3>4. TablesOf(a, x, l, d) /\ TablesOf(b, y, l + 1, d)
      BY <1>0, <3>1, <3>2 DEF FilesContext, TableFiles, TablesOf
    <3>5. BothLevels(a \o b, x \o y, l, d)
      BY <3>3, <3>4, TwoLists
    <3>6. PICK c, z : c = a \o b /\ z = x \o y
      OBVIOUS
    <3>7. BothLevels(c, z, l, d)
      BY <3>5, <3>6
    <3>8. inputs' = c /\ Inputs' = z
      BY <2>2, <3>1, <3>6
    <3> QED
      BY <3>2, <3>7, <3>8 DEF BothLevels
  <2>5. InputFiles'
    BY <1>1, <2>1, <2>4 DEF InputFiles, Holds
  <2>6. MadeFiles'
    BY <1>1, <2>1, <2>3 DEF MadeFiles, ListOnDisk, OfLevel, Disjoint, Holds
  <2>7. DeletedFiles'
    BY <2>1 DEF DeletedFiles
  <2> QED
    BY <1>2, <1>3, <2>5, <2>6, <2>7 DEF FilesInv
<1> QED
  BY <1>4, <1>5

LEMMA InstallStepFiles ==
  ASSUME BaseInv, FilesInv, ~clobbered, InstallFiles
  PROVE  FilesInv'
<1>0. FilesContext /\ TableFiles /\ InputFiles /\ MadeFiles
  BY FilesContextHolds DEF FilesInv
<1>1. /\ cpc = "install" /\ cpc' = "delete"
      /\ UNCHANGED <<disk, inputs, level, snapshot, made, clobbered>> /\ made_names' = <<>>
  BY DEF InstallFiles, Install
<1>2. /\ sstables'[level] = <<>> /\ sstables'[level + 1] = made
      /\ names'[level] = <<>> /\ names'[level + 1] = made_names
      /\ \A l \in Level : l # level /\ l # level + 1 => names'[l] = names[l] /\ sstables'[l] = sstables[l]
  <2>1. level # level + 1
    BY <1>0 DEF FilesContext
  <2>2. names' = [names EXCEPT ![level] = <<>>, ![level + 1] = made_names]
    BY DEF InstallFiles
  <2>3. sstables' = [sstables EXCEPT ![level] = <<>>, ![level + 1] = made]
    BY DEF InstallFiles, Install, Installed
  <2>4. /\ names'[level] = <<>> /\ names'[level + 1] = made_names
        /\ \A l \in Level : l # level /\ l # level + 1 => names'[l] = names[l]
    BY <1>0, <2>1, <2>2 DEF FilesContext
  <2>5. /\ sstables'[level] = <<>> /\ sstables'[level + 1] = made
        /\ \A l \in Level : l # level /\ l # level + 1 => sstables'[l] = sstables[l]
    BY <1>0, <2>1, <2>3 DEF FilesContext
  <2> QED
    BY <2>4, <2>5
<1>3. ListOnDisk(made_names, made, disk) /\ OfLevel(made_names, level + 1) /\ Disjoint(made_names, inputs)
  BY <1>0, <1>1 DEF MadeFiles
<1>4. ASSUME NEW l \in Level
      PROVE  /\ ListOnDisk(names'[l], sstables'[l], disk) /\ OfLevel(names'[l], l)
             /\ Disjoint(names'[l], inputs)
  <2>1. CASE l = level
    <3>1. ListOnDisk(<<>>, <<>>, disk) /\ OfLevel(<<>>, l) /\ Disjoint(<<>>, inputs)
      BY DEF ListOnDisk, OfLevel, Disjoint
    <3> QED
      BY <1>2, <2>1, <3>1
  <2>2. CASE l = level + 1
    BY <1>2, <1>3, <2>2
  <2>3. CASE l # level /\ l # level + 1
    <3>1. ListOnDisk(names[l], sstables[l], disk) /\ OfLevel(names[l], l)
      BY <1>0 DEF TableFiles
    <3>2. \A i \in DOMAIN inputs : inputs[i].level \in {level, level + 1}
      BY <1>0, <1>1 DEF InputFiles
    <3>3. Disjoint(names[l], inputs)
      BY <2>3, <3>1, <3>2 DEF OfLevel, Disjoint
    <3> QED
      BY <1>2, <2>3, <3>1, <3>3
  <2> QED
    BY <2>1, <2>2, <2>3
<1>5. TableFiles'
  BY <1>1, <1>4 DEF TableFiles, ListOnDisk, OfLevel, FileAt, Holds, Earlier
<1>6. DeletedFiles'
  BY <1>1, <1>2, <1>4 DEF DeletedFiles, Disjoint
<1>7. InputFiles'
  <2>1. Inputs' = Inputs
    BY <1>1 DEF Inputs
  <2>2. /\ \A i \in DOMAIN inputs :
             /\ inputs[i].level \in {level, level + 1}
             /\ \E j \in DOMAIN Inputs : Holds(disk, [name |-> inputs[i], data |-> Inputs[j]])
        /\ \A i, j \in DOMAIN inputs : i # j => inputs[i] # inputs[j]
    BY <1>0, <1>1 DEF InputFiles
  <2> QED
    BY <1>1, <2>1, <2>2 DEF InputFiles, Holds
<1>8. MadeFiles' /\ MadeAtRest' /\ NamesOnce(disk)'
  BY <1>0, <1>1 DEF MadeFiles, MadeAtRest, FilesContext, NamesOnce
<1> QED
  BY <1>5, <1>6, <1>7, <1>8 DEF FilesInv

(* No table has the name of a file that is deleted.                         *)
LEMMA DeleteStepFiles ==
  ASSUME BaseInv, FilesInv, ~clobbered, NEW r, DeleteFile(r)
  PROVE  FilesInv'
<1>0. FilesContext /\ TableFiles /\ InputFiles /\ DeletedFiles
  BY FilesContextHolds DEF FilesInv
<1>1. /\ cpc = "delete" /\ inputs # <<>> /\ inputs' = Tail(inputs)
      /\ UNCHANGED <<cpc, level, snapshot, made, sstables, names, made_names, clobbered>>
  BY DEF DeleteFile, cvars, vars, shared, compactor
<1>2. PICK name : name = Head(inputs)
  OBVIOUS
<1>3. PICK d, w : d = disk /\ w = disk'
  OBVIOUS
<1>4. w = d \/ w = Without(d, name)
  BY <1>2, <1>3 DEF DeleteFile
<1>5. /\ w \in Seq(File) /\ NamesOnce(w)
      /\ \A g : Holds(d, g) /\ g.name # name => Holds(w, g)
      /\ \A g, h : Earlier(d, g, h) /\ g.name # name /\ h.name # name => Earlier(w, g, h)
  <2>1. d \in Seq(File) /\ NamesOnce(d)
    BY <1>0, <1>3 DEF FilesContext
  <2>2. CASE w = d
    BY <2>1, <2>2
  <2>3. CASE w = Without(d, name)
    <3>1. /\ w \in Seq(File)
          /\ \A f : Holds(w, f) <=> Holds(d, f) /\ f.name # name
          /\ \A f, g : Earlier(w, f, g) <=> Earlier(d, f, g) /\ f.name # name /\ g.name # name
      BY <2>1, <2>3, WithoutFacts
    <3>2. NamesOnce(w)
      BY <2>1, <3>1, NamesOnceFacts
    <3> QED
      BY <3>1, <3>2
  <2> QED
    BY <1>4, <2>2, <2>3
<1>6. /\ 1 \in DOMAIN inputs /\ name = inputs[1]
      /\ \A i \in DOMAIN inputs' : i + 1 \in DOMAIN inputs /\ inputs'[i] = inputs[i + 1] /\ i + 1 # 1
                                   /\ i \in Nat
  <2>1. inputs \in Seq(FileName)
    BY <1>0 DEF FilesContext
  <2>2. PICK t : t = inputs
    OBVIOUS
  <2>3. t \in Seq(FileName) /\ t # <<>>
    BY <1>1, <2>1, <2>2
  <2>4. /\ 1 \in DOMAIN t /\ Head(t) = t[1]
        /\ \A i \in DOMAIN Tail(t) : i + 1 \in DOMAIN t /\ Tail(t)[i] = t[i + 1] /\ i + 1 # 1 /\ i \in Nat
    <3>1. PICK S : S = FileName
      OBVIOUS
    <3>2. t \in Seq(S) /\ t # <<>>
      BY <2>3, <3>1
    <3> QED
      BY <3>2
  <2> QED
    BY <1>1, <1>2, <2>2, <2>4
<1>7. sstables[level + 1] = made /\ \A l \in Level : Disjoint(names[l], inputs)
  BY <1>0, <1>1 DEF DeletedFiles
<1>8. /\ \A i \in DOMAIN inputs :
           /\ inputs[i].level \in {level, level + 1}
           /\ \E j \in DOMAIN Inputs : Holds(disk, [name |-> inputs[i], data |-> Inputs[j]])
      /\ \A i, j \in DOMAIN inputs : i # j => inputs[i] # inputs[j]
  BY <1>0, <1>1 DEF InputFiles
<1>9. \A l \in Level : ListOnDisk(names[l], sstables[l], w) /\ Disjoint(names[l], inputs')
  <2> TAKE l \in Level
  <2>1. ListOnDisk(names[l], sstables[l], d) /\ Disjoint(names[l], inputs)
    BY <1>0, <1>3, <1>7 DEF TableFiles
  <2>2. \A g : (\E i \in DOMAIN names[l] : g.name = names[l][i]) => g.name # name
    BY <1>6, <2>1 DEF Disjoint
  <2>3. ListOnDisk(names[l], sstables[l], w)
    <3>1. PICK ns, ts : ns = names[l] /\ ts = sstables[l]
      OBVIOUS
    <3>2. /\ \A g : Holds(d, g) /\ (\E i \in DOMAIN ns : g.name = ns[i]) => Holds(w, g)
          /\ \A g, h : /\ Earlier(d, g, h)
                       /\ (\E i \in DOMAIN ns : g.name = ns[i]) /\ (\E i \in DOMAIN ns : h.name = ns[i])
                       => Earlier(w, g, h)
      BY <1>5, <2>2, <3>1
    <3> QED
      BY <2>1, <3>1, <3>2, ListKept
  <2>4. Disjoint(names[l], inputs')
    BY <1>6, <2>1 DEF Disjoint
  <2> QED
    BY <2>3, <2>4
<1>10. TableFiles' /\ DeletedFiles'
  BY <1>0, <1>1, <1>3, <1>7, <1>9 DEF TableFiles, DeletedFiles, ListOnDisk, OfLevel, FileAt, Disjoint,
                                      Holds, Earlier
<1>11. InputFiles'
  <2>1. Inputs' = Inputs
    BY <1>1 DEF Inputs
  <2>2. ASSUME NEW i \in DOMAIN inputs'
        PROVE  /\ inputs'[i].level \in {level, level + 1}
               /\ \E j \in DOMAIN Inputs : Holds(w, [name |-> inputs'[i], data |-> Inputs[j]])
    <3>1. i + 1 \in DOMAIN inputs /\ inputs'[i] = inputs[i + 1] /\ inputs[i + 1] # name
      BY <1>6, <1>8
    <3>2. PICK j \in DOMAIN Inputs : Holds(d, [name |-> inputs'[i], data |-> Inputs[j]])
      BY <1>3, <1>8, <3>1
    <3>3. Holds(w, [name |-> inputs'[i], data |-> Inputs[j]])
      BY <1>5, <3>1, <3>2
    <3> QED
      BY <1>8, <3>1, <3>3
  <2>3. ASSUME NEW i \in DOMAIN inputs', NEW j \in DOMAIN inputs', i # j PROVE inputs'[i] # inputs'[j]
    <3>1. i + 1 # j + 1 /\ i + 1 \in DOMAIN inputs /\ j + 1 \in DOMAIN inputs
      BY <1>6, <2>3
    <3> QED
      BY <1>6, <1>8, <3>1
  <2> QED
    BY <1>1, <1>3, <2>1, <2>2, <2>3 DEF InputFiles, Holds
<1>12. MadeFiles' /\ MadeAtRest' /\ NamesOnce(disk)'
  BY <1>0, <1>1, <1>3, <1>5 DEF MadeFiles, MadeAtRest, FilesContext, NamesOnce
<1> QED
  BY <1>10, <1>11, <1>12 DEF FilesInv
(* At the end of the process no file is touched, unless one is overwritten. *)
LEMMA CrashKeeps ==
  ASSUME IsFiniteSet(Client), BaseInv, FilesInv,
         NEW s \in 0..MaxSecond, NEW left \in [UnderWay(s) -> Left], Crash(s, left),
         NEW d, d = disk, NEW w, w = disk'
  PROVE  /\ NamesOnce(w)
         /\ ~clobbered' => /\ ~clobbered
                           /\ \A g : Holds(d, g) => Holds(w, g)
                           /\ \A g, h : Earlier(d, g, h) => Earlier(w, g, h)
<1>0. FilesContext
  BY FilesContextHolds
<1>1. w = Writes!Fold(UnderWay(s), d, left)
  BY CrashBase
<1>2. PICK S : S = UnderWay(s)
  OBVIOUS
<1>3. S \in SUBSET File /\ IsFiniteSet(S)
  BY <1>0, <1>2, UnderWayFacts DEF FilesContext
<1>4. /\ NamesOnce(w)
      /\ \A g : Holds(d, g) /\ (\A f \in S : Spared(g, f, left[f])) => Holds(w, g)
      /\ \A g, h : Earlier(d, g, h) /\ (\A f \in S : Spared(g, f, left[f]) /\ Spared(h, f, left[f]))
                    => Earlier(w, g, h)
  <2>1. left \in [S -> Left] /\ d \in Seq(File) /\ NamesOnce(d) /\ w = Writes!Fold(S, d, left)
    BY <1>0, <1>1, <1>2 DEF FilesContext
  <2> QED
    BY <1>3, <2>1, AllWrittenFacts
<1>5. ~clobbered' => ~clobbered /\ \A f \in S : left[f] = "absent" \/ ~Exists(f.name)
  BY <1>2, ZenonT(60) DEF Crash
<1>6. ASSUME ~clobbered'
      PROVE  /\ \A g : Holds(d, g) => Holds(w, g)
             /\ \A g, h : Earlier(d, g, h) => Earlier(w, g, h)
  <2>1. \A g : Holds(d, g) => \A f \in S : Spared(g, f, left[f])
    BY <1>5, <1>6 DEF Holds, Exists, Spared
  <2>2. \A g, h : Earlier(d, g, h) => Holds(d, g) /\ Holds(d, h)
    BY DEF Earlier, Holds
  <2> QED
    BY <1>4, <2>1, <2>2
<1> QED
  BY <1>4, <1>5, <1>6

LEMMA CrashFiles ==
  ASSUME IsFiniteSet(Client), BaseInv, FilesInv,
         NEW s \in 0..MaxSecond, NEW left \in [UnderWay(s) -> Left], Crash(s, left)
  PROVE  FilesInv'
<1>1. UNCHANGED sstables /\ Fresh'
  BY CrashBase
<1>2. PICK d, w : d = disk /\ w = disk'
  OBVIOUS
<1>3. /\ NamesOnce(w)
      /\ ~clobbered' => /\ ~clobbered
                        /\ \A g : Holds(d, g) => Holds(w, g)
                        /\ \A g, h : Earlier(d, g, h) => Earlier(w, g, h)
  BY <1>2, CrashKeeps
<1>4. cpc' = "tick" /\ made_names' = <<>> /\ names' = names
  BY Zenon DEF Crash
<1>5. NamesOnce(disk)' /\ MadeAtRest'
  BY <1>2, <1>3, <1>4 DEF NamesOnce, MadeAtRest
<1>6. InputFiles' /\ MadeFiles' /\ DeletedFiles'
  BY <1>4 DEF InputFiles, MadeFiles, DeletedFiles
<1>7. ASSUME ~clobbered' PROVE TableFiles'
  <2>1. \A l \in Level : ListOnDisk(names[l], sstables[l], d) /\ OfLevel(names[l], l)
    BY <1>2, <1>3, <1>7 DEF FilesInv, TableFiles
  <2>2. \A l \in Level : ListOnDisk(names[l], sstables[l], w)
    BY <1>3, <1>7, <2>1, ListGrows
  <2> QED
    BY <1>1, <1>2, <1>4, <2>1, <2>2 DEF TableFiles, ListOnDisk, OfLevel, FileAt, Holds, Earlier
<1> QED
  BY <1>5, <1>6, <1>7 DEF FilesInv

(* Open makes a table of every file, in the order of the files.             *)
LEMMA OpenFiles ==
  ASSUME BaseInv, FilesInv, Open
  PROVE  FilesInv'
<1>0. FilesContext /\ AsleepInMemory
  BY FilesContextHolds DEF BaseInv, Open
<1>1. UNCHANGED <<disk, made_names, cpc>> /\ cpc = "tick"
  BY <1>0 DEF Open, compactor, AsleepInMemory
<1>2. NamesOnce(disk)' /\ MadeAtRest' /\ InputFiles' /\ MadeFiles' /\ DeletedFiles'
  BY <1>0, <1>1 DEF FilesContext, NamesOnce, MadeAtRest, InputFiles, MadeFiles, DeletedFiles
<1>3. ASSUME NEW l \in Level
      PROVE  ListOnDisk(names'[l], sstables'[l], disk) /\ OfLevel(names'[l], l)
  <2>1. PICK w, d : w = Loaded(l) /\ d = disk
    OBVIOUS
  <2>2. /\ w \in Seq(File)
        /\ DOMAIN sstables'[l] = DOMAIN w /\ DOMAIN names'[l] = DOMAIN w
        /\ \A i \in DOMAIN w : /\ sstables'[l][i] = w[i].data /\ names'[l][i] = w[i].name
                               /\ w[i].name.level = l /\ Holds(d, w[i])
    <3>1. disk \in Seq(File)
      BY <1>0 DEF FilesContext
    <3> QED
      BY <2>1, <3>1, OpenedTables
  <2>3. \A f, g : Earlier(w, f, g) => Earlier(d, f, g)
    BY <1>0, <2>1, LoadedFacts DEF FilesContext
  <2>4. \A i \in DOMAIN w : [name |-> w[i].name, data |-> w[i].data] = w[i]
    <3>1. \A i \in DOMAIN w : w[i] \in File
      BY <2>2
    <3>2. \A f \in File : [name |-> f.name, data |-> f.data] = f
      BY DEF File
    <3> QED
      BY <3>1, <3>2
  <2>5. PICK ns, ts : ns = names'[l] /\ ts = sstables'[l]
    OBVIOUS
  <2>6. \A i \in DOMAIN w : FileAt(ns, ts, i) = w[i]
    BY <2>2, <2>4, <2>5 DEF FileAt
  <2>7. \A i, j \in DOMAIN w : i < j => Earlier(d, w[i], w[j])
    BY <2>3 DEF Earlier
  <2>8. ListOnDisk(ns, ts, d) /\ OfLevel(ns, l)
    BY <2>2, <2>5, <2>6, <2>7 DEF ListOnDisk, OfLevel
  <2> QED
    BY <2>1, <2>5, <2>8
<1>4. TableFiles'
  BY <1>1, <1>3 DEF TableFiles, ListOnDisk, OfLevel, FileAt, Holds, Earlier
<1> QED
  BY <1>2, <1>4 DEF FilesInv

(* The steps of the running process.                                        *)
LEMMA RunningFiles ==
  ASSUME BaseInv, FilesInv, Running, RunningStep
  PROVE  FilesInv'
<1>0. ~clobbered /\ Shape
  BY DEF Running, BaseInv, WorkInv
<1>1. ASSUME NEW c \in Client, Invoke(c) \/ LockStep(c) \/ FreeStep(c), UNCHANGED <<compactor, files>>
      PROVE  FilesInv'
  <2>1. UNCHANGED sstables
    <3>1. CASE Invoke(c)
      BY <3>1 DEF Invoke, Enter, Reject, BeginClose, Begin
    <3>2. CASE LockStep(c)
      BY <3>2 DEF LockStep, RotateSwap, RotatePush, RotateAgain, CloseDrain, Limit, GetImmutable,
                  GetFrom, ScanImmutable, ScanStep, shared, history
    <3>3. CASE FreeStep(c)
      BY <3>3 DEF FreeStep, Insert, CloseClone, CheckRotate, TakeSequence, GetMemtable, GetTables,
                  GetFrom, ScanMemtable, ScanStep, ScanTables, shared, history
    <3> QED
      BY <1>1, <3>1, <3>2, <3>3
  <2> QED
    BY <1>1, <2>1, SameFiles DEF files
<1>2. ASSUME (Tick \/ CountLevel0 \/ MeasureLevel) /\ UNCHANGED files
      PROVE  FilesInv'
  <2>1. cpc \notin {"create", "install"} /\ cpc' \notin {"create", "install", "delete"}
    BY <1>2 DEF Tick, CountLevel0, MeasureLevel, NextLevel
  <2>2. UNCHANGED sstables
    BY <1>2 DEF Tick, CountLevel0, MeasureLevel, vars, shared
  <2> QED
    BY <1>2, <2>1, <2>2, SameFiles DEF files
<1>3. ASSUME Deleted, UNCHANGED files PROVE FilesInv'
  <2>1. cpc \notin {"create", "install"} /\ cpc' \notin {"create", "install", "delete"}
    BY <1>3 DEF Deleted, NextLevel
  <2>2. UNCHANGED sstables
    BY <1>3 DEF Deleted, vars, shared
  <2> QED
    BY <1>3, <2>1, <2>2, SameFiles DEF files
<1> QED
  BY <1>0, <1>1, <1>2, <1>3, FlushFiles, CreateFiles, CloneStepFiles, DeleteStepFiles, InstallStepFiles
     DEF RunningStep

LEMMA FilesInvInit == RecoveryInit => FilesInv
<1> SUFFICES ASSUME RecoveryInit PROVE FilesInv
  OBVIOUS
<1>1. /\ disk = <<>> /\ made_names = <<>> /\ cpc = "tick"
      /\ \A l \in Level : names[l] = <<>> /\ sstables[l] = <<>>
  BY DEF RecoveryInit, CompactionInit, AtRest, Init, NoTables
<1> QED
  BY <1>1 DEF FilesInv, NamesOnce, MadeAtRest, TableFiles, ListOnDisk, OfLevel, InputFiles, MadeFiles,
              DeletedFiles

LEMMA FilesInvStep == IsFiniteSet(Client) /\ BaseInv /\ FilesInv /\ [RecoveryNext]_rvars => FilesInv'
<1> SUFFICES ASSUME IsFiniteSet(Client), BaseInv, FilesInv, [RecoveryNext]_rvars PROVE FilesInv'
  OBVIOUS
<1>1. CASE UNCHANGED rvars
  <2>1. UNCHANGED <<disk, names, inputs, made_names, clobbered, sstables>> /\ UNCHANGED compactor
    BY <1>1 DEF rvars, cvars, vars, shared, files
  <2> QED
    BY <2>1, SameFiles
<1>2. CASE Running /\ RunningStep
  BY <1>2, RunningFiles
<1>3. CASE AnyCrash
  BY <1>3, CrashFiles DEF AnyCrash
<1>4. CASE Open
  BY <1>4, OpenFiles
<1> QED
  BY <1>1, <1>2, <1>3, <1>4, RecoverySteps

(* Until a file is overwritten that the process has open, every table is    *)
(* the content of the file of its name, and compaction deletes the files of *)
(* the tables it has merged and no others.                                  *)
THEOREM FilesInvariant == RecoverySpec => []FilesInv
<1>1. RecoveryInit => FilesInv
  BY FilesInvInit
<1>2. BaseInv /\ FilesInv /\ [RecoveryNext]_rvars => FilesInv'
  BY FilesInvStep, SingleClient
<1> QED
  BY <1>1, <1>2, BaseInvariant, PTL DEF RecoverySpec

(* Whatever the client threads flush and compaction deletes, lookups never  *)
(* ask a table whose file is gone or is another's, as long as no name is    *)
(* used twice.                                                              *)
THEOREM TablesHaveFilesHolds == RecoverySpec => []TablesHaveFiles
<1>1. FilesInv => TablesHaveFiles
  <2> SUFFICES ASSUME FilesInv, ~clobbered, NEW i \in TableIndex
               PROVE  Contains(disk, [name |-> names[i[1]][i[2]], data |-> sstables[i[1]][i[2]]])
    BY DEF TablesHaveFiles
  <2>1. i[1] \in Level /\ i[2] \in DOMAIN sstables[i[1]]
    BY DEF TableIndex
  <2>2. Holds(disk, FileAt(names[i[1]], sstables[i[1]], i[2]))
    BY <2>1 DEF FilesInv, TableFiles, ListOnDisk
  <2> QED
    BY <2>2 DEF Holds, FileAt, Contains
<1> QED
  BY <1>1, FilesInvariant, PTL
-----------------------------------------------------------------------------
(* Two lists of the same files, both in the order of the directory, are the *)
(* same list.                                                               *)
InOrder(v, d) == v \in Seq(File) /\ \A i, j \in DOMAIN v : i < j => Earlier(d, v[i], v[j])

LEMMA OneOrder ==
  ASSUME NEW d \in Seq(File), NamesOnce(d)
  PROVE  \A f, g : Earlier(d, f, g) => ~Earlier(d, g, f) /\ f # g
<1> SUFFICES ASSUME NEW f, NEW g, NEW i \in DOMAIN d, NEW j \in DOMAIN d, i < j, d[i] = f, d[j] = g
             PROVE  ~Earlier(d, g, f) /\ f # g
  BY DEF Earlier
<1>1. i \in Nat /\ j \in Nat /\ i # j
  OBVIOUS
<1>2. f # g
  BY <1>1 DEF NamesOnce
<1>3. ASSUME NEW p \in DOMAIN d, NEW q \in DOMAIN d, p < q, d[p] = g, d[q] = f PROVE FALSE
  <2>1. p = j /\ q = i
    BY <1>3 DEF NamesOnce
  <2> QED
    BY <1>1, <1>3, <2>1
<1> QED
  BY <1>2, <1>3 DEF Earlier

LEMMA SamePlace ==
  ASSUME NEW d \in Seq(File), NamesOnce(d), NEW v, NEW w, InOrder(v, d), InOrder(w, d),
         \A f : Holds(v, f) <=> Holds(w, f),
         NEW n \in DOMAIN v, \A i \in 1..(n - 1) : i \in DOMAIN w /\ v[i] = w[i]
  PROVE  n \in DOMAIN w /\ v[n] = w[n]
<1>1. /\ DOMAIN v = 1..Len(v) /\ Len(v) \in Nat /\ n \in Nat /\ n >= 1
      /\ DOMAIN w = 1..Len(w) /\ Len(w) \in Nat
  BY DEF InOrder
<1>2. \A i, j \in DOMAIN v : i < j => v[i] # v[j] /\ ~Earlier(d, v[j], v[i])
  BY OneOrder DEF InOrder
<1>3. \A i, j \in DOMAIN w : i < j => w[i] # w[j] /\ Earlier(d, w[i], w[j])
  BY OneOrder DEF InOrder
<1>4. PICK j \in DOMAIN w : w[j] = v[n]
  BY DEF Holds
<1>5. ~(j < n)
  <2> SUFFICES ASSUME j < n PROVE FALSE
    OBVIOUS
  <2>1. j \in 1..(n - 1) /\ j \in DOMAIN v
    BY <1>1
  <2>2. v[j] = v[n]
    BY <1>4, <2>1
  <2> QED
    BY <1>2, <2>1, <2>2
<1>6. n \in DOMAIN w
  BY <1>1, <1>5
<1>7. PICK i \in DOMAIN v : v[i] = w[n]
  BY <1>6 DEF Holds
<1>8. ~(i < n)
  <2> SUFFICES ASSUME i < n PROVE FALSE
    OBVIOUS
  <2>1. i \in 1..(n - 1) /\ i \in DOMAIN w
    BY <1>1
  <2>2. w[i] = w[n]
    BY <1>7, <2>1
  <2> QED
    BY <1>3, <1>6, <2>1, <2>2
<1>9. i = n \/ j = n
  <2> SUFFICES ASSUME i # n, j # n PROVE FALSE
    OBVIOUS
  <2>1. n < i /\ n < j
    BY <1>1, <1>5, <1>8
  <2>2. Earlier(d, w[n], w[j]) /\ ~Earlier(d, v[i], v[n])
    BY <1>2, <1>3, <1>6, <2>1
  <2> QED
    BY <1>4, <1>7, <2>2
<1> QED
  BY <1>4, <1>6, <1>7, <1>9

LEMMA SameOrder ==
  ASSUME NEW d \in Seq(File), NamesOnce(d), NEW v, NEW w, InOrder(v, d), InOrder(w, d),
         \A f : Holds(v, f) <=> Holds(w, f)
  PROVE  v = w
<1> DEFINE Bad == {n \in Nat : ~(n \in DOMAIN v <=> n \in DOMAIN w) \/ (n \in DOMAIN v /\ v[n] # w[n])}
<1>1. /\ DOMAIN v = 1..Len(v) /\ Len(v) \in Nat /\ DOMAIN w = 1..Len(w) /\ Len(w) \in Nat
      /\ v = [i \in DOMAIN v |-> v[i]] /\ w = [i \in DOMAIN w |-> w[i]]
  BY DEF InOrder
<1>2. ASSUME Bad # {} PROVE FALSE
  <2>1. PICK n \in Bad : \A m \in Bad : n <= m
    <3>1. Bad \subseteq Nat
      OBVIOUS
    <3> HIDE DEF Bad
    <3> QED
      BY <1>2, <3>1, NatLeast
  <2>2. n \in Nat /\ (n \in DOMAIN v \/ n \in DOMAIN w)
    BY <2>1
  <2>3. \A i \in 1..(n - 1) : i \notin Bad
    BY <2>1, <2>2
  <2>4. \A i \in 1..(n - 1) : i \in DOMAIN v /\ i \in DOMAIN w /\ v[i] = w[i]
    <3> TAKE i \in 1..(n - 1)
    <3>1. i \in Nat /\ (i \in DOMAIN v \/ i \in DOMAIN w)
      BY <1>1, <2>2
    <3> QED
      BY <2>3, <3>1
  <2>5. n \in DOMAIN v /\ n \in DOMAIN w /\ v[n] = w[n]
    <3>1. CASE n \in DOMAIN v
      BY <2>4, <3>1, SamePlace
    <3>2. CASE n \in DOMAIN w
      <4>1. \A f : Holds(w, f) <=> Holds(v, f)
        OBVIOUS
      <4>2. \A i \in 1..(n - 1) : i \in DOMAIN v /\ w[i] = v[i]
        BY <2>4
      <4>3. n \in DOMAIN v /\ w[n] = v[n]
        BY <3>2, <4>1, <4>2, SamePlace, SMTT(30)
      <4> QED
        BY <3>2, <4>3
    <3> QED
      BY <2>2, <3>1, <3>2
  <2> QED
    BY <2>1, <2>5
<1>3. DOMAIN v = DOMAIN w /\ \A i \in DOMAIN v : v[i] = w[i]
  <2>1. \A n \in Nat : (n \in DOMAIN v <=> n \in DOMAIN w) /\ (n \in DOMAIN v => v[n] = w[n])
    BY <1>2
  <2>2. DOMAIN v \subseteq Nat /\ DOMAIN w \subseteq Nat
    BY <1>1
  <2> QED
    BY <2>1, <2>2
<1> QED
  BY <1>1, <1>3

LEMMA OpenRestoresStep ==
  ASSUME BaseInv, FilesInv, ~up, ~clobbered, [RecoveryNext]_rvars,
         {disk[i].name : i \in DOMAIN disk} = {names[i[1]][i[2]] : i \in TableIndex}
  PROVE  UNCHANGED sstables
<1>0. FilesContext /\ TableFiles
  BY FilesContextHolds DEF FilesInv
<1>1. CASE UNCHANGED rvars
  BY <1>1 DEF rvars, cvars, vars, shared
<1>2. ~AnyCrash
  BY Zenon DEF AnyCrash, Crash
<1>3. ~Running
  BY DEF Running
<1>4. CASE Open
  <2>1. ASSUME NEW l \in Level PROVE sstables'[l] = sstables[l]
    <3>1. PICK d, w, ns, ts : d = disk /\ w = Loaded(l) /\ ns = names[l] /\ ts = sstables[l]
      OBVIOUS
    <3>2. /\ d \in Seq(File) /\ NamesOnce(d) /\ ns \in Seq(FileName) /\ ts \in Seq(EntryMap)
          /\ ListOnDisk(ns, ts, d) /\ OfLevel(ns, l)
      BY <1>0, <3>1 DEF FilesContext, TableFiles
    <3>3. PICK v : v = [i \in DOMAIN ts |-> FileAt(ns, ts, i)]
      OBVIOUS
    <3>4. DOMAIN v = DOMAIN ts /\ DOMAIN ns = DOMAIN ts /\ \A i \in DOMAIN ts : v[i] = FileAt(ns, ts, i)
      BY <3>2, <3>3 DEF ListOnDisk
    <3>5. InOrder(v, d)
      <4>1. \A i \in DOMAIN ts : FileAt(ns, ts, i) \in File
        <5>1. \A i \in DOMAIN ts : ns[i] \in FileName /\ ts[i] \in EntryMap
          BY <3>2, <3>4
        <5> QED
          BY <5>1 DEF File, FileAt
      <4>2. DOMAIN ts = 1..Len(ts) /\ Len(ts) \in Nat
        BY <3>2
      <4>3. v \in Seq(File)
        BY <3>3, <4>1, <4>2
      <4> QED
        BY <3>2, <3>4, <4>3 DEF InOrder, ListOnDisk
    <3>6. w \in Seq(File) /\ InOrder(w, d) /\ \A f : Holds(w, f) <=> Holds(d, f) /\ f.name.level = l
      <4>1. disk \in Seq(File)
        BY <3>1, <3>2
      <4>2. /\ w \in Seq(File)
            /\ \A f : Holds(w, f) <=> Holds(d, f) /\ f.name.level = l
            /\ \A f, g : Earlier(w, f, g) => Earlier(d, f, g)
        BY <3>1, <4>1, LoadedFacts
      <4>3. \A i, j \in DOMAIN w : i < j => Earlier(w, w[i], w[j])
        BY DEF Earlier
      <4> QED
        BY <4>2, <4>3 DEF InOrder
    <3>7. ASSUME NEW f, Holds(v, f) PROVE Holds(d, f) /\ f.name.level = l
      <4>1. PICK i \in DOMAIN ts : f = FileAt(ns, ts, i)
        BY <3>4, <3>7 DEF Holds
      <4>2. Holds(d, FileAt(ns, ts, i)) /\ ns[i].level = l
        BY <3>2, <3>4 DEF ListOnDisk, OfLevel
      <4> QED
        BY <4>1, <4>2 DEF FileAt
    <3>8. ASSUME NEW f, Holds(d, f), f.name.level = l PROVE Holds(v, f)
      <4>1. f.name \in {names[i[1]][i[2]] : i \in TableIndex}
        BY <3>1, <3>8 DEF Holds
      <4>2. PICK t \in TableIndex : f.name = names[t[1]][t[2]]
        BY <4>1
      <4>3. t[1] \in Level /\ t[2] \in DOMAIN sstables[t[1]]
        BY DEF TableIndex
      <4>4. DOMAIN names[t[1]] = DOMAIN sstables[t[1]] /\ OfLevel(names[t[1]], t[1])
        BY <1>0, <4>3 DEF TableFiles, ListOnDisk
      <4>5. t[1] = l
        BY <3>8, <4>2, <4>3, <4>4 DEF OfLevel
      <4>6. t[2] \in DOMAIN ts /\ f.name = ns[t[2]]
        BY <3>1, <4>2, <4>3, <4>5
      <4>7. Holds(d, FileAt(ns, ts, t[2])) /\ FileAt(ns, ts, t[2]).name = f.name
        BY <3>2, <4>6 DEF ListOnDisk, FileAt
      <4>8. f = FileAt(ns, ts, t[2])
        BY <3>2, <3>8, <4>7, NamesOnceFacts
      <4> QED
        BY <3>4, <4>6, <4>8 DEF Holds
    <3>9. v = w
      <4>1. \A f : Holds(v, f) <=> Holds(w, f)
        BY <3>6, <3>7, <3>8
      <4> QED
        BY <3>2, <3>5, <3>6, <4>1, SameOrder
    <3>10. sstables'[l] = [i \in DOMAIN w |-> w[i].data]
      BY <1>4, <3>1 DEF Open
    <3>11. \A i \in DOMAIN w : w[i].data = ts[i]
      BY <3>4, <3>9 DEF FileAt
    <3>12. ts = [i \in DOMAIN ts |-> ts[i]]
      BY <3>2
    <3> QED
      BY <3>1, <3>4, <3>9, <3>10, <3>11, <3>12
  <2>2. sstables \in [Level -> Seq(EntryMap)]
    BY <1>0 DEF FilesContext
  <2>3. sstables' = [l \in Level |-> sstables'[l]]
    BY <1>4 DEF Open
  <2> QED
    BY <2>1, <2>2, <2>3
<1> QED
  BY <1>1, <1>2, <1>3, <1>4, RecoverySteps

(* If the directory has the files of the tables and no others when the      *)
(* process has ended, open finds the same tables in the same levels and     *)
(* order, whatever was going on when it ended.                              *)
THEOREM OpenRestoresHolds == RecoverySpec => OpenRestores
<1>1. BaseInv /\ FilesInv /\ [RecoveryNext]_rvars =>
        [~up /\ ~clobbered /\ {disk[i].name : i \in DOMAIN disk} = {names[i[1]][i[2]] : i \in TableIndex}
           => sstables' = sstables]_rvars
  BY OpenRestoresStep, SingleClient
<1> QED
  BY <1>1, BaseInvariant, FilesInvariant, PTL DEF RecoverySpec, OpenRestores
-----------------------------------------------------------------------------
(* What deleting a merged file takes from the disk.                         *)
LEMMA DeleteLoses ==
  ASSUME BaseInv, FilesInv, ~clobbered, NEW r, DeleteFile(r), NEW d, d = disk, NEW w, w = disk',
         NEW k \in Key, NEW f, Holds(d, f), NEW stamp, stamp > 0, StampOf(f.data[k]) = stamp
  PROVE  \/ \E g : Holds(w, g) /\ StampOf(g.data[k]) = stamp
         \/ cpc = "delete" /\ (Marker(k, stamp) \/ Outnumbered(k, stamp))
<1>0. FilesContext /\ TableFiles /\ InputFiles /\ DeletedFiles
  BY FilesContextHolds DEF FilesInv
<1>1. cpc = "delete" /\ inputs # <<>>
  BY DEF DeleteFile
<1>2. PICK name : name = Head(inputs)
  OBVIOUS
<1>3. w = d \/ w = Without(d, name)
  BY <1>2 DEF DeleteFile
<1>4. \A g : Holds(d, g) /\ g.name # name => Holds(w, g)
  <2>1. d \in Seq(File)
    BY <1>0 DEF FilesContext
  <2> QED
    BY <1>3, <2>1, WithoutFacts
<1>5. CASE f.name # name
  BY <1>4, <1>5
<1>6. CASE f.name = name
  <2>1. 1 \in DOMAIN inputs /\ inputs[1] = name
    <3>1. PICK t \in Seq(FileName) : t = inputs /\ t # <<>>
      BY <1>0, <1>1 DEF FilesContext
    <3>2. 1 \in DOMAIN t /\ Head(t) = t[1]
      <4>1. PICK T : T = FileName
        OBVIOUS
      <4>2. t \in Seq(T) /\ t # <<>>
        BY <3>1, <4>1
      <4> QED
        BY <4>2
    <3> QED
      BY <1>2, <3>1, <3>2
  <2>2. PICK a \in DOMAIN Inputs : Holds(d, [name |-> name, data |-> Inputs[a]])
    BY <1>0, <1>1, <2>1 DEF InputFiles
  <2>3. f.data = Inputs[a]
    <3>1. PICK g : g = [name |-> name, data |-> Inputs[a]]
      OBVIOUS
    <3>2. Holds(d, g) /\ g.name = f.name /\ g.data = Inputs[a]
      BY <1>6, <2>2, <3>1
    <3>3. d \in Seq(File) /\ NamesOnce(d)
      BY <1>0 DEF FilesContext
    <3> QED
      BY <3>2, <3>3, NamesOnceFacts
  <2>4. \/ \E j \in DOMAIN made : StampOf(made[j][k]) = stamp
        \/ Marker(k, stamp) \/ Outnumbered(k, stamp)
    <3>1. WorkInv /\ \A b \in DOMAIN Inputs : Stamped(Inputs[b])
      BY DEF BaseInv, InputsStamped
    <3> QED
      BY <1>1, <2>3, <3>1, MergedEntry
  <2>5. ASSUME NEW j \in DOMAIN made, StampOf(made[j][k]) = stamp
        PROVE  \E g : Holds(w, g) /\ StampOf(g.data[k]) = stamp
    <3>1. PICK l \in Level : l = level + 1
      BY <1>0 DEF FilesContext
    <3>2. sstables[l] = made /\ ListOnDisk(names[l], sstables[l], d) /\ Disjoint(names[l], inputs)
      BY <1>0, <1>1, <3>1 DEF DeletedFiles, TableFiles
    <3>3. PICK g : g = FileAt(names[l], sstables[l], j)
      OBVIOUS
    <3>4. Holds(d, g) /\ g.name = names[l][j] /\ j \in DOMAIN names[l] /\ g.data = made[j]
      BY <3>2, <3>3 DEF ListOnDisk, FileAt
    <3>5. g.name # name
      BY <2>1, <3>2, <3>4 DEF Disjoint
    <3> QED
      BY <1>4, <2>5, <3>4, <3>5
  <2> QED
    BY <1>1, <2>4, <2>5
<1> QED
  BY <1>5, <1>6

(* The other steps of the running process take nothing from it.             *)
LEMMA RunningKeeps ==
  ASSUME BaseInv, FilesInv, Running, RunningStep, \A r : ~DeleteFile(r), ~clobbered',
         NEW d, d = disk, NEW w, w = disk'
  PROVE  \A g : Holds(d, g) => Holds(w, g)
<1>0. WorkInv /\ RecoveryTypeOK /\ NamesOnce(disk) /\ Shape
  BY DEF BaseInv, WorkInv, FilesInv
<1>1. ASSUME NEW f \in File, NEW left \in Left, WritesFile(f, left) PROVE \A g : Holds(d, g) => Holds(w, g)
  BY <1>0, <1>1, WritesNewFile
<1>2. ASSUME NEW c \in Client, NEW r \in AnyResult, NEW left \in Left, NEW s \in 0..MaxSecond,
             FlushToFile(c, r, left, s)
      PROVE  \A g : Holds(d, g) => Holds(w, g)
  <2>1. PICK m \in Ids : Flushes(c, m, r, left, s)
    BY <1>0, <1>2, FlushedFacts DEF AnyResult
  <2>2. CASE UNCHANGED files
    BY <2>2 DEF files
  <2>3. CASE FileOf(m, s) \in File /\ WritesFile(FileOf(m, s), left)
    BY <1>1, <2>3
  <2> QED
    BY <2>1, <2>2, <2>3 DEF Flushes
<1>3. ASSUME NEW r, NEW left \in Left, NEW s \in 0..MaxSecond, CreateFile(r, left, s)
      PROVE  \A g : Holds(d, g) => Holds(w, g)
  BY <1>0, <1>1, <1>3, CreatedFacts
<1>4. ASSUME UNCHANGED disk PROVE \A g : Holds(d, g) => Holds(w, g)
  BY <1>4
<1>5. ASSUME NEW r, CloneFiles(r) PROVE UNCHANGED disk
  BY <1>5 DEF CloneFiles
<1>6. ASSUME InstallFiles PROVE UNCHANGED disk
  BY <1>6 DEF InstallFiles
<1>7. ASSUME UNCHANGED files PROVE UNCHANGED disk
  BY <1>7 DEF files
<1> QED
  BY <1>2, <1>3, <1>4, <1>5, <1>6, <1>7 DEF RunningStep

LEMMA DiskKeepsStep ==
  ASSUME IsFiniteSet(Client), BaseInv, FilesInv, [RecoveryNext]_rvars, ~clobbered',
         NEW k \in Key, NEW stamp, stamp = TopStamp(disk, k), stamp > 0
  PROVE  \/ \E i \in DOMAIN disk' : StampOf(disk'[i].data[k]) = stamp
         \/ cpc = "delete" /\ (Marker(k, stamp) \/ Outnumbered(k, stamp))
<1> DEFINE Kept == \E i \in DOMAIN disk' : StampOf(disk'[i].data[k]) = stamp
<1>1. PICK d, w : d = disk /\ w = disk'
  OBVIOUS
<1>2. PICK f : Holds(d, f) /\ StampOf(f.data[k]) = stamp
  <2>1. d \in Seq(File)
    BY <1>1 DEF BaseInv, RecoveryTypeOK
  <2>2. stamp = TopStamp(d, k)
    BY <1>1
  <2> QED
    BY <2>1, <2>2, TopStampFacts
<1>3. ASSUME NEW g, Holds(w, g), StampOf(g.data[k]) = stamp PROVE Kept
  BY <1>1, <1>3 DEF Holds
<1>4. ASSUME \A g : Holds(d, g) => Holds(w, g) PROVE Kept
  <2> HIDE DEF Kept
  <2> QED
    BY <1>2, <1>3, <1>4
<1>5. CASE UNCHANGED rvars
  <2>1. w = d
    BY <1>1, <1>5 DEF rvars, files
  <2> QED
    BY <1>4, <2>1
<1>6. CASE Running /\ RunningStep
  <2>1. ASSUME NEW r, DeleteFile(r)
        PROVE  Kept \/ (cpc = "delete" /\ (Marker(k, stamp) \/ Outnumbered(k, stamp)))
    <3>1. ~clobbered
      BY <1>6 DEF Running
    <3>2. \/ \E g : Holds(w, g) /\ StampOf(g.data[k]) = stamp
          \/ cpc = "delete" /\ (Marker(k, stamp) \/ Outnumbered(k, stamp))
      BY <1>1, <1>2, <2>1, <3>1, DeleteLoses
    <3> QED
      BY <1>3, <3>2
  <2>2. CASE \A r : ~DeleteFile(r)
    <3>1. \A g : Holds(d, g) => Holds(w, g)
      BY <1>1, <1>6, <2>2, RunningKeeps
    <3> QED
      BY <1>4, <3>1
  <2> QED
    BY <2>1, <2>2
<1>7. CASE AnyCrash
  <2>1. PICK s \in 0..MaxSecond : \E left \in [UnderWay(s) -> Left] : Crash(s, left)
    BY <1>7 DEF AnyCrash
  <2>2. PICK left \in [UnderWay(s) -> Left] : Crash(s, left)
    BY <2>1
  <2>3. \A g : Holds(d, g) => Holds(w, g)
    BY <1>1, <2>2, CrashKeeps
  <2> QED
    BY <1>4, <2>3
<1>8. CASE Open
  <2>1. w = d
    BY <1>1, <1>8 DEF Open
  <2> QED
    BY <1>4, <2>1
<1> QED
  BY <1>5, <1>6, <1>7, <1>8, RecoverySteps

(* The newest entry of a key that has reached the disk stays on it, through *)
(* every end of the process and every compaction, until compaction deletes  *)
(* a file whose entry of the key was a delete marker or had a rival with no *)
(* lower sequence number, or a file in use is overwritten.                  *)
THEOREM DiskKeepsHolds == RecoverySpec => DiskKeeps
<1> DEFINE Keeps ==
      \A k \in Key : \A newest \in {TopStamp(disk, k)} :
        newest > 0 => \/ OnDisk(k, newest)'
                      \/ clobbered'
                      \/ cpc = "delete" /\ (Marker(k, newest) \/ Outnumbered(k, newest))
<1>1. BaseInv /\ FilesInv /\ [RecoveryNext]_rvars => [Keeps]_rvars
  <2> SUFFICES ASSUME BaseInv, FilesInv, [RecoveryNext]_rvars, ~clobbered',
                      NEW k \in Key, NEW newest \in {TopStamp(disk, k)}, newest > 0
               PROVE  \/ \E i \in DOMAIN disk' : StampOf(disk'[i].data[k]) = newest
                      \/ cpc = "delete" /\ (Marker(k, newest) \/ Outnumbered(k, newest))
    BY DEF OnDisk, StampOf
  <2>1. newest = TopStamp(disk, k)
    OBVIOUS
  <2> QED
    BY <2>1, DiskKeepsStep, SingleClient
<1> QED
  BY <1>1, BaseInvariant, FilesInvariant, PTL DEF RecoverySpec, DiskKeeps
-----------------------------------------------------------------------------
(* What close brings to the disk.  An entry that is in no file yet is in a  *)
(* memtable that something refers to or whose flush failed; from the moment *)
(* close has emptied the list nothing is added to it, and what close clones *)
(* is still what the active memtable holds when the clone is flushed.       *)
Gone(k) == latest[k] <= stored[k] \/ \E m \in dropped : StampOf(heap[m].data[k]) = latest[k]
Reached == \A k \in Key : Gone(k) \/ \E m \in Memtables : StampOf(heap[m].data[k]) = latest[k]

Closing == {"drain", "drain_flush", "clone", "clone_flush"}
ClosesAll(c) ==
  /\ pc[c] \in Closing => closed
  /\ closed => /\ pc[c] \in Closing \cup {"idle"}
               /\ pc[c] # "drain" => immutable_memtables = <<>>
               /\ pc[c] = "clone_flush" => heap[hand[c][1]].data = heap[memtable].data
               /\ pc[c] = "idle" => \A k \in Key : Gone(k)
CloseInv == BaseInv /\ Reached /\ (\A c \in Client : ClosesAll(c)) /\ (closed => Client # {})

(* What these two facts speak of, but for what has reached the disk.        *)
inMemory == <<heap, memtable, immutable_memtables, hand, dropped, latest, pc, closed>>
StoredGrows == \A k \in Key : stored[k] <= stored'[k]

LEMMA WrittenGrows ==
  ASSUME RecoveryTypeOK, NEW f \in File, NEW left, WritesFile(f, left)
  PROVE  /\ StoredGrows
         /\ left = "complete" => \A k \in Key : StampOf(f.data[k]) <= stored'[k]
<1>1. f.data \in EntryMap /\ stored \in [Key -> Nat]
  BY DEF File, RecoveryTypeOK
<1>2. /\ \A k \in Key : /\ Higher(Stamps(f.data), stored)[k] >= stored[k]
                        /\ Higher(Stamps(f.data), stored)[k] >= StampOf(f.data[k])
      /\ \A k \in Key : StampOf(f.data[k]) \in Nat /\ stored[k] \in Nat
      /\ Higher(Stamps(f.data), stored) \in [Key -> Nat]
  BY <1>1, StampsType, StampType
<1>3. PICK h : h = Higher(Stamps(f.data), stored)
  OBVIOUS
<1>4. /\ h \in [Key -> Nat]
      /\ \A k \in Key : h[k] >= stored[k] /\ h[k] >= StampOf(f.data[k])
  BY <1>2, <1>3
<1>5. stored' = IF left = "complete" THEN h ELSE stored
  BY <1>3 DEF WritesFile
<1>6. CASE left = "complete"
  BY <1>1, <1>2, <1>4, <1>5, <1>6 DEF StoredGrows
<1>7. CASE left # "complete"
  BY <1>1, <1>5, <1>7 DEF StoredGrows
<1> QED
  BY <1>6, <1>7

LEMMA ClosesUnchanged ==
  ASSUME BaseInv, BaseInv', Reached, \A c \in Client : ClosesAll(c),
         closed => Client # {}, UNCHANGED inMemory, StoredGrows
  PROVE  CloseInv'
<1>1. UNCHANGED <<heap, memtable, immutable_memtables, hand, dropped, latest, pc, closed>>
  BY DEF inMemory
<1>2. Memtables' = Memtables
  BY <1>1 DEF Memtables, Listed, InHand
<1>3. latest \in [Key -> Nat] /\ stored \in [Key -> Nat] /\ stored' \in [Key -> Nat]
  BY DEF BaseInv, WorkInv, Shape, TypeOK, RecoveryTypeOK
<1>4. \A k \in Key : latest[k] <= stored[k] => latest[k] <= stored'[k]
  BY <1>3 DEF StoredGrows
<1>5. \A k \in Key : Gone(k) => Gone(k)'
  BY <1>1, <1>4 DEF Gone
<1>6. Reached'
  BY <1>1, <1>2, <1>5 DEF Reached
<1>7. \A c \in Client : ClosesAll(c)'
  BY <1>1, <1>5 DEF ClosesAll
<1> QED
  BY <1>1, <1>6, <1>7 DEF CloseInv

(* The steps of compaction.                                                 *)
CompactorRuns ==
  \/ \E r \in AnyResult, left \in Left, s \in 0..MaxSecond : CreateFile(r, left, s)
  \/ \E r \in AnyResult : CloneFiles(r) \/ DeleteFile(r)
  \/ InstallFiles
  \/ (Deleted \/ Tick \/ CountLevel0 \/ MeasureLevel) /\ UNCHANGED files

LEMMA ClosesCompacting ==
  ASSUME CloseInv, BaseInv', CompactorRuns
  PROVE  CloseInv'
<1>0. RecoveryTypeOK /\ WorkInv /\ stored \in [Key -> Nat]
  BY DEF CloseInv, BaseInv, RecoveryTypeOK
<1>1. UNCHANGED inMemory
  BY DEF CompactorRuns, CreateFile, CreateTable, CloneFiles, CloneAndMerge, DeleteFile, InstallFiles,
         Install, Deleted, Tick, CountLevel0, MeasureLevel, cvars, vars, shared, private, history, inMemory
<1>2. CASE UNCHANGED stored
  <2>1. StoredGrows
    BY <1>0, <1>2 DEF StoredGrows
  <2> QED
    BY <1>1, <2>1, ClosesUnchanged DEF CloseInv
<1>3. ASSUME NEW r \in AnyResult, NEW left \in Left, NEW s \in 0..MaxSecond, CreateFile(r, left, s)
      PROVE  StoredGrows
  <2>1. PICK f : f = MadeFile(s)
    OBVIOUS
  <2>2. f \in File /\ WritesFile(f, left)
    BY <1>0, <1>3, <2>1, CreatedFacts
  <2> QED
    BY <1>0, <2>2, WrittenGrows
<1>4. CASE StoredGrows
  BY <1>1, <1>4, ClosesUnchanged DEF CloseInv
<1>5. \/ UNCHANGED stored
      \/ \E r \in AnyResult, left \in Left, s \in 0..MaxSecond : CreateFile(r, left, s)
  BY DEF CompactorRuns, CloneFiles, DeleteFile, InstallFiles, files
<1> QED
  BY <1>2, <1>3, <1>4, <1>5

(* A step of a client that flushes nothing loses no memtable.               *)
LEMMA OwnStepsStay ==
  ASSUME OneClient, Shape, NEW c \in Client, Invoke(c) \/ LockStep(c) \/ FreeStep(c)
  PROVE  /\ [Next]_vars /\ \A d \in Client : d = c /\ ~FlushStep(d)
         /\ Memtables \cup dropped \subseteq Memtables' \cup dropped'
<1>1. pc[c] \notin {"flush", "drain_flush", "clone_flush"}
  BY DEF Invoke, Enter, Reject, BeginClose, Begin, LockStep, RotateSwap, RotatePush, RotateAgain,
         GetImmutable, GetFrom, ScanImmutable, ScanStep, CloseDrain, FreeStep, CheckRotate,
         TakeSequence, Insert, GetMemtable, GetTables, ScanMemtable, ScanTables, CloseClone
<1>2. \A d \in Client : d = c /\ ~FlushStep(d)
  BY <1>1 DEF OneClient, FlushStep, Flush, DrainFlush, CloseFlush
<1>3. [Next]_vars
  BY DEF Next
<1> QED
  BY <1>2, <1>3, MemtablesStay

LEMMA ReachedInsert ==
  ASSUME Shape, Reached, NEW c \in Client, Insert(c), UNCHANGED stored
  PROVE  Reached'
<1> DEFINE key == call[c].key
           entry == [val |-> call[c].val, sequence |-> taken[c], stamp |-> latest[key] + 1]
<1>1. key \in Key /\ entry \in Entry /\ target[c] = memtable /\ memtable \in Ids
  BY DEF Insert, Shape, TypeOK, InCall, WritesActive, Request, Entry
<1>2. heap \in Seq(MemTableRec) /\ heap[memtable] \in MemTableRec /\ latest \in [Key -> Nat]
  BY <1>1 DEF Shape, TypeOK, Ids
<1>3. /\ heap' = [heap EXCEPT ![memtable] = PutEntry(heap[memtable], key, entry)]
      /\ latest' = [latest EXCEPT ![key] = latest[key] + 1]
      /\ UNCHANGED <<memtable, immutable_memtables, hand, dropped>>
  BY <1>1 DEF Insert
<1>4. /\ PutEntry(heap[memtable], key, entry) \in MemTableRec
      /\ PutEntry(heap[memtable], key, entry).data[key] = entry
      /\ \A j \in Key \ {key} :
           PutEntry(heap[memtable], key, entry).data[j] = heap[memtable].data[j]
  BY <1>1, <1>2, PutEntryFacts, SMTT(30)
<1>5. /\ heap'[memtable] = PutEntry(heap[memtable], key, entry)
      /\ \A n \in Ids : n # memtable => heap'[n] = heap[n]
  BY <1>1, <1>2, <1>3, <1>4, SeqUpdate DEF Ids
<1>6. Memtables' = Memtables /\ memtable \in Memtables
  BY <1>3 DEF Memtables, Listed, InHand
<1>7. Memtables \cup dropped \subseteq Ids
  BY IdsHeld
<1>8. entry.stamp = latest[key] + 1 /\ entry # None
  BY <1>1, NoneAssumption
<1> HIDE DEF entry, key
<1> SUFFICES ASSUME NEW k \in Key
             PROVE  Gone(k)' \/ \E m \in Memtables' : StampOf(heap'[m].data[k]) = latest'[k]
  BY DEF Reached, StampOf
<1>9. CASE k = key
  <2>1. latest'[k] = entry.stamp /\ heap'[memtable].data[k] = entry
    BY <1>1, <1>2, <1>3, <1>4, <1>5, <1>8, <1>9
  <2> QED
    BY <1>6, <1>8, <2>1 DEF StampOf
<1>10. CASE k # key
  <2>1. latest'[k] = latest[k]
    BY <1>1, <1>2, <1>3, <1>10
  <2>2. \A n \in Memtables \cup dropped : heap'[n].data[k] = heap[n].data[k]
    BY <1>4, <1>5, <1>7, <1>10
  <2>3. Gone(k) \/ \E m \in Memtables : StampOf(heap[m].data[k]) = latest[k]
    BY DEF Reached
  <2> QED
    BY <1>3, <1>6, <2>1, <2>2, <2>3 DEF Gone, StampOf
<1> QED
  BY <1>9, <1>10

LEMMA ReachedOwnStep ==
  ASSUME OneClient, BaseInv, Reached, NEW c \in Client, Invoke(c) \/ LockStep(c) \/ FreeStep(c),
         UNCHANGED stored
  PROVE  Reached'
<1>1. Shape
  BY DEF BaseInv, WorkInv
<1>2. /\ [Next]_vars /\ \A d \in Client : d = c /\ ~FlushStep(d)
      /\ Memtables \cup dropped \subseteq Memtables' \cup dropped'
  BY <1>1, OwnStepsStay
<1>3. CASE Insert(c)
  BY <1>1, <1>3, ReachedInsert
<1>4. CASE ~Insert(c)
  <2>1. \A d \in Client : ~Insert(d) /\ ~FlushStep(d)
    BY <1>2, <1>4
  <2>2. UNCHANGED latest
    BY <1>1, <1>2, <2>1, MovingSteps DEF RotateSwap, RotatePush, RotateAgain, CloseDrain, CloseClone, history
  <2>3. \A m \in Memtables \cup dropped : heap'[m].data = heap[m].data
    BY <1>1, <1>2, <2>1, HeapSteps, IdsHeld
  <2>4. \A m \in Memtables \cup dropped : m \in Memtables' \cup dropped'
    BY <1>2
  <2> SUFFICES ASSUME NEW k \in Key
               PROVE  Gone(k)' \/ \E m \in Memtables' : StampOf(heap'[m].data[k]) = latest'[k]
    BY DEF Reached, StampOf
  <2>5. latest[k] <= stored[k] \/ \E m \in Memtables \cup dropped : StampOf(heap[m].data[k]) = latest[k]
    BY DEF Reached, Gone
  <2>6. CASE latest[k] <= stored[k]
    BY <2>2, <2>6 DEF Gone
  <2>7. ASSUME NEW m \in Memtables \cup dropped, StampOf(heap[m].data[k]) = latest[k]
        PROVE  Gone(k)' \/ \E n \in Memtables' : StampOf(heap'[n].data[k]) = latest'[k]
    <3>1. StampOf(heap'[m].data[k]) = latest'[k] /\ m \in Memtables' \cup dropped'
      BY <2>2, <2>3, <2>4, <2>7 DEF StampOf
    <3> QED
      BY <3>1 DEF Gone, StampOf
  <2> QED
    BY <2>5, <2>6, <2>7
<1> QED
  BY <1>3, <1>4

(* Before close has begun, other calls do not get to its steps ...          *)
LEMMA ClosesOpenStep ==
  ASSUME Shape, NEW c \in Client, ClosesAll(c), Invoke(c) \/ LockStep(c) \/ FreeStep(c),
         ~CloseDrain(c), ~CloseClone(c), UNCHANGED stored
  PROVE  ClosesAll(c)'
<1>1. pc \in [Client -> Steps] /\ closed \in BOOLEAN
  BY DEF Shape, TypeOK
<1>2. CASE Invoke(c)
  <2>1. PICK r \in Requests : Enter(c, r) \/ Reject(c, r) \/ BeginClose(c, r)
    BY <1>2 DEF Invoke
  <2>2. r.op \in OpName
    BY <2>1, StorageEngineAssumption DEF Requests, Request
  <2>3. /\ pc[c] = "idle"
        /\ UNCHANGED <<heap, memtable, immutable_memtables, hand, dropped, latest>>
    BY <2>1 DEF Enter, Reject, BeginClose, Begin
  <2>4. \A k \in Key : Gone(k)' = Gone(k)
    BY <2>3 DEF Gone
  <2>5. CASE Enter(c, r)
    <3>1. ~closed /\ closed' = closed /\ pc'[c] = FirstStep(r.op) /\ r.op # "close"
      BY <1>1, <2>5 DEF Enter, Goto
    <3>2. FirstStep(r.op) \in {"check", "get", "scan"}
      BY <2>2, <3>1 DEF FirstStep, OpName
    <3> QED
      BY <3>1, <3>2 DEF ClosesAll, Closing
  <2>6. CASE Reject(c, r)
    <3>1. closed' = closed /\ pc'[c] = "idle"
      BY <1>1, <2>6 DEF Reject, Return, Goto
    <3> QED
      BY <2>3, <2>4, <3>1 DEF ClosesAll, Closing
  <2>7. CASE BeginClose(c, r)
    <3>1. closed' = TRUE /\ (IF closed THEN pc'[c] = "idle" ELSE pc'[c] = "drain")
      BY <1>1, <2>7 DEF BeginClose, Return, Goto, FirstStep
    <3> QED
      BY <2>3, <2>4, <3>1 DEF ClosesAll, Closing
  <2> QED
    BY <2>1, <2>5, <2>6, <2>7
<1>3. CASE (LockStep(c) \/ FreeStep(c)) /\ ~Invoke(c)
  <2>1. /\ pc[c] \notin Closing \cup {"idle"} /\ closed' = closed /\ pc'[c] \notin Closing
    BY <1>1, <1>3 DEF LockStep, RotateSwap, RotatePush, RotateAgain, Limit, GetImmutable, GetFrom,
         ScanImmutable, ScanStep, FreeStep, CheckRotate, TakeSequence, Insert, GetMemtable,
         GetTables, ScanMemtable, ScanTables, Return, Goto, shared, history, Closing
  <2> QED
    BY <2>1 DEF ClosesAll
<1> QED
  BY <1>2, <1>3

(* ... and after it has emptied the list, its clone is like the memtable.   *)
LEMMA ClosesCloseStep ==
  ASSUME OneClient, BaseInv, Reached, NEW c \in Client, ClosesAll(c),
         CloseDrain(c) \/ CloseClone(c), UNCHANGED stored
  PROVE  ClosesAll(c)'
<1>1. /\ pc \in [Client -> Steps] /\ closed \in BOOLEAN /\ memtable \in Ids /\ heap \in Seq(MemTableRec)
      /\ hand \in [Client -> Seq(Ids)]
      /\ stored \in [Key -> Nat]
  BY DEF BaseInv, WorkInv, Shape, TypeOK, RecoveryTypeOK
<1>2. pc[c] \in {"drain", "clone"} /\ closed /\ closed' = closed
  BY DEF CloseDrain, CloseClone, ClosesAll, Closing
<1>3. CASE CloseDrain(c)
  <2>1. immutable_memtables' = <<>> /\ pc'[c] \in {"clone", "drain_flush"}
    BY <1>1, <1>3 DEF CloseDrain, Goto
  <2> QED
    BY <1>2, <2>1 DEF ClosesAll, Closing
<1>4. CASE CloseClone(c) /\ heap[memtable].count # 0
  <2>1. /\ pc'[c] = "clone_flush" /\ memtable' = memtable /\ immutable_memtables' = immutable_memtables
        /\ heap' = Append(heap, [heap[memtable] EXCEPT !.immutable = TRUE])
        /\ hand'[c] = <<Len(heap) + 1>>
    BY <1>1, <1>4 DEF CloseClone, Goto
  <2>2. immutable_memtables = <<>>
    BY <1>2, <1>4 DEF ClosesAll, CloseClone
  <2>3. heap[memtable] \in MemTableRec
    BY <1>1 DEF Ids
  <2>4. PICK clone : clone = [heap[memtable] EXCEPT !.immutable = TRUE]
    OBVIOUS
  <2>5. clone \in MemTableRec /\ clone.data = heap[memtable].data
    BY <2>3, <2>4 DEF MemTableRec
  <2>6. /\ heap'[Len(heap) + 1] = clone
        /\ \A i \in 1..Len(heap) : heap'[i] = heap[i]
    BY <1>1, <2>1, <2>4, <2>5, SeqAppend
  <2>7. heap'[hand'[c][1]].data = heap'[memtable'].data
    BY <1>1, <2>1, <2>5, <2>6 DEF Ids
  <2> QED
    BY <1>2, <2>1, <2>2, <2>7 DEF ClosesAll, Closing
<1>5. CASE CloseClone(c) /\ heap[memtable].count = 0
  <2>1. /\ pc'[c] = "idle"
        /\ UNCHANGED <<memtable, immutable_memtables, heap, hand, dropped, latest>>
    BY <1>1, <1>5 DEF CloseClone, Return, Goto, history
  <2>2. immutable_memtables = <<>>
    BY <1>2, <1>5 DEF ClosesAll, CloseClone
  <2>3. hand[c] = <<>>
    BY <1>5 DEF CloseClone, BaseInv, WorkInv, Shape, HandShape
  <2>4. Memtables = {memtable}
    <3>1. InHand(c) = {} /\ Listed = {}
      BY <2>2, <2>3 DEF InHand, Listed
    <3>2. \A d \in Client : d = c
      BY DEF OneClient
    <3> QED
      BY <3>1, <3>2 DEF Memtables
  <2>5. heap[memtable].data = NoEntries
    BY <1>1, <1>5 DEF BaseInv, WorkInv, Shape, CountZeroIsEmpty
  <2>6. ASSUME NEW k \in Key PROVE Gone(k)
    <3>1. StampOf(heap[memtable].data[k]) = 0
      BY <2>5 DEF StampOf, NoEntries
    <3>2. latest[k] = 0 => latest[k] <= stored[k]
      BY <1>1
    <3> QED
      BY <2>4, <3>1, <3>2 DEF Reached, Gone
  <2>7. \A k \in Key : Gone(k)'
    BY <2>1, <2>6 DEF Gone
  <2> QED
    BY <1>2, <2>1, <2>2, <2>7 DEF ClosesAll, Closing
<1> QED
  BY <1>3, <1>4, <1>5

(* A flush writes what it takes, or its memtable is dropped.                *)
LEMMA FlushReaches ==
  ASSUME BaseInv, NEW c \in Client, NEW r \in AnyResult, NEW left \in Left, NEW s \in 0..MaxSecond,
         FlushToFile(c, r, left, s), NEW m, m = hand[c][1]
  PROVE  /\ m \in Ids /\ StoredGrows /\ dropped \subseteq dropped'
         /\ UNCHANGED <<heap, memtable, immutable_memtables, latest>>
         /\ \A n \in Memtables : n = m \/ n \in Memtables'
         /\ m \in dropped' \/ \A k \in Key : StampOf(heap[m].data[k]) <= stored'[k]
<1>0. /\ Shape /\ RecoveryTypeOK /\ stored \in [Key -> Nat]
  BY DEF BaseInv, WorkInv, RecoveryTypeOK
<1>1. m \in Ids /\ Flushes(c, m, r, left, s)
  BY <1>0, FlushedFacts DEF AnyResult
<1>2. FlushStep(c) /\ FlushMemtable(m, r)
  BY <1>1 DEF Flushes
<1>3. /\ UNCHANGED <<heap, memtable, immutable_memtables, latest>>
      /\ \A n \in Memtables : n = m \/ n \in Memtables'
  BY <1>0, <1>2, FlushTakes
<1>4. dropped \subseteq dropped' /\ (r = "err" => m \in dropped')
  BY <1>2 DEF FlushMemtable
<1>5. r \in {"ok", "err"}
  BY StorageEngineAssumption DEF AnyResult
<1>6. CASE heap[m].count = 0
  <2>1. UNCHANGED stored /\ heap[m].data = NoEntries
    BY <1>0, <1>1, <1>6 DEF Flushes, files, Shape, CountZeroIsEmpty
  <2>2. \A k \in Key : StampOf(heap[m].data[k]) = 0
    BY <2>1 DEF StampOf, NoEntries
  <2>3. StoredGrows /\ \A k \in Key : 0 <= stored'[k]
    BY <1>0, <2>1 DEF StoredGrows
  <2> QED
    BY <1>1, <1>3, <1>4, <2>2, <2>3
<1>7. CASE heap[m].count # 0
  <2>1. PICK f : f = FileOf(m, s)
    OBVIOUS
  <2>2. f \in File /\ WritesFile(f, left) /\ (r = "ok" => left = "complete") /\ f.data = heap[m].data
    BY <1>1, <1>7, <2>1 DEF Flushes, FileOf
  <2>3. StoredGrows /\ (left = "complete" => \A k \in Key : StampOf(f.data[k]) <= stored'[k])
    BY <1>0, <2>2, WrittenGrows
  <2> QED
    BY <1>1, <1>3, <1>4, <1>5, <2>2, <2>3
<1> QED
  BY <1>6, <1>7

LEMMA ClosesFlush ==
  ASSUME OneClient, CloseInv, BaseInv', NEW c \in Client, NEW r \in AnyResult, NEW left \in Left,
         NEW s \in 0..MaxSecond, FlushToFile(c, r, left, s)
  PROVE  CloseInv'
<1>0. BaseInv /\ Reached /\ ClosesAll(c) /\ Client # {} /\ \A d \in Client : d = c
  BY DEF OneClient, CloseInv
<1>8. /\ stored \in [Key -> Nat] /\ stored' \in [Key -> Nat]
      /\ latest \in [Key -> Nat] /\ pc \in [Client -> Steps] /\ closed \in BOOLEAN
  BY <1>0 DEF BaseInv, WorkInv, Shape, TypeOK, RecoveryTypeOK
<1>1. PICK m : m = hand[c][1]
  OBVIOUS
<1>2. /\ m \in Ids /\ StoredGrows /\ dropped \subseteq dropped'
      /\ UNCHANGED <<heap, memtable, immutable_memtables, latest>>
      /\ \A n \in Memtables : n = m \/ n \in Memtables'
      /\ m \in dropped' \/ \A k \in Key : StampOf(heap[m].data[k]) <= stored'[k]
  BY <1>0, <1>8, <1>1, FlushReaches
<1>3. \A k \in Key : latest[k] <= stored[k] => latest[k] <= stored'[k]
  BY <1>0, <1>8, <1>2 DEF StoredGrows
<1>4. ASSUME NEW k \in Key, Gone(k) \/ StampOf(heap[m].data[k]) = latest[k]
      PROVE  Gone(k)'
  <2>1. CASE Gone(k)
    BY <1>2, <1>3, <2>1 DEF Gone
  <2>2. CASE StampOf(heap[m].data[k]) = latest[k]
    <3>1. CASE m \in dropped'
      BY <1>2, <2>2, <3>1 DEF Gone, StampOf
    <3>2. CASE StampOf(heap[m].data[k]) <= stored'[k]
      BY <1>2, <2>2, <3>2 DEF Gone
    <3> QED
      BY <1>2, <3>1, <3>2
  <2> QED
    BY <1>4, <2>1, <2>2
<1>5. Reached'
  <2>1. ASSUME NEW k \in Key
        PROVE  Gone(k)' \/ \E n \in Memtables' : StampOf(heap[n].data[k]) = latest[k]
    <3>1. Gone(k) \/ \E n \in Memtables : StampOf(heap[n].data[k]) = latest[k]
      BY <1>0, <1>8 DEF Reached
    <3>2. ASSUME NEW n \in Memtables, StampOf(heap[n].data[k]) = latest[k], n # m
          PROVE  \E o \in Memtables' : StampOf(heap[o].data[k]) = latest[k]
      <4>1. n \in Memtables'
        BY <1>2, <3>2
      <4> QED
        BY <3>2, <4>1
    <3> QED
      BY <1>4, <3>1, <3>2
  <2> QED
    BY <1>2, <2>1 DEF Reached, StampOf
<1>6. closed' = closed
  BY DEF FlushToFile, Flush, DrainFlush, CloseFlush
<1>7. ClosesAll(c)'
  <2>1. CASE Flush(c, r)
    <3>1. pc[c] = "flush" /\ pc'[c] \in {"limit", "idle"}
      BY <1>0, <1>8, <2>1 DEF Flush, Return, Goto
    <3>2. ~closed
      BY <1>0, <1>8, <3>1 DEF ClosesAll, Closing
    <3> QED
      BY <1>6, <3>1, <3>2 DEF ClosesAll, Closing
  <2>2. CASE DrainFlush(c, r)
    <3>1. pc[c] = "drain_flush" /\ pc'[c] \in {"drain_flush", "clone"}
      BY <1>0, <1>8, <2>2 DEF DrainFlush, DrainNext, Goto
    <3>2. closed /\ immutable_memtables = <<>>
      BY <1>0, <1>8, <3>1 DEF ClosesAll, Closing
    <3> QED
      BY <1>2, <1>6, <3>1, <3>2 DEF ClosesAll, Closing
  <2>3. CASE CloseFlush(c, r)
    <3>1. pc[c] = "clone_flush" /\ pc'[c] = "idle"
      BY <1>0, <1>8, <2>3 DEF CloseFlush, Return, Goto
    <3>2. closed /\ immutable_memtables = <<>> /\ heap[m].data = heap[memtable].data
      BY <1>0, <1>8, <1>1, <3>1 DEF ClosesAll, Closing
    <3>3. \A n \in Memtables : n = memtable \/ n = m
      <4>1. Len(hand[c]) = 1 /\ hand[c] \in Seq(Ids)
        BY <1>0, <1>8, <3>1 DEF BaseInv, WorkInv, Shape, TypeOK, HandShape
      <4>2. DOMAIN hand[c] = {1}
        BY <4>1
      <4>3. InHand(c) = {m} /\ Listed = {}
        BY <1>1, <3>2, <4>2 DEF InHand, Listed
      <4> QED
        BY <1>0, <1>8, <4>3 DEF Memtables
    <3>4. ASSUME NEW k \in Key PROVE Gone(k)'
      <4>1. Gone(k) \/ \E n \in Memtables : StampOf(heap[n].data[k]) = latest[k]
        BY <1>0, <1>8 DEF Reached
      <4>2. Gone(k) \/ StampOf(heap[m].data[k]) = latest[k]
        BY <3>2, <3>3, <4>1
      <4> QED
        BY <1>4, <4>2
    <3> QED
      BY <1>2, <1>6, <3>1, <3>2, <3>4 DEF ClosesAll, Closing
  <2> QED
    BY <2>1, <2>2, <2>3 DEF FlushToFile
<1> QED
  BY <1>0, <1>8, <1>5, <1>7 DEF CloseInv

LEMMA ClosesCrash ==
  ASSUME IsFiniteSet(Client), BaseInv, AnyCrash
  PROVE  CloseInv'
<1>1. PICK s \in 0..MaxSecond : \E left \in [UnderWay(s) -> Left] : Crash(s, left)
  BY DEF AnyCrash
<1>2. PICK left \in [UnderWay(s) -> Left] : Crash(s, left)
  BY <1>1
<1>3. BaseInv' /\ Fresh'
  BY <1>2, CrashBase
<1>4. latest' = stored'
  BY <1>2, ZenonT(60) DEF Crash
<1>5. stored' \in [Key -> Nat]
  BY <1>3 DEF BaseInv, RecoveryTypeOK
<1>6. \A k \in Key : latest'[k] <= stored'[k]
  BY <1>4, <1>5
<1>7. \A k \in Key : Gone(k)'
  BY <1>6 DEF Gone
<1>8. Reached'
  BY <1>7 DEF Reached
<1>9. closed' = FALSE /\ \A c \in Client : pc'[c] = "idle"
  BY <1>3 DEF Fresh
<1>10. \A c \in Client : ClosesAll(c)'
  BY <1>9 DEF ClosesAll, Closing
<1> QED
  BY <1>3, <1>8, <1>9, <1>10 DEF CloseInv

LEMMA CloseInvInit == RecoveryInit => CloseInv
<1> SUFFICES ASSUME RecoveryInit PROVE CloseInv
  OBVIOUS
<1>1. BaseInv
  BY RecoveryInitBase
<1>2. /\ latest = [k \in Key |-> 0] /\ stored = [k \in Key |-> 0]
      /\ closed = FALSE /\ pc = [c \in Client |-> "idle"]
  BY DEF RecoveryInit, CompactionInit, Init
<1>3. \A k \in Key : latest[k] <= stored[k]
  BY <1>2
<1>4. Reached
  BY <1>3 DEF Reached, Gone
<1>5. \A c \in Client : ClosesAll(c)
  BY <1>2 DEF ClosesAll, Closing
<1> QED
  BY <1>1, <1>2, <1>4, <1>5 DEF CloseInv

LEMMA CloseInvStep ==
  ASSUME OneClient
  PROVE  CloseInv /\ [RecoveryNext]_rvars => CloseInv'
<1> SUFFICES ASSUME CloseInv, [RecoveryNext]_rvars PROVE CloseInv'
  OBVIOUS
<1>0. /\ IsFiniteSet(Client) /\ BaseInv /\ Reached /\ Shape /\ stored \in [Key -> Nat]
      /\ (\A c \in Client : ClosesAll(c)) /\ (closed => Client # {})
  BY SingleClient DEF CloseInv, BaseInv, WorkInv, RecoveryTypeOK
<1>1. BaseInv'
  BY <1>0, BaseInvStep
<1>2. UNCHANGED stored => StoredGrows
  BY <1>0 DEF StoredGrows
<1>3. CASE UNCHANGED inMemory /\ UNCHANGED stored
  BY <1>0, <1>1, <1>2, <1>3, ClosesUnchanged
<1>4. CASE UNCHANGED rvars
  <2>1. UNCHANGED inMemory /\ UNCHANGED stored
    BY <1>4 DEF rvars, files, cvars, vars, shared, private, history, inMemory
  <2> QED
    BY <1>3, <2>1
<1>5. CASE Open
  <2>1. UNCHANGED inMemory /\ UNCHANGED stored
    BY <1>5 DEF Open, private, history, inMemory
  <2> QED
    BY <1>3, <2>1
<1>6. CASE AnyCrash
  BY <1>0, <1>6, ClosesCrash
<1>7. ASSUME NEW c \in Client, (Invoke(c) \/ LockStep(c) \/ FreeStep(c)) /\ UNCHANGED <<compactor, files>>
      PROVE  CloseInv'
  <2>1. UNCHANGED stored
    BY <1>7 DEF files
  <2>2. Reached'
    BY <1>0, <1>7, <2>1, ReachedOwnStep
  <2>3. ClosesAll(c)'
    BY <1>0, <1>7, <2>1, ClosesOpenStep, ClosesCloseStep
  <2> QED
    BY <1>1, <2>2, <2>3 DEF CloseInv, OneClient
<1>8. ASSUME RunningStep PROVE CloseInv'
  <2>1. CASE \E c \in Client, r \in AnyResult, left \in Left, s \in 0..MaxSecond : FlushToFile(c, r, left, s)
    BY <1>1, <2>1, ClosesFlush
  <2>2. CASE \E c \in Client : (Invoke(c) \/ LockStep(c) \/ FreeStep(c)) /\ UNCHANGED <<compactor, files>>
    BY <1>7, <2>2
  <2>3. CASE CompactorRuns
    BY <1>1, <2>3, ClosesCompacting
  <2> QED
    BY <1>8, <2>1, <2>2, <2>3 DEF RunningStep, CompactorRuns
<1> QED
  BY <1>4, <1>5, <1>6, <1>8, RecoverySteps

(* With one client, what was written before a close has reached the disk    *)
(* when the close returns, whatever compaction did meanwhile and however    *)
(* often the process ended before, or else the flush of its memtable        *)
(* failed.                                                                  *)
THEOREM CloseReachesDiskHolds == RecoverySpec => []CloseReachesDisk
<1>1. RecoveryInit => CloseInv
  BY CloseInvInit
<1>2. CloseInv /\ [RecoveryNext]_rvars => CloseInv'
  BY CloseInvStep, SingleClient
<1>3. CloseInv => CloseReachesDisk
  BY DEF CloseInv, ClosesAll, Gone, CloseReachesDisk
<1> QED
  BY <1>1, <1>2, <1>3, PTL DEF RecoverySpec
=============================================================================
