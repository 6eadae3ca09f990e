----------------------------- MODULE LedgerProofs -----------------------------
(***************************************************************************)
(* What the ledger keeps through process crashes or power losses, for any  *)
(* frame length, any caps and any records, and that its files implement the*)
(* append-only history of EffectLog.                                       *)
(***************************************************************************)
EXTENDS Ledger, FiniteSetTheorems, FunctionTheorems, TLAPS

USE FrameLenAssumption

-----------------------------------------------------------------------------
(* The queries of Ledger as operators of any files: frames h, tails t and  *)
(* acks a, so that the lemmas about them serve both sides of a step.       *)

Tails == Seq(0..(FrameLen - 1))
FramesIn(h, s) == { i \in 1..Len(h) : h[i].seg = s }
SizeIn(h, t, s) == FrameLen * Cardinality(FramesIn(h, s)) + t[s]
TornIn(t) == { p \in (1..Len(t)) \X (1..FrameLen) : p[2] <= t[p[1]] }
TotalIn(h, t) == FrameLen * Len(h) + Cardinality(TornIn(t))
RecordsIn(h) == [i \in 1..Len(h) |-> h[i].rec]
AckedIn(a, s) == \E x \in a : x.seg = s

Accepted(h) ==
    /\ \A i \in 1..Len(h) : h[i].seq = i /\ WellFormed(h[i].rec)
    /\ Replayable(RecordsIn(h))

Explained(h, t, a) ==
    /\ \A x \in a :
          /\ x.seg \in 1..Len(t)
          /\ t[x.seg] # 0
          /\ x.bytes = SizeIn(h, t, x.seg)
          /\ \A y \in a : y.seg = x.seg => y = x
    /\ \A s \in 1..Len(t) : t[s] # 0 /\ s # Len(t) => AckedIn(a, s)

Capped(h, t, a) ==
    /\ \A s \in 1..Len(t) : SizeIn(h, t, s) <= MaxSegmentBytes
    /\ Len(t) <= MaxSegments
    /\ Cardinality(a) <= MaxSegments
    /\ TotalIn(h, t) <= MaxLedgerBytes

\* Every frame lies in a segment that exists.
Placed(h, t) == \A i \in 1..Len(h) : h[i].seg \in 1..Len(t)

-----------------------------------------------------------------------------
(* Counting frames and torn units.                                         *)

LEMMA Interval ==
    ASSUME NEW n \in Nat
    PROVE  IsFiniteSet(1..n) /\ Cardinality(1..n) = n
<1>1. IsFiniteSet(1..n) /\ Cardinality(1..n) = IF 1 > n THEN 0 ELSE n - 1 + 1
  <2>1. 1 \in Int /\ n \in Int
    OBVIOUS
  <2> QED BY <2>1, FS_Interval, Zenon
<1> QED
  BY <1>1, SMTT(30)

LEMMA FramesCounted ==
    ASSUME NEW h \in Seq(Entry), NEW s
    PROVE  /\ IsFiniteSet(FramesIn(h, s))
           /\ Cardinality(FramesIn(h, s)) \in Nat
           /\ Cardinality(FramesIn(h, s)) <= Len(h)
<1>1. Len(h) \in Nat
  OBVIOUS
<1>2. IsFiniteSet(1..Len(h)) /\ Cardinality(1..Len(h)) = Len(h)
  BY <1>1, Interval
<1>3. FramesIn(h, s) \in SUBSET (1..Len(h))
  BY DEF FramesIn
<1> QED
  BY <1>2, <1>3, FS_Subset, FS_CardinalityType

LEMMA FramesGrow ==
    ASSUME NEW h \in Seq(Entry), NEW e \in Entry, NEW s
    PROVE  Cardinality(FramesIn(Append(h, e), s)) =
              Cardinality(FramesIn(h, s)) + (IF e.seg = s THEN 1 ELSE 0)
<1> DEFINE n == Len(h) + 1
<1>1. /\ Len(h) \in Nat /\ Len(Append(h, e)) = n
      /\ \A i \in 1..Len(h) : Append(h, e)[i] = h[i]
      /\ Append(h, e)[n] = e
      /\ 1..n = (1..Len(h)) \union {n} /\ n \notin 1..Len(h)
  OBVIOUS
<1> HIDE DEF n
<1>2. CASE e.seg = s
  <2>1. FramesIn(Append(h, e), s) = FramesIn(h, s) \union {n}
    BY <1>1, <1>2 DEF FramesIn
  <2>2. n \notin FramesIn(h, s)
    BY <1>1 DEF FramesIn
  <2>3. /\ IsFiniteSet(FramesIn(h, s))
        /\ Cardinality(FramesIn(h, s)) \in Nat
    BY FramesCounted
  <2>4. Cardinality(FramesIn(h, s) \union {n}) = Cardinality(FramesIn(h, s)) + 1
    BY <2>2, <2>3, FS_AddElement, Zenon
  <2> QED BY <1>2, <2>1, <2>4
<1>3. CASE e.seg # s
  <2>1. FramesIn(Append(h, e), s) = FramesIn(h, s)
    BY <1>1, <1>3 DEF FramesIn
  <2> QED
    BY <1>3, <2>1, FramesCounted
<1> QED
  BY <1>2, <1>3

\* A segment number behind the last one holds no frame.
LEMMA NoFrames ==
    ASSUME NEW h, NEW s, \A i \in 1..Len(h) : h[i].seg # s
    PROVE  FramesIn(h, s) = {} /\ Cardinality(FramesIn(h, s)) = 0
<1>1. FramesIn(h, s) = {}
  BY DEF FramesIn
<1> QED
  BY <1>1, FS_EmptySet

LEMMA TornCounted ==
    ASSUME NEW t \in Tails
    PROVE  IsFiniteSet(TornIn(t)) /\ Cardinality(TornIn(t)) \in Nat
<1>1. Len(t) \in Nat
  BY DEF Tails
<1>2. IsFiniteSet((1..Len(t)) \X (1..FrameLen))
  <2>1. IsFiniteSet(1..Len(t)) /\ IsFiniteSet(1..FrameLen)
    BY <1>1, Interval
  <2> QED
    BY <2>1, FS_Product
<1>3. TornIn(t) \in SUBSET ((1..Len(t)) \X (1..FrameLen))
  BY DEF TornIn
<1> QED
  BY <1>2, <1>3, FS_Subset, FS_CardinalityType

\* The torn units of one segment.
Column(s, k) == {s} \X (1..k)

LEMMA ColumnCounted ==
    ASSUME NEW s, NEW k \in Nat
    PROVE  IsFiniteSet(Column(s, k)) /\ Cardinality(Column(s, k)) = k
<1>1. IsFiniteSet({s}) /\ Cardinality({s}) = 1
  BY FS_Singleton
<1>2. IsFiniteSet(1..k) /\ Cardinality(1..k) = k
  BY Interval
<1>3. Cardinality(Column(s, k)) = 1 * k
  BY <1>1, <1>2, FS_Product DEF Column
<1>4. IsFiniteSet(Column(s, k))
  BY <1>1, <1>2, FS_Product DEF Column
<1> QED
  BY <1>3, <1>4

\* The torn units of all segments but one, and those of that one.
LEMMA TornSplit ==
    ASSUME NEW t \in Tails, NEW z \in Tails, NEW s \in 1..Len(t),
           Len(z) <= Len(t),
           \A u \in 1..Len(z) : u # s => z[u] = t[u],
           \A u \in 1..Len(t) : u # s => u <= Len(z),
           s \in 1..Len(z) => z[s] = 0
    PROVE  Cardinality(TornIn(t)) = Cardinality(TornIn(z)) + t[s]
<1>1. /\ Len(t) \in Nat /\ Len(z) \in Nat
      /\ \A u \in 1..Len(t) : t[u] \in 0..(FrameLen - 1)
      /\ \A u \in 1..Len(z) : z[u] \in 0..(FrameLen - 1)
  BY SMTT(30) DEF Tails
<1>2. t[s] \in Nat /\ t[s] < FrameLen
  BY <1>1
<1>3. TornIn(t) = TornIn(z) \union Column(s, t[s])
  <2>1. ASSUME NEW p \in TornIn(t)
        PROVE  p \in TornIn(z) \union Column(s, t[s])
    <3>1. PICK u \in 1..Len(t), k \in 1..FrameLen : p = <<u, k>> /\ k <= t[u]
      BY DEF TornIn
    <3>2. CASE u = s
      BY <1>2, <3>1, <3>2 DEF Column
    <3>3. CASE u # s
      <4>1. u \in 1..Len(z)
        BY <1>1, <3>3
      <4>2. k <= z[u]
        BY <3>1, <3>3, <4>1
      <4> QED BY <3>1, <4>1, <4>2 DEF TornIn
    <3> QED BY <3>2, <3>3
  <2>2. ASSUME NEW p \in TornIn(z)
        PROVE  p \in TornIn(t)
    <3>1. PICK u \in 1..Len(z), k \in 1..FrameLen : p = <<u, k>> /\ k <= z[u]
      BY DEF TornIn
    <3>2. u # s
      BY <3>1
    <3>3. u \in 1..Len(t) /\ z[u] = t[u]
      BY <1>1, <3>2
    <3> QED BY <3>1, <3>3 DEF TornIn
  <2>3. ASSUME NEW p \in Column(s, t[s])
        PROVE  p \in TornIn(t)
    <3>1. PICK k \in 1..t[s] : p = <<s, k>>
      BY DEF Column
    <3>2. k \in 1..FrameLen
      BY <1>2
    <3> QED BY <1>2, <3>1, <3>2 DEF TornIn
  <2> QED BY <2>1, <2>2, <2>3
<1>4. TornIn(z) \intersect Column(s, t[s]) = {}
  <2>1. ASSUME NEW p \in TornIn(z), p \in Column(s, t[s])
        PROVE  FALSE
    <3>1. PICK u \in 1..Len(z), k \in 1..FrameLen : p = <<u, k>> /\ k <= z[u]
      BY DEF TornIn
    <3>2. u = s
      BY <2>1, <3>1 DEF Column
    <3> QED BY <3>1, <3>2
  <2> QED BY <2>1
<1>5. IsFiniteSet(TornIn(z)) /\ Cardinality(TornIn(z)) \in Nat
  BY TornCounted
<1>6. IsFiniteSet(Column(s, t[s])) /\ Cardinality(Column(s, t[s])) = t[s]
  BY <1>2, ColumnCounted
<1>7. Cardinality(TornIn(z) \intersect Column(s, t[s])) = 0
  BY <1>4, FS_EmptySet
<1>8. Cardinality(TornIn(z) \union Column(s, t[s])) =
          Cardinality(TornIn(z)) + Cardinality(Column(s, t[s]))
            - Cardinality(TornIn(z) \intersect Column(s, t[s]))
  BY <1>5, <1>6, FS_Union
<1> QED
  BY <1>2, <1>3, <1>5, <1>6, <1>7, <1>8

LEMMA TailsTyped ==
    ASSUME NEW t \in Tails
    PROVE  /\ Len(t) \in Nat
           /\ \A s \in 1..Len(t) : t[s] \in Nat /\ t[s] < FrameLen
  BY DEF Tails

\* A new segment is empty.
LEMMA TornOpened ==
    ASSUME NEW t \in Tails
    PROVE  /\ Append(t, 0) \in Tails
           /\ Len(Append(t, 0)) = Len(t) + 1
           /\ \A s \in 1..Len(t) : Append(t, 0)[s] = t[s]
           /\ Append(t, 0)[Len(t) + 1] = 0
           /\ Cardinality(TornIn(Append(t, 0))) = Cardinality(TornIn(t))
<1>1. /\ Append(t, 0) \in Tails
      /\ Len(t) \in Nat /\ Len(Append(t, 0)) = Len(t) + 1
      /\ \A s \in 1..Len(t) : Append(t, 0)[s] = t[s]
      /\ Append(t, 0)[Len(t) + 1] = 0
  BY DEF Tails
<1> DEFINE u == Append(t, 0)
<1>2. u[Len(t) + 1] = 0 /\ Len(u) = Len(t) + 1 /\ u \in Tails
      /\ \A s \in 1..Len(t) : u[s] = t[s]
  BY <1>1
<1> HIDE DEF u
<1>3. Len(t) + 1 \in 1..Len(u)
  BY <1>1, <1>2
<1>4. \A s \in 1..Len(u) : s # Len(t) + 1 => s <= Len(t)
  BY <1>1, <1>2
<1>5. Cardinality(TornIn(u)) = Cardinality(TornIn(t)) + 0
  BY <1>1, <1>2, <1>3, <1>4, TornSplit
<1>6. Cardinality(TornIn(t)) \in Nat
  BY TornCounted
<1> QED
  BY <1>1, <1>5, <1>6 DEF u

\* The last incomplete frame becomes longer, shorter or complete.
LEMMA TornReplaced ==
    ASSUME NEW t \in Tails, NEW s \in 1..Len(t), NEW k \in 0..(FrameLen - 1)
    PROVE  LET u == [t EXCEPT ![s] = k]
           IN  /\ u \in Tails
               /\ Len(u) = Len(t)
               /\ u[s] = k
               /\ \A v \in 1..Len(t) : v # s => u[v] = t[v]
               /\ Cardinality(TornIn(u)) = Cardinality(TornIn(t)) - t[s] + k
<1> DEFINE u == [t EXCEPT ![s] = k]
           z == [t EXCEPT ![s] = 0]
<1>1. /\ u \in Tails /\ Len(u) = Len(t) /\ u[s] = k /\ Len(t) \in Nat
      /\ \A v \in 1..Len(t) : v # s => u[v] = t[v]
  BY DEF Tails
<1>2. /\ z \in Tails /\ Len(z) = Len(t) /\ z[s] = 0
      /\ \A v \in 1..Len(t) : v # s => z[v] = t[v]
  BY DEF Tails
<1> HIDE DEF u, z
<1>3. Cardinality(TornIn(t)) = Cardinality(TornIn(z)) + t[s]
  BY <1>1, <1>2, TornSplit
<1>4. Cardinality(TornIn(u)) = Cardinality(TornIn(z)) + u[s]
  BY <1>1, <1>2, TornSplit
<1>5. Cardinality(TornIn(z)) \in Nat /\ t[s] \in Nat
  BY <1>2, TornCounted, TailsTyped
<1> QED
  BY <1>1, <1>3, <1>4, <1>5 DEF u

\* Multiples of the frame length.
LEMMA Frames ==
    /\ \A c \in Nat : FrameLen * c \in Nat
    /\ \A c \in Nat : FrameLen * (c + 1) = FrameLen * c + FrameLen
    /\ \A c, d \in Nat : c <= d => FrameLen * c <= FrameLen * d
    /\ \A c, d \in Nat : c < d => FrameLen * c + FrameLen <= FrameLen * d
<1>1. \A c \in Nat : FrameLen * c \in Nat
  OBVIOUS
<1>2. \A c \in Nat : FrameLen * (c + 1) = FrameLen * c + FrameLen
  OBVIOUS
<1>3. \A c, k \in Nat : FrameLen * (c + k) = FrameLen * c + FrameLen * k
  OBVIOUS
<1>4. ASSUME NEW c \in Nat, NEW d \in Nat, c <= d
      PROVE  FrameLen * c <= FrameLen * d
  <2>1. d - c \in Nat /\ d = c + (d - c)
    BY <1>4
  <2>2. FrameLen * d = FrameLen * c + FrameLen * (d - c)
    BY <2>1, <1>3
  <2> QED
    BY <1>1, <2>1, <2>2
<1>5. ASSUME NEW c \in Nat, NEW d \in Nat, c < d
      PROVE  FrameLen * c + FrameLen <= FrameLen * d
  <2>1. c + 1 \in Nat /\ c + 1 <= d
    BY <1>5
  <2> QED
    BY <1>2, <1>4, <2>1
<1> QED
  BY <1>1, <1>2, <1>4, <1>5

\* What lies behind the last whole frame.
LEMMA Remainder ==
    ASSUME NEW c \in Nat, NEW k \in Nat, k < FrameLen
    PROVE  (FrameLen * c + k) % FrameLen = k
  OBVIOUS

LEMMA Counts ==
    ASSUME NEW h \in Seq(Entry), NEW t \in Tails
    PROVE  /\ Len(h) \in Nat /\ FrameLen * Len(h) \in Nat
           /\ TotalIn(h, t) \in Nat
           /\ \A s \in 1..Len(t) : SizeIn(h, t, s) \in Nat
<1>1. Len(h) \in Nat /\ Cardinality(TornIn(t)) \in Nat
  BY TornCounted
<1>2. FrameLen * Len(h) \in Nat
  BY <1>1, Frames
<1>3. ASSUME NEW s \in 1..Len(t)
      PROVE  SizeIn(h, t, s) \in Nat
  <2>1. Cardinality(FramesIn(h, s)) \in Nat /\ t[s] \in Nat
    BY FramesCounted, TailsTyped
  <2>2. FrameLen * Cardinality(FramesIn(h, s)) \in Nat
    BY <2>1, Frames
  <2> QED BY <2>1, <2>2 DEF SizeIn
<1> QED
  BY <1>1, <1>2, <1>3 DEF TotalIn

-----------------------------------------------------------------------------
(* Recovery acks.                                                          *)

\* There are no more acks than segments.
LEMMA AcksCounted ==
    ASSUME NEW h, NEW t, NEW a, Len(t) \in Nat, Explained(h, t, a)
    PROVE  IsFiniteSet(a) /\ Cardinality(a) <= Len(t)
<1> DEFINE f == [x \in a |-> x.seg]
<1>1. f \in [a -> 1..Len(t)]
  BY DEF Explained
<1>2. \A x, y \in a : f[x] = f[y] => x = y
  BY DEF Explained
<1>3. f \in Injection(a, 1..Len(t))
  <2> HIDE DEF f
  <2> QED BY <1>1, <1>2, Fun_IsInj
<1>4. IsFiniteSet(1..Len(t)) /\ Cardinality(1..Len(t)) = Len(t)
  BY Interval
<1> HIDE DEF f
<1> QED
  BY <1>3, <1>4, FS_Injection

LEMMA AckCreated ==
    ASSUME NEW h, NEW t \in Tails, NEW a, Explained(h, t, a),
           Len(t) # 0, t[Len(t)] # 0, ~AckedIn(a, Len(t)), NEW x,
           x.seg = Len(t), x.bytes = SizeIn(h, t, Len(t))
    PROVE  Explained(h, t, a \union {x})
<1>1. Len(t) \in 1..Len(t)
  BY TailsTyped
<1>2. \A y \in a : y.seg # x.seg
  BY DEF AckedIn
<1>3. \A y \in a \union {x} :
          /\ y.seg \in 1..Len(t)
          /\ t[y.seg] # 0
          /\ y.bytes = SizeIn(h, t, y.seg)
          /\ \A z \in a \union {x} : z.seg = y.seg => z = y
  BY <1>1, <1>2 DEF Explained
<1>4. \A s \in 1..Len(t) : t[s] # 0 /\ s # Len(t) => AckedIn(a \union {x}, s)
  BY DEF Explained, AckedIn
<1> QED
  BY <1>3, <1>4 DEF Explained

\* Only the last segment changes and it has no ack.
LEMMA LastChanged ==
    ASSUME NEW h, NEW t \in Tails, NEW a, Explained(h, t, a),
           NEW g, NEW u, Len(u) = Len(t), ~AckedIn(a, Len(t)),
           \A s \in 1..Len(t) : s # Len(t) =>
              u[s] = t[s] /\ SizeIn(g, u, s) = SizeIn(h, t, s)
    PROVE  Explained(g, u, a)
<1>1. \A x \in a : x.seg \in 1..Len(t) /\ x.seg # Len(t)
  BY DEF Explained, AckedIn
<1>2. \A x \in a :
          /\ x.seg \in 1..Len(u)
          /\ u[x.seg] # 0
          /\ x.bytes = SizeIn(g, u, x.seg)
          /\ \A y \in a : y.seg = x.seg => y = x
  BY <1>1 DEF Explained
<1>3. \A s \in 1..Len(u) : u[s] # 0 /\ s # Len(u) => AckedIn(a, s)
  BY DEF Explained
<1> QED
  BY <1>2, <1>3 DEF Explained

-----------------------------------------------------------------------------
(* What the system calls of an append do to the files.                     *)

LEMMA SegmentOpened ==
    ASSUME NEW h \in Seq(Entry), NEW t \in Tails, NEW a, Explained(h, t, a),
           Placed(h, t),
           Len(t) # 0 /\ t[Len(t)] # 0 => AckedIn(a, Len(t))
    PROVE  LET u == Append(t, 0)
           IN  /\ Explained(h, u, a)
               /\ Placed(h, u)
               /\ ~AckedIn(a, Len(u))
               /\ \A s \in 1..Len(t) : SizeIn(h, u, s) = SizeIn(h, t, s)
               /\ SizeIn(h, u, Len(u)) = 0
               /\ TotalIn(h, u) = TotalIn(h, t)
<1> DEFINE u == Append(t, 0)
<1>1. /\ Len(t) \in Nat /\ Len(u) = Len(t) + 1 /\ u \in Tails
      /\ \A s \in 1..Len(t) : u[s] = t[s]
      /\ u[Len(u)] = 0
      /\ Cardinality(TornIn(u)) = Cardinality(TornIn(t))
  BY TornOpened, TailsTyped
<1> HIDE DEF u
<1>2. 1..Len(u) = (1..Len(t)) \union {Len(u)} /\ Len(u) \notin 1..Len(t)
  BY <1>1
<1>3. \A s \in 1..Len(t) : SizeIn(h, u, s) = SizeIn(h, t, s)
  BY <1>1 DEF SizeIn
<1>4. SizeIn(h, u, Len(u)) = 0
  <2>1. Cardinality(FramesIn(h, Len(u))) = 0
    BY <1>2, NoFrames DEF Placed
  <2> QED BY <1>1, <2>1 DEF SizeIn
<1>5. TotalIn(h, u) = TotalIn(h, t)
  BY <1>1 DEF TotalIn
<1>6. Placed(h, u)
  BY <1>2 DEF Placed
<1>7. ~AckedIn(a, Len(u))
  BY <1>2 DEF AckedIn, Explained
<1>8. \A x \in a :
          /\ x.seg \in 1..Len(u)
          /\ u[x.seg] # 0
          /\ x.bytes = SizeIn(h, u, x.seg)
          /\ \A y \in a : y.seg = x.seg => y = x
  BY <1>1, <1>2, <1>3 DEF Explained
<1>9. ASSUME NEW s \in 1..Len(u), u[s] # 0, s # Len(u)
      PROVE  AckedIn(a, s)
  <2>1. s \in 1..Len(t) /\ t[s] # 0
    BY <1>1, <1>2, <1>9
  <2> QED BY <1>1, <2>1 DEF Explained
<1>10. Explained(h, u, a)
  BY <1>8, <1>9 DEF Explained
<1> QED
  BY <1>3, <1>4, <1>5, <1>6, <1>7, <1>10 DEF u

LEMMA UnitWritten ==
    ASSUME NEW h \in Seq(Entry), NEW t \in Tails, NEW a, Explained(h, t, a),
           Len(t) # 0, ~AckedIn(a, Len(t)), NEW k \in 0..(FrameLen - 1)
    PROVE  LET u == [t EXCEPT ![Len(t)] = k]
           IN  /\ Explained(h, u, a)
               /\ \A s \in 1..Len(t) : s # Len(t) =>
                     SizeIn(h, u, s) = SizeIn(h, t, s)
               /\ SizeIn(h, u, Len(t)) = SizeIn(h, t, Len(t)) - t[Len(t)] + k
               /\ TotalIn(h, u) = TotalIn(h, t) - t[Len(t)] + k
<1> DEFINE u == [t EXCEPT ![Len(t)] = k]
<1>1. Len(t) \in 1..Len(t)
  BY TailsTyped
<1>2. /\ u \in Tails /\ Len(u) = Len(t) /\ u[Len(t)] = k
      /\ \A s \in 1..Len(t) : s # Len(t) => u[s] = t[s]
      /\ Cardinality(TornIn(u)) = Cardinality(TornIn(t)) - t[Len(t)] + k
  BY <1>1, TornReplaced
<1> HIDE DEF u
<1>3. \A s \in 1..Len(t) : s # Len(t) => SizeIn(h, u, s) = SizeIn(h, t, s)
  BY <1>2 DEF SizeIn
<1>4. t[Len(t)] \in Nat
  BY <1>1, TailsTyped
<1>5. SizeIn(h, u, Len(t)) = SizeIn(h, t, Len(t)) - t[Len(t)] + k
  <2>1. FrameLen * Cardinality(FramesIn(h, Len(t))) \in Nat
    BY FramesCounted, Frames
  <2> QED BY <1>2, <1>4, <2>1 DEF SizeIn
<1>6. TotalIn(h, u) = TotalIn(h, t) - t[Len(t)] + k
  <2>1. FrameLen * Len(h) \in Nat /\ Cardinality(TornIn(t)) \in Nat
    BY Counts, TornCounted
  <2> QED BY <1>2, <1>4, <2>1 DEF TotalIn
<1>7. Explained(h, u, a)
  BY <1>2, <1>3, LastChanged
<1> QED
  BY <1>3, <1>5, <1>6, <1>7 DEF u

LEMMA FrameCompleted ==
    ASSUME NEW h \in Seq(Entry), NEW t \in Tails, NEW a, Explained(h, t, a),
           Len(t) # 0, ~AckedIn(a, Len(t)), Placed(h, t),
           NEW e \in Entry, e.seg = Len(t)
    PROVE  LET g == Append(h, e)
               u == [t EXCEPT ![Len(t)] = 0]
           IN  /\ Explained(g, u, a)
               /\ Placed(g, u)
               /\ \A s \in 1..Len(t) : s # Len(t) =>
                     SizeIn(g, u, s) = SizeIn(h, t, s)
               /\ SizeIn(g, u, Len(t)) =
                     SizeIn(h, t, Len(t)) - t[Len(t)] + FrameLen
               /\ TotalIn(g, u) = TotalIn(h, t) - t[Len(t)] + FrameLen
<1> DEFINE g == Append(h, e)
           u == [t EXCEPT ![Len(t)] = 0]
<1>1. Len(t) \in 1..Len(t)
  BY TailsTyped
<1>2. /\ u \in Tails /\ Len(u) = Len(t) /\ u[Len(t)] = 0
      /\ \A s \in 1..Len(t) : s # Len(t) => u[s] = t[s]
      /\ Cardinality(TornIn(u)) = Cardinality(TornIn(t)) - t[Len(t)] + 0
  BY <1>1, TornReplaced
<1>3. \A s : Cardinality(FramesIn(g, s)) =
                Cardinality(FramesIn(h, s)) + (IF e.seg = s THEN 1 ELSE 0)
  BY FramesGrow
<1>4. /\ Len(h) \in Nat /\ Len(g) = Len(h) + 1
      /\ \A i \in 1..Len(h) : g[i] = h[i]
      /\ g[Len(h) + 1] = e
      /\ 1..Len(g) = (1..Len(h)) \union {Len(h) + 1}
  OBVIOUS
<1> HIDE DEF g, u
<1>5. \A s : Cardinality(FramesIn(h, s)) \in Nat
  BY FramesCounted
<1>6. t[Len(t)] \in Nat
  BY <1>1, TailsTyped
<1>7. \A s \in 1..Len(t) : s # Len(t) => SizeIn(g, u, s) = SizeIn(h, t, s)
  BY <1>2, <1>3, <1>5 DEF SizeIn
<1>8. SizeIn(g, u, Len(t)) = SizeIn(h, t, Len(t)) - t[Len(t)] + FrameLen
  <2>1. PICK c \in Nat : c = Cardinality(FramesIn(h, Len(t)))
    BY <1>5
  <2>2. Cardinality(FramesIn(g, Len(t))) = c + 1
    BY <1>3, <2>1
  <2>3. FrameLen * (c + 1) = FrameLen * c + FrameLen /\ FrameLen * c \in Nat
    BY <2>1, Frames
  <2> QED BY <1>2, <1>6, <2>1, <2>2, <2>3 DEF SizeIn
<1>9. TotalIn(g, u) = TotalIn(h, t) - t[Len(t)] + FrameLen
  <2>1. /\ FrameLen * Len(h) \in Nat /\ Cardinality(TornIn(t)) \in Nat
        /\ FrameLen * Len(g) = FrameLen * Len(h) + FrameLen
    BY <1>4, Frames, TornCounted
  <2> QED BY <1>2, <1>6, <2>1 DEF TotalIn
<1>10. Explained(g, u, a)
  BY <1>2, <1>7, LastChanged
<1>11. Placed(g, u)
  BY <1>1, <1>2, <1>4 DEF Placed
<1> QED
  BY <1>7, <1>8, <1>9, <1>10, <1>11 DEF g, u

-----------------------------------------------------------------------------
(* The records of the frames.                                              *)

LEMMA RecordsTyped ==
    ASSUME NEW h \in Seq(Entry)
    PROVE  /\ RecordsIn(h) \in Seq(Record)
           /\ Len(RecordsIn(h)) = Len(h)
           /\ \A i \in 1..Len(h) : RecordsIn(h)[i] = h[i].rec
<1>1. Len(h) \in Nat
  OBVIOUS
<1>2. \A i \in 1..Len(h) : h[i] \in Entry
  OBVIOUS
<1>3. \A i \in 1..Len(h) : h[i].rec \in Record
  BY <1>2 DEF Entry
<1> QED
  BY <1>1, <1>3 DEF RecordsIn

LEMMA RecordsGrow ==
    ASSUME NEW h \in Seq(Entry), NEW e \in Entry
    PROVE  RecordsIn(Append(h, e)) = Append(RecordsIn(h), e.rec)
<1>1. /\ Len(h) \in Nat /\ Len(Append(h, e)) = Len(h) + 1
      /\ \A i \in 1..Len(h) : Append(h, e)[i] = h[i]
      /\ Append(h, e)[Len(h) + 1] = e
  OBVIOUS
<1>2. e.rec \in Record
  BY DEF Entry
<1>3. PICK r \in Seq(Record) : r = RecordsIn(h)
  BY RecordsTyped
<1>4. Len(r) = Len(h) /\ \A i \in 1..Len(h) : r[i] = h[i].rec
  BY <1>3, RecordsTyped
<1>5. Append(r, e.rec) = [i \in 1..(Len(h) + 1) |-> Append(h, e)[i].rec]
  BY <1>1, <1>2, <1>4
<1> QED
  BY <1>1, <1>3, <1>5 DEF RecordsIn

\* A history stays replayable when the reducer accepts the next record, and
\* every beginning of a replayable history is one.
LEMMA ReplayableGrows ==
    ASSUME NEW h \in Seq(Record), NEW r \in Record, Replayable(h), Accepts(h, r)
    PROVE  Replayable(Append(h, r))
<1>1. /\ Len(h) \in Nat /\ Len(Append(h, r)) = Len(h) + 1
      /\ \A i \in 1..Len(h) : Append(h, r)[i] = h[i]
      /\ Append(h, r)[Len(h) + 1] = r
  OBVIOUS
<1>2. ASSUME NEW i \in 1..(Len(h) + 1)
      PROVE  SubSeq(Append(h, r), 1, i - 1) = SubSeq(h, 1, i - 1)
  BY <1>1
<1>3. SubSeq(h, 1, (Len(h) + 1) - 1) = h
  OBVIOUS
<1>4. ASSUME NEW i \in 1..Len(h)
      PROVE  Accepts(SubSeq(Append(h, r), 1, i - 1), Append(h, r)[i])
  <2>1. i \in 1..(Len(h) + 1)
    BY <1>1
  <2> QED BY <1>1, <1>2, <2>1 DEF Replayable
<1>5. Accepts(SubSeq(Append(h, r), 1, (Len(h) + 1) - 1), Append(h, r)[Len(h) + 1])
  <2>1. Len(h) + 1 \in 1..(Len(h) + 1)
    BY <1>1
  <2> QED BY <1>1, <1>2, <1>3, <2>1
<1>6. 1..(Len(h) + 1) = (1..Len(h)) \union {Len(h) + 1}
  BY <1>1
<1> QED
  BY <1>1, <1>4, <1>5, <1>6 DEF Replayable

-----------------------------------------------------------------------------
(* What a power loss picks.                                                *)

Rank(I, i) == Cardinality({ j \in I : j <= i })

LEMMA Ranked ==
    ASSUME NEW n \in Nat, NEW I \in SUBSET (1..n)
    PROVE  /\ IsFiniteSet(I) /\ Cardinality(I) \in Nat
           /\ \A i \in I : Rank(I, i) \in 1..Cardinality(I)
           /\ \A i, j \in I : i < j => Rank(I, i) < Rank(I, j)
           /\ \A k \in 1..Cardinality(I) : \E i \in I : Rank(I, i) = k
<1>1. 1..n \subseteq Nat
  OBVIOUS
<1>2. IsFiniteSet(I) /\ Cardinality(I) \in Nat
  <2>1. IsFiniteSet(1..n)
    BY Interval
  <2> QED BY <2>1, FS_Subset, FS_CardinalityType
<1>3. ASSUME NEW i \in I
      PROVE  /\ IsFiniteSet({ j \in I : j <= i })
             /\ Rank(I, i) \in 1..Cardinality(I)
  <2> DEFINE S == { j \in I : j <= i }
  <2>1. S \in SUBSET I /\ i \in S
    BY <1>1
  <2> HIDE DEF S
  <2>2. IsFiniteSet(S) /\ Cardinality(S) \in Nat /\ Cardinality(S) <= Cardinality(I)
    BY <1>2, <2>1, FS_Subset, FS_CardinalityType
  <2>3. Cardinality(S) # 0
    BY <2>1, <2>2, FS_EmptySet
  <2> QED BY <1>2, <2>2, <2>3 DEF S, Rank
<1>4. ASSUME NEW i \in I, NEW j \in I, i < j
      PROVE  Rank(I, i) < Rank(I, j)
  <2> DEFINE S == { k \in I : k <= i }
             T == { k \in I : k <= j }
  <2>1. i \in Nat /\ j \in Nat
    BY <1>1
  <2>2. \A k \in I : k \in Nat
    BY <1>1
  <2>3. S \in SUBSET T /\ j \in T /\ j \notin S
    <3>1. \A k \in I : k <= i => k <= j
      BY <1>4, <2>1, <2>2
    <3>2. ~(j <= i) /\ j <= j
      BY <1>4, <2>1
    <3> QED BY <3>1, <3>2
  <2>4. /\ IsFiniteSet(S) /\ IsFiniteSet(T)
        /\ Cardinality(S) \in Nat /\ Cardinality(T) \in Nat
    BY <1>3, FS_CardinalityType
  <2> HIDE DEF S, T
  <2>5. Cardinality(S) <= Cardinality(T) /\ Cardinality(S) # Cardinality(T)
    BY <2>3, <2>4, FS_Subset
  <2> QED BY <2>4, <2>5 DEF S, T, Rank
<1>5. \A k \in 1..Cardinality(I) : \E i \in I : Rank(I, i) = k
  <2> DEFINE f == [i \in I |-> Rank(I, i)]
  <2>1. f \in [I -> 1..Cardinality(I)]
    BY <1>3
  <2>2. ASSUME NEW i \in I, NEW j \in I, f[i] = f[j]
        PROVE  i = j
    <3>1. i \in Nat /\ j \in Nat /\ Rank(I, i) = Rank(I, j)
      BY <1>1, <2>2
    <3>2. Rank(I, i) \in Nat /\ Rank(I, j) \in Nat
      <4>1. 1..Cardinality(I) \subseteq Nat
        BY <1>2
      <4> QED BY <1>3, <4>1
    <3>3. ~(i < j) /\ ~(j < i)
      BY <1>4, <3>1, <3>2
    <3> QED BY <3>1, <3>3
  <2>3. f \in Injection(I, 1..Cardinality(I))
    <3> HIDE DEF f
    <3> QED BY <2>1, <2>2, Fun_IsInj
  <2>4. /\ IsFiniteSet(1..Cardinality(I))
        /\ Cardinality(1..Cardinality(I)) = Cardinality(I)
    BY <1>2, Interval
  <2>5. f \in Surjection(I, 1..Cardinality(I))
    <3> HIDE DEF f
    <3> QED BY <2>3, <2>4, FS_Injection
  <2>6. \A k \in 1..Cardinality(I) : \E i \in I : f[i] = k
    <3> HIDE DEF f
    <3> QED BY <2>5 DEF Surjection
  <2> QED BY <2>6
<1> QED
  BY <1>2, <1>3, <1>4, <1>5

\* Whatever is picked was there.
LEMMA PickedMembers ==
    ASSUME NEW S, NEW h \in Seq(S), NEW I \in SUBSET (1..Len(h))
    PROVE  /\ Picked(h, I) \in Seq(S)
           /\ \A k \in 1..Len(Picked(h, I)) : \E i \in I : Picked(h, I)[k] = h[i]
<1>1. Len(h) \in Nat
  OBVIOUS
<1>2. PICK n \in Nat : n = Cardinality(I)
  BY <1>1, Ranked
<1>3. PICK at \in [1..n -> I] :
          \A k \in 1..n :
             at[k] = CHOOSE i \in I : Cardinality({ j \in I : j <= i }) = k
  <2> DEFINE choice == [k \in 1..n |->
                CHOOSE i \in I : Cardinality({ j \in I : j <= i }) = k]
  <2>1. \A k \in 1..n : \E i \in I : Cardinality({ j \in I : j <= i }) = k
    BY <1>1, <1>2, Ranked DEF Rank
  <2>2. choice \in [1..n -> I]
    BY <2>1
  <2> QED BY <2>2
<1>4. Picked(h, I) = [k \in 1..n |-> h[at[k]]]
  <2>1. Picked(h, I) =
           [k \in 1..n |->
              h[CHOOSE i \in I : Cardinality({ j \in I : j <= i }) = k]]
    BY <1>2 DEF Picked
  <2>2. \A k \in 1..n :
           h[CHOOSE i \in I : Cardinality({ j \in I : j <= i }) = k] = h[at[k]]
    BY <1>3
  <2> QED BY <2>1, <2>2, Zenon
<1>5. \A i \in I : h[i] \in S
  OBVIOUS
<1>6. PICK g : g = [k \in 1..n |-> h[at[k]]]
  OBVIOUS
<1>7. \A k \in 1..n : at[k] \in I /\ g[k] = h[at[k]] /\ g[k] \in S
  BY <1>3, <1>5, <1>6
<1>8. g \in Seq(S) /\ Len(g) = n
  BY <1>2, <1>6, <1>7
<1> QED
  BY <1>4, <1>6, <1>7, <1>8

\* A beginning is picked as it is.
LEMMA PickedFront ==
    ASSUME NEW S, NEW h \in Seq(S), NEW m \in 0..Len(h)
    PROVE  Picked(h, 1..m) = [k \in 1..m |-> h[k]]
<1>1. m \in Nat /\ Len(h) \in Nat /\ 1..m \in SUBSET (1..m)
  OBVIOUS
<1>2. Cardinality(1..m) = m
  BY <1>1, Interval
<1>3. ASSUME NEW i \in 1..m
      PROVE  Cardinality({ j \in 1..m : j <= i }) = i
  <2>1. i \in Nat /\ 1 <= i
    BY <1>1
  <2>2. { j \in 1..m : j <= i } = 1..i
    BY <1>1
  <2>3. Cardinality(1..i) = i
    BY <2>1, Interval
  <2> QED BY <2>2, <2>3
<1>4. ASSUME NEW k \in 1..m
      PROVE  (CHOOSE i \in 1..m : Cardinality({ j \in 1..m : j <= i }) = k) = k
  BY <1>3
<1>5. Picked(h, 1..m) =
         [k \in 1..m |-> h[CHOOSE i \in 1..m :
                              Cardinality({ j \in 1..m : j <= i }) = k]]
  BY <1>2 DEF Picked
<1> QED
  BY <1>4, <1>5

-----------------------------------------------------------------------------
(* The process and the files.  This invariant holds whatever goes wrong: an*)
(* open, unpoisoned handle has loaded its files or written them itself.    *)

LoadedIn(h, t, a) ==
    [cur      |-> Len(t),
     bytes    |-> IF Len(t) = 0 THEN 0 ELSE SizeIn(h, t, Len(t)),
     torn     |-> Len(t) # 0 /\ t[Len(t)] # 0 /\ ~AckedIn(a, Len(t)),
     pending  |-> Len(t) # 0 /\ AckedIn(a, Len(t)),
     total    |-> TotalIn(h, t),
     poisoned |-> FALSE]

FilesLoad ==
    /\ ~garbled
    /\ Accepted(log)
    /\ Explained(log, tails, acks)
    /\ Capped(log, tails, acks)

Healthy == up /\ ~mem.poisoned

\* Bytes of the segment written to before this append.
Base == IF job.isNew THEN 0 ELSE mem.bytes

Between ==
    Healthy /\ pc = "idle" =>
        view = RecordsIn(log) /\ mem = LoadedIn(log, tails, acks)

Calling ==
    pc # "idle" =>
        /\ Healthy
        /\ job.rec \in Record /\ WellFormed(job.rec) /\ Accepts(view, job.rec)
        /\ job.isNew => job.seg = mem.cur + 1 /\ job.seg <= MaxSegments
        /\ ~job.isNew => job.seg = mem.cur /\ ~mem.torn /\ ~mem.pending
        /\ mem.total + FrameLen <= MaxLedgerBytes
        /\ Base + FrameLen <= MaxSegmentBytes

Before ==
    pc \in {"ack", "ackDir", "create"} =>
        /\ job.isNew /\ job.done = 0 /\ mem.cur = Len(tails)
        /\ view = RecordsIn(log) /\ mem.total = TotalIn(log, tails)
        /\ pc # "create" => Len(tails) # 0
        /\ pc = "ack" => /\ tails[Len(tails)] # 0
                         /\ ~AckedIn(acks, Len(tails))
                         /\ mem.bytes = SizeIn(log, tails, Len(tails))
        /\ pc # "ack" /\ Len(tails) # 0 /\ tails[Len(tails)] # 0 =>
               AckedIn(acks, Len(tails))

Writing ==
    pc = "write" =>
        /\ Len(tails) # 0 /\ job.seg = Len(tails)
        /\ tails[Len(tails)] = job.done
        /\ view = RecordsIn(log)
        /\ ~AckedIn(acks, Len(tails))
        /\ TotalIn(log, tails) = mem.total + job.done
        /\ SizeIn(log, tails, Len(tails)) = Base + job.done

Written ==
    pc \in {"fsync", "dir", "commit"} =>
        /\ Len(tails) # 0 /\ job.seg = Len(tails) /\ job.done = FrameLen
        /\ tails[Len(tails)] = 0
        /\ RecordsIn(log) = Append(view, job.rec)
        /\ ~AckedIn(acks, Len(tails))
        /\ TotalIn(log, tails) = mem.total + FrameLen
        /\ SizeIn(log, tails, Len(tails)) = Base + FrameLen
        /\ log[Len(log)].seg = Len(tails)
        /\ pc = "dir" => job.isNew

ProcessInv ==
    /\ TypeOK
    /\ Placed(log, tails)
    /\ Healthy => FilesLoad
    /\ Between /\ Calling /\ Before /\ Writing /\ Written

LEMMA Queries ==
    /\ Records = RecordsIn(log)
    /\ TotalBytes = TotalIn(log, tails)
    /\ \A s : Size(s) = SizeIn(log, tails, s)
    /\ Loaded = LoadedIn(log, tails, acks)
    /\ Loadable <=> FilesLoad
<1>1. Records = RecordsIn(log)
  BY DEF Records, RecordsIn
<1>2. TotalBytes = TotalIn(log, tails)
  BY DEF TotalBytes, TotalIn, TornUnits, TornIn, Segments
<1>3. \A s : Size(s) = SizeIn(log, tails, s)
  BY DEF Size, SizeIn, FramesOf, FramesIn
<1>4. Loaded = LoadedIn(log, tails, acks)
  BY <1>2, <1>3 DEF Loaded, LoadedIn, Torn, Acked, AckedIn
<1>5. Loadable <=> FilesLoad
  <2>1. FramesAccepted <=> ~garbled /\ Accepted(log)
    BY <1>1 DEF FramesAccepted, Accepted
  <2>2. TornTailsExplained <=> Explained(log, tails, acks)
    BY <1>3 DEF TornTailsExplained, Explained, Segments, Torn, Final, Acked, AckedIn
  <2>3. WithinCaps <=> Capped(log, tails, acks)
    BY <1>2, <1>3 DEF WithinCaps, Capped, Segments
  <2> QED BY <2>1, <2>2, <2>3 DEF Loadable, FilesLoad
<1> QED
  BY <1>1, <1>2, <1>3, <1>4, <1>5

LEMMA LoadedTyped ==
    ASSUME NEW h \in Seq(Entry), NEW t \in Tails, NEW a
    PROVE  LoadedIn(h, t, a) \in
              [cur : Nat, bytes : Nat, torn : BOOLEAN, pending : BOOLEAN,
               total : Nat, poisoned : BOOLEAN]
<1>1. Len(t) \in Nat /\ TotalIn(h, t) \in Nat
  BY Counts, TailsTyped
<1>2. (IF Len(t) = 0 THEN 0 ELSE SizeIn(h, t, Len(t))) \in Nat
  <2>1. CASE Len(t) = 0
    BY <2>1
  <2>2. CASE Len(t) # 0
    <3>1. Len(t) \in 1..Len(t)
      BY <1>1, <2>2
    <3> QED BY <2>2, <3>1, Counts
  <2> QED BY <2>1, <2>2
<1>3. /\ (Len(t) # 0 /\ t[Len(t)] # 0 /\ ~AckedIn(a, Len(t))) \in BOOLEAN
      /\ (Len(t) # 0 /\ AckedIn(a, Len(t))) \in BOOLEAN
  OBVIOUS
<1> QED
  BY <1>1, <1>2, <1>3 DEF LoadedIn

Mem == [cur : Nat, bytes : Nat, torn : BOOLEAN, pending : BOOLEAN,
        total : Nat, poisoned : BOOLEAN]
Job == [rec : Record \union {<< >>}, seg : Nat, isNew : BOOLEAN,
        done : 0..FrameLen]

LEMMA MemTyped == Closed \in Mem
  BY DEF Closed, Mem

LEMMA JobTyped == NoJob \in Job
<1>1. 0 \in 0..FrameLen
  OBVIOUS
<1> QED
  BY <1>1 DEF NoJob, Job

\* The types of the files and of the process under the names used here.
LEMMA Typed ==
    ASSUME TypeOK
    PROVE  /\ log \in Seq(Entry) /\ tails \in Tails
           /\ Len(log) \in Nat /\ Len(tails) \in Nat
           /\ acks \subseteq Ack
           /\ view \in Seq(Record)
           /\ mem \in Mem /\ job \in Job
           /\ mem.cur \in Nat /\ mem.bytes \in Nat /\ mem.total \in Nat
           /\ job.seg \in Nat /\ job.done \in Nat
           /\ Base \in Nat
<1>1. /\ log \in Seq(Entry) /\ tails \in Tails /\ acks \subseteq Ack
      /\ view \in Seq(Record) /\ mem \in Mem /\ job \in Job
  BY DEF TypeOK, Tails, Mem, Job
<1>2. Len(log) \in Nat /\ Len(tails) \in Nat
  BY <1>1, TailsTyped
<1>3. /\ mem.cur \in Nat /\ mem.bytes \in Nat /\ mem.total \in Nat
      /\ job.seg \in Nat /\ job.done \in 0..FrameLen
  BY <1>1 DEF Mem, Job
<1> QED
  BY <1>1, <1>2, <1>3 DEF Base

LEMMA InitProcess == Init => ProcessInv
<1> SUFFICES ASSUME Init PROVE ProcessInv
  OBVIOUS
<1>1. TypeOK
  <2>1. /\ log \in Seq(Entry) /\ tails \in Seq(0..(FrameLen - 1))
        /\ synced \in Seq(Nat) /\ Len(synced) = Len(tails) /\ view \in Seq(Record)
    BY DEF Init
  <2> QED
    BY <2>1, MemTyped, JobTyped DEF Init, TypeOK, Pcs, Mem, Job
<1>2. Placed(log, tails)
  BY DEF Init, Placed
<1>3. ~Healthy /\ pc = "idle"
  BY DEF Init, Healthy
<1> QED
  BY <1>1, <1>2, <1>3
     DEF ProcessInv, Between, Calling, Before, Writing, Written

\* The handle is closed or poisoned after the step: only types and places.
LEMMA Unhealthy ==
    ASSUME TypeOK', Placed(log, tails)', ~Healthy', pc' = "idle"
    PROVE  ProcessInv'
  BY DEF ProcessInv, Between, Calling, Before, Writing, Written

\* Nothing the invariant speaks of changes.
LEMMA ProcessStays ==
    ASSUME ProcessInv, UNCHANGED <<files, process>>, TypeOK'
    PROVE  ProcessInv'
<1>1. /\ log' = log /\ tails' = tails /\ garbled' = garbled /\ acks' = acks
      /\ up' = up /\ view' = view /\ mem' = mem /\ pc' = pc /\ job' = job
  BY DEF files, process
<1>2. (Healthy <=> Healthy') /\ Base' = Base /\ (FilesLoad <=> FilesLoad')
  BY <1>1 DEF Healthy, Base, FilesLoad
<1>3. Placed(log, tails)' /\ Between' /\ Calling'
  BY <1>1, <1>2 DEF ProcessInv, Between, Calling
<1>4. Before' /\ Writing' /\ Written'
  BY <1>1, <1>2 DEF ProcessInv, Before, Writing, Written
<1> QED
  BY <1>2, <1>3, <1>4 DEF ProcessInv

LEMMA OpenProcess ==
    ASSUME ProcessInv, Open
    PROVE  ProcessInv'
<1>1. TypeOK /\ pc = "idle"
  BY DEF ProcessInv, Calling, Healthy, Open
<1>2. /\ log \in Seq(Entry) /\ tails \in Tails
      /\ log' = log /\ tails' = tails /\ acks' = acks /\ garbled' = garbled
      /\ view' = RecordsIn(log) /\ mem' = LoadedIn(log, tails, acks)
      /\ FilesLoad /\ pc' = "idle" /\ up' = TRUE
  BY <1>1, Typed, Queries DEF Open, files
<1>3. TypeOK'
  <2>1. view' \in Seq(Record) /\ mem' \in Mem
    BY <1>2, RecordsTyped, LoadedTyped DEF Mem
  <2> QED
    BY <1>1, <1>2, <2>1 DEF TypeOK, Mem, Open, files, durable
<1>4. FilesLoad'
  BY <1>2 DEF FilesLoad
<1>5. Between'
  BY <1>2 DEF Between
<1>6. Placed(log, tails)'
  BY <1>2 DEF ProcessInv, Placed
<1> QED
  BY <1>2, <1>3, <1>4, <1>5, <1>6
     DEF ProcessInv, Calling, Before, Writing, Written

LEMMA AppendStartProcess ==
    ASSUME ProcessInv, NEW r \in Record, AppendStart(r)
    PROVE  ProcessInv'
<1> DEFINE last == Len(tails)
<1>1. TypeOK /\ Healthy /\ pc = "idle"
  BY DEF ProcessInv, AppendStart, Healthy
<1>2. /\ log \in Seq(Entry) /\ tails \in Tails /\ last \in Nat
      /\ view \in Seq(Record) /\ mem \in Mem
      /\ mem.cur \in Nat /\ mem.bytes \in Nat /\ mem.total \in Nat
  BY <1>1, Typed
<1>3. /\ log' = log /\ tails' = tails /\ garbled' = garbled /\ acks' = acks
      /\ up' = up /\ view' = view /\ mem' = mem
      /\ pc' = FirstCall
  BY DEF AppendStart, files
<1>4. /\ job' = [rec |-> r, seg |-> IF NeedsSegment THEN mem.cur + 1 ELSE mem.cur,
                 isNew |-> NeedsSegment, done |-> 0]
      /\ WellFormed(r) /\ Accepts(view, r)
      /\ NeedsSegment => mem.cur + 1 <= MaxSegments
      /\ mem.total + FrameLen <= MaxLedgerBytes
  BY DEF AppendStart
<1>5. /\ job'.rec = r /\ job'.done = 0
      /\ job'.seg = IF NeedsSegment THEN mem.cur + 1 ELSE mem.cur
      /\ job'.isNew <=> NeedsSegment
  BY <1>4
<1>6. FilesLoad /\ view = RecordsIn(log) /\ mem = LoadedIn(log, tails, acks)
  BY <1>1 DEF ProcessInv, Between
<1>7. /\ mem.cur = last
      /\ mem.bytes = IF last = 0 THEN 0 ELSE SizeIn(log, tails, last)
      /\ mem.torn <=> (last # 0 /\ tails[last] # 0 /\ ~AckedIn(acks, last))
      /\ mem.pending <=> (last # 0 /\ AckedIn(acks, last))
      /\ mem.total = TotalIn(log, tails)
  BY <1>6 DEF LoadedIn
<1>8. TypeOK'
  <2>1. job' \in Job
    <3>1. NeedsSegment \in BOOLEAN /\ 0 \in 0..FrameLen
      BY DEF NeedsSegment
    <3>2. (IF NeedsSegment THEN mem.cur + 1 ELSE mem.cur) \in Nat
      BY <1>2
    <3> HIDE DEF NeedsSegment
    <3> QED BY <1>4, <3>1, <3>2 DEF Job
  <2>2. pc' \in Pcs
    BY <1>3 DEF FirstCall, Pcs
  <2> QED
    BY <1>1, <2>1, <2>2 DEF TypeOK, Job, AppendStart, files, durable
<1>9. Placed(log, tails)' /\ Healthy' /\ FilesLoad'
  BY <1>1, <1>3, <1>6 DEF ProcessInv, Placed, Healthy, FilesLoad
<1>10. /\ pc' = "ack" => NeedsSegment /\ mem.torn
       /\ pc' = "create" => NeedsSegment /\ ~mem.torn
       /\ pc' = "write" => ~NeedsSegment
       /\ pc' \in {"ack", "create", "write"}
  BY <1>3 DEF FirstCall, NeedsSegment
<1>11. ~NeedsSegment =>
          /\ last # 0 /\ ~mem.torn /\ ~mem.pending
          /\ mem.bytes + FrameLen <= MaxSegmentBytes
  <2>1. ~NeedsSegment => ~(mem.bytes + FrameLen > MaxSegmentBytes)
    BY DEF NeedsSegment
  <2> QED BY <1>2, <1>7, <2>1, CapsAssumption DEF NeedsSegment
<1>12. Between'
  BY <1>10 DEF Between
<1>13. Base' = IF NeedsSegment THEN 0 ELSE mem.bytes
  BY <1>3, <1>5 DEF Base
<1>14. Calling'
  <2>1. Base' + FrameLen <= MaxSegmentBytes
    BY <1>11, <1>13, CapsAssumption
  <2>2. /\ job'.rec \in Record /\ WellFormed(job'.rec) /\ Accepts(view', job'.rec)
        /\ mem'.total + FrameLen <= MaxLedgerBytes
    BY <1>3, <1>4, <1>5
  <2>3. job'.isNew => job'.seg = mem'.cur + 1 /\ job'.seg <= MaxSegments
    BY <1>3, <1>4, <1>5
  <2>4. ~job'.isNew => job'.seg = mem'.cur /\ ~mem'.torn /\ ~mem'.pending
    BY <1>3, <1>5, <1>11
  <2> QED BY <1>9, <2>1, <2>2, <2>3, <2>4 DEF Calling
<1>15. Before'
  <2>1. pc' = "ack" =>
           /\ last # 0 /\ tails[last] # 0 /\ ~AckedIn(acks, last)
           /\ mem.bytes = SizeIn(log, tails, last)
    BY <1>7, <1>10
  <2>2. pc' = "create" /\ last # 0 /\ tails[last] # 0 => AckedIn(acks, last)
    BY <1>7, <1>10
  <2>3. pc' \in {"ack", "ackDir", "create"} => pc' # "ackDir" /\ job'.isNew
    BY <1>5, <1>10
  <2> QED BY <1>3, <1>5, <1>6, <1>7, <2>1, <2>2, <2>3 DEF Before
<1>16. Writing'
  <2> SUFFICES ASSUME pc' = "write"
               PROVE  /\ last # 0 /\ job'.seg = last
                      /\ tails[last] = 0
                      /\ ~AckedIn(acks, last)
                      /\ TotalIn(log, tails) = mem.total
                      /\ SizeIn(log, tails, last) = mem.bytes
                      /\ Base' = mem.bytes
    BY <1>2, <1>3, <1>5, <1>6 DEF Writing
  <2>1. ~NeedsSegment
    BY <1>10
  <2>2. last # 0 /\ ~mem.torn /\ ~mem.pending
    BY <1>11, <2>1
  <2>3. ~AckedIn(acks, last) /\ tails[last] = 0
    BY <1>7, <2>2
  <2> QED BY <1>5, <1>7, <1>13, <2>1, <2>2, <2>3
<1>17. Written'
  BY <1>10 DEF Written
<1> QED
  BY <1>8, <1>9, <1>12, <1>14, <1>15, <1>16, <1>17 DEF ProcessInv

LEMMA CreateAckProcess ==
    ASSUME ProcessInv, CreateAck
    PROVE  ProcessInv'
<1> DEFINE last == Len(tails)
           x == [seg |-> mem.cur, bytes |-> mem.bytes]
<1>1. TypeOK /\ pc = "ack" /\ pc' = "ackDir"
  BY DEF ProcessInv, CreateAck
<1>2. /\ log \in Seq(Entry) /\ tails \in Tails /\ last \in Nat
      /\ mem.cur \in Nat /\ mem.bytes \in Nat
  BY <1>1, Typed
<1>3. /\ log' = log /\ tails' = tails /\ garbled' = garbled
      /\ up' = up /\ view' = view /\ mem' = mem /\ job' = job
      /\ acks' = acks \union {x}
  BY DEF CreateAck
<1>4. /\ last # 0 /\ tails[last] # 0 /\ ~AckedIn(acks, last)
      /\ mem.cur = last /\ mem.bytes = SizeIn(log, tails, last)
  BY <1>1 DEF ProcessInv, Before
<1>5. x \in Ack /\ x.seg = last /\ x.bytes = SizeIn(log, tails, last)
  BY <1>2, <1>4 DEF Ack
<1> HIDE DEF x
<1>6. Healthy /\ FilesLoad
  BY <1>1 DEF ProcessInv, Calling
<1>7. Explained(log, tails, acks')
  BY <1>2, <1>3, <1>4, <1>5, <1>6, AckCreated DEF FilesLoad
<1>8. Capped(log, tails, acks')
  <2>1. Cardinality(acks') <= last /\ IsFiniteSet(acks')
    BY <1>2, <1>7, AcksCounted
  <2>2. Cardinality(acks') \in Nat
    BY <2>1, FS_CardinalityType
  <2> QED BY <1>2, <1>6, <2>1, <2>2, CapsAssumption DEF FilesLoad, Capped
<1>9. FilesLoad' /\ Healthy' /\ Placed(log, tails)'
  BY <1>3, <1>6, <1>7, <1>8 DEF FilesLoad, Healthy, ProcessInv, Placed
<1>10. TypeOK'
  BY <1>1, <1>3, <1>5 DEF TypeOK, CreateAck, durable, Pcs
<1>11. Calling'
  BY <1>1, <1>3, <1>9 DEF ProcessInv, Calling, Base
<1>12. AckedIn(acks', last)
  BY <1>3, <1>5 DEF AckedIn
<1>13. Before'
  BY <1>1, <1>3, <1>4, <1>12 DEF ProcessInv, Before
<1> QED
  BY <1>1, <1>9, <1>10, <1>11, <1>13 DEF ProcessInv, Between, Writing, Written

LEMMA SyncAckDirProcess ==
    ASSUME ProcessInv, SyncAckDir
    PROVE  ProcessInv'
<1>1. TypeOK /\ pc = "ackDir" /\ pc' = "create"
  BY DEF ProcessInv, SyncAckDir
<1>2. /\ log' = log /\ tails' = tails /\ garbled' = garbled /\ acks' = acks
      /\ up' = up /\ view' = view /\ mem' = mem /\ job' = job
  BY DEF SyncAckDir, files
<1>3. TypeOK'
  <2>1. Len(tails) \in Nat
    BY <1>1, Typed
  <2> QED
    BY <1>1, <1>2, <2>1 DEF TypeOK, SyncAckDir, SyncNames, Pcs
<1>4. Healthy /\ FilesLoad
  BY <1>1 DEF ProcessInv, Calling
<1>5. FilesLoad' /\ Healthy' /\ Placed(log, tails)'
  BY <1>2, <1>4 DEF FilesLoad, Healthy, ProcessInv, Placed
<1>6. Calling'
  BY <1>1, <1>2, <1>5 DEF ProcessInv, Calling, Base
<1>7. Before'
  BY <1>1, <1>2 DEF ProcessInv, Before
<1> QED
  BY <1>1, <1>3, <1>5, <1>6, <1>7 DEF ProcessInv, Between, Writing, Written

LEMMA CreateSegmentProcess ==
    ASSUME ProcessInv, CreateSegment
    PROVE  ProcessInv'
<1> DEFINE last == Len(tails)
<1>1. TypeOK /\ pc = "create" /\ pc' = "write"
  BY DEF ProcessInv, CreateSegment
<1>2. /\ log \in Seq(Entry) /\ tails \in Tails /\ last \in Nat /\ mem.total \in Nat
  BY <1>1, Typed
<1>3. /\ log' = log /\ tails' = Append(tails, 0) /\ garbled' = garbled
      /\ up' = up /\ view' = view /\ mem' = mem /\ job' = job /\ acks' = acks
      /\ synced' = Append(synced, 0)
  BY DEF CreateSegment
<1>4. /\ last # 0 /\ tails[last] # 0 => AckedIn(acks, last)
      /\ mem.cur = last /\ job.isNew /\ job.done = 0
      /\ view = RecordsIn(log) /\ mem.total = TotalIn(log, tails)
  BY <1>1 DEF ProcessInv, Before
<1>5. Healthy /\ FilesLoad /\ Placed(log, tails)
  BY <1>1 DEF ProcessInv, Calling
<1>6. /\ tails' \in Tails /\ Len(tails') = last + 1
      /\ \A s \in 1..last : tails'[s] = tails[s]
      /\ tails'[last + 1] = 0
  BY <1>2, <1>3, TornOpened
<1>7. /\ Explained(log, tails', acks)
      /\ Placed(log, tails')
      /\ ~AckedIn(acks, last + 1)
      /\ \A s \in 1..last : SizeIn(log, tails', s) = SizeIn(log, tails, s)
      /\ SizeIn(log, tails', last + 1) = 0
      /\ TotalIn(log, tails') = TotalIn(log, tails)
  BY <1>2, <1>3, <1>4, <1>5, <1>6, SegmentOpened DEF FilesLoad
<1>8. job.seg = last + 1 /\ last + 1 <= MaxSegments
  BY <1>1, <1>4 DEF ProcessInv, Calling
<1>9. Capped(log, tails', acks)
  <2>1. 1..Len(tails') = (1..last) \union {last + 1}
    BY <1>2, <1>6
  <2>2. \A s \in 1..last : SizeIn(log, tails', s) <= MaxSegmentBytes
    BY <1>5, <1>7 DEF FilesLoad, Capped
  <2>3. SizeIn(log, tails', last + 1) <= MaxSegmentBytes
    BY <1>7, CapsAssumption
  <2>4. Cardinality(acks) <= MaxSegments /\ TotalIn(log, tails') <= MaxLedgerBytes
    BY <1>5, <1>7 DEF FilesLoad, Capped
  <2> QED
    BY <1>6, <1>8, <2>1, <2>2, <2>3, <2>4 DEF Capped
<1>10. FilesLoad' /\ Healthy' /\ Placed(log, tails)'
  BY <1>3, <1>5, <1>7, <1>9 DEF FilesLoad, Healthy
<1>11. TypeOK'
  <2>1. synced' \in Seq(Nat) /\ Len(synced') = last + 1
    BY <1>1, <1>3 DEF TypeOK
  <2> QED
    BY <1>1, <1>3, <1>6, <2>1 DEF TypeOK, Tails, CreateSegment, Pcs
<1>12. Calling'
  BY <1>1, <1>3, <1>10 DEF ProcessInv, Calling, Base
<1>13. Writing'
  <2>1. Base' = 0
    BY <1>3, <1>4 DEF Base
  <2>2. TotalIn(log, tails') = mem.total + job.done
    BY <1>2, <1>4, <1>7
  <2> QED
    BY <1>2, <1>3, <1>4, <1>6, <1>7, <1>8, <2>1, <2>2 DEF Writing
<1> QED
  BY <1>1, <1>10, <1>11, <1>12, <1>13 DEF ProcessInv, Between, Before, Written

\* What one round of the write loop does: the frame grows by a unit, or its
\* last unit completes it.
LEMMA UnitsGrow ==
    ASSUME ProcessInv, WriteUnit
    PROVE  LET last == Len(tails)
               e == [rec |-> job.rec, seq |-> Len(view) + 1, seg |-> last,
                     pos |-> Cardinality(FramesIn(log, last)) + 1]
           IN  /\ job' = [job EXCEPT !.done = @ + 1]
               /\ garbled' = garbled
               /\ \/ /\ job.done + 1 < FrameLen
                     /\ tails' = [tails EXCEPT ![last] = job.done + 1]
                     /\ log' = log
                     /\ pc' = "write"
                  \/ /\ job.done + 1 = FrameLen
                     /\ tails' = [tails EXCEPT ![last] = 0]
                     /\ log' = Append(log, e)
                     /\ e \in Entry
                     /\ pc' = "fsync"
<1> DEFINE last == Len(tails)
           e == [rec |-> job.rec, seq |-> Len(view) + 1, seg |-> last,
                 pos |-> Cardinality(FramesIn(log, last)) + 1]
<1>1. TypeOK /\ pc = "write"
  BY DEF ProcessInv, WriteUnit
<1>2. /\ log \in Seq(Entry) /\ tails \in Tails /\ last \in Nat
      /\ view \in Seq(Record) /\ job.done \in Nat
  BY <1>1, Typed
<1>3. last # 0 /\ job.seg = last /\ tails[last] = job.done
  BY <1>1 DEF ProcessInv, Writing
<1>4. job.done < FrameLen
  <2>1. last \in 1..last
    BY <1>2, <1>3
  <2> QED BY <1>2, <1>3, <2>1, TailsTyped
<1>5. FramesOf(last) = FramesIn(log, last)
  BY DEF FramesOf, FramesIn
<1>6. /\ job' = [job EXCEPT !.done = @ + 1]
      /\ garbled' = garbled
      /\ pc' = IF job.done + 1 = FrameLen THEN "fsync" ELSE "write"
  BY <1>3 DEF WriteUnit, FrameWritten
<1>7. CASE job.done + 1 < FrameLen
  <2>1. tails' = [tails EXCEPT ![last] = job.done + 1] /\ log' = log
    BY <1>3, <1>7 DEF WriteUnit
  <2> QED BY <1>2, <1>6, <1>7, <2>1
<1>8. CASE job.done + 1 = FrameLen
  <2>1. ~(job.done + 1 < FrameLen)
    BY <1>8
  <2>2. tails' = [tails EXCEPT ![last] = 0] /\ log' = Append(log, e)
    BY <1>3, <1>5, <2>1 DEF WriteUnit
  <2>3. e \in Entry
    <3>1. Cardinality(FramesIn(log, last)) \in Nat
      BY <1>2, FramesCounted
    <3>2. job.rec \in Record /\ Len(view) \in Nat
      BY <1>1, <1>2 DEF ProcessInv, Calling
    <3> QED BY <1>2, <1>3, <3>1, <3>2 DEF Entry
  <2> QED BY <1>6, <1>8, <2>2, <2>3
<1> QED
  BY <1>2, <1>4, <1>7, <1>8, SMTT(30)

LEMMA RecordAccepted ==
    ASSUME NEW h \in Seq(Entry), Accepted(h), NEW e \in Entry,
           e.seq = Len(h) + 1, WellFormed(e.rec), Accepts(RecordsIn(h), e.rec)
    PROVE  Accepted(Append(h, e))
<1>1. /\ Len(h) \in Nat /\ Len(Append(h, e)) = Len(h) + 1
      /\ \A i \in 1..Len(h) : Append(h, e)[i] = h[i]
      /\ Append(h, e)[Len(h) + 1] = e
      /\ 1..(Len(h) + 1) = (1..Len(h)) \union {Len(h) + 1}
  OBVIOUS
<1>2. e.rec \in Record
  BY DEF Entry
<1>3. Replayable(RecordsIn(Append(h, e)))
  BY <1>2, RecordsTyped, RecordsGrow, ReplayableGrows DEF Accepted
<1>4. \A i \in 1..(Len(h) + 1) :
          Append(h, e)[i].seq = i /\ WellFormed(Append(h, e)[i].rec)
  BY <1>1 DEF Accepted
<1> QED
  BY <1>1, <1>3, <1>4 DEF Accepted

LEMMA UnitProcess ==
    ASSUME ProcessInv, WriteUnit, job.done + 1 < FrameLen,
           tails' = [tails EXCEPT ![Len(tails)] = job.done + 1],
           log' = log, pc' = "write"
    PROVE  ProcessInv'
<1> DEFINE last == Len(tails)
           k == job.done + 1
<1>1. TypeOK /\ pc = "write"
  BY DEF ProcessInv, WriteUnit
<1>2. /\ log \in Seq(Entry) /\ tails \in Tails /\ last \in Nat
      /\ job \in Job /\ job.done \in Nat /\ job.seg \in Nat
      /\ mem.total \in Nat /\ Base \in Nat
  BY <1>1, Typed
<1>3. /\ garbled' = garbled /\ up' = up /\ view' = view /\ mem' = mem
      /\ acks' = acks /\ job' = [job EXCEPT !.done = @ + 1]
  BY UnitsGrow DEF WriteUnit
<1>4. /\ last # 0 /\ job.seg = last /\ tails[last] = job.done
      /\ view = RecordsIn(log)
      /\ ~AckedIn(acks, last)
      /\ TotalIn(log, tails) = mem.total + job.done
      /\ SizeIn(log, tails, last) = Base + job.done
  BY <1>1 DEF ProcessInv, Writing
<1>5. Healthy /\ FilesLoad /\ Placed(log, tails)
  BY <1>1 DEF ProcessInv, Calling
<1>6. k \in 0..(FrameLen - 1) /\ last \in 1..last
  BY <1>2, <1>4, SMTT(30)
<1>7. /\ job' \in Job /\ job'.done = k /\ job'.rec = job.rec /\ job'.seg = job.seg
      /\ job'.isNew = job.isNew
  <2>1. k \in 0..FrameLen
    BY <1>6
  <2> QED BY <1>2, <1>3, <2>1 DEF Job
<1>8. /\ tails' \in Tails /\ Len(tails') = last /\ tails'[last] = k
  BY <1>2, <1>6 DEF Tails
<1>9. /\ Explained(log, tails', acks)
      /\ \A s \in 1..last : s # last => SizeIn(log, tails', s) = SizeIn(log, tails, s)
      /\ SizeIn(log, tails', last) = SizeIn(log, tails, last) - tails[last] + k
      /\ TotalIn(log, tails') = TotalIn(log, tails) - tails[last] + k
  BY <1>2, <1>4, <1>5, <1>6, UnitWritten DEF FilesLoad
<1> HIDE DEF k
<1>10. k \in Nat /\ k < FrameLen
  BY <1>6
<1>11. /\ SizeIn(log, tails', last) = Base + k
       /\ TotalIn(log, tails') = mem.total + k
  BY <1>2, <1>4, <1>9, <1>10
<1>12. /\ Base + FrameLen <= MaxSegmentBytes
       /\ mem.total + FrameLen <= MaxLedgerBytes
  BY <1>1 DEF ProcessInv, Calling
<1>13. Capped(log, tails', acks)
  <2>1. ASSUME NEW s \in 1..last
        PROVE  SizeIn(log, tails', s) <= MaxSegmentBytes
    <3>1. CASE s = last
      BY <1>2, <1>10, <1>11, <1>12, <3>1, CapsAssumption
    <3>2. CASE s # last
      BY <1>5, <1>9, <3>2 DEF FilesLoad, Capped
    <3> QED BY <3>1, <3>2
  <2>2. TotalIn(log, tails') <= MaxLedgerBytes
    BY <1>2, <1>10, <1>11, <1>12, CapsAssumption
  <2> QED
    BY <1>5, <1>8, <2>1, <2>2 DEF FilesLoad, Capped
<1>14. FilesLoad' /\ Healthy' /\ Placed(log, tails)'
  BY <1>3, <1>5, <1>8, <1>9, <1>13 DEF FilesLoad, Healthy, Placed
<1>15. TypeOK'
  BY <1>1, <1>3, <1>7, <1>8 DEF TypeOK, Tails, Job, WriteUnit, durable
<1>16. Base' = Base
  BY <1>3, <1>7 DEF Base
<1>17. Calling'
  BY <1>1, <1>3, <1>7, <1>14, <1>16 DEF ProcessInv, Calling
<1>18. Writing'
  BY <1>3, <1>4, <1>7, <1>8, <1>9, <1>11, <1>16 DEF Writing
<1> QED
  BY <1>14, <1>15, <1>17, <1>18 DEF ProcessInv, Between, Before, Written

LEMMA FrameProcess ==
    ASSUME ProcessInv, WriteUnit, job.done + 1 = FrameLen, NEW e \in Entry,
           e = [rec |-> job.rec, seq |-> Len(view) + 1, seg |-> Len(tails),
                pos |-> Cardinality(FramesIn(log, Len(tails))) + 1],
           tails' = [tails EXCEPT ![Len(tails)] = 0],
           log' = Append(log, e), pc' = "fsync"
    PROVE  ProcessInv'
<1> DEFINE last == Len(tails)
<1>1. TypeOK /\ pc = "write"
  BY DEF ProcessInv, WriteUnit
<1>2. /\ log \in Seq(Entry) /\ tails \in Tails /\ last \in Nat
      /\ job \in Job /\ job.done \in Nat /\ job.seg \in Nat
      /\ mem.total \in Nat /\ Base \in Nat
  BY <1>1, Typed
<1>3. /\ garbled' = garbled /\ up' = up /\ view' = view /\ mem' = mem
      /\ acks' = acks /\ job' = [job EXCEPT !.done = @ + 1]
  BY UnitsGrow DEF WriteUnit
<1>4. /\ last # 0 /\ job.seg = last /\ tails[last] = job.done
      /\ view = RecordsIn(log)
      /\ ~AckedIn(acks, last)
      /\ TotalIn(log, tails) = mem.total + job.done
      /\ SizeIn(log, tails, last) = Base + job.done
  BY <1>1 DEF ProcessInv, Writing
<1>5. Healthy /\ FilesLoad /\ Placed(log, tails)
  BY <1>1 DEF ProcessInv, Calling
<1>6. 0 \in 0..(FrameLen - 1) /\ last \in 1..last
  BY <1>2, <1>4
<1>7. /\ job' \in Job /\ job'.done = FrameLen /\ job'.rec = job.rec
      /\ job'.seg = job.seg /\ job'.isNew = job.isNew
  <2>1. job.done + 1 \in 0..FrameLen
    BY <1>2
  <2> QED BY <1>2, <1>3, <2>1 DEF Job
<1>8. /\ tails' \in Tails /\ Len(tails') = last /\ tails'[last] = 0
  BY <1>2, <1>6 DEF Tails
<1>9. e.rec = job.rec /\ e.seq = Len(view) + 1 /\ e.seg = last
  OBVIOUS
<1>10. /\ Explained(log', tails', acks)
       /\ Placed(log', tails')
       /\ \A s \in 1..last : s # last => SizeIn(log', tails', s) = SizeIn(log, tails, s)
       /\ SizeIn(log', tails', last) = SizeIn(log, tails, last) - tails[last] + FrameLen
       /\ TotalIn(log', tails') = TotalIn(log, tails) - tails[last] + FrameLen
  BY <1>2, <1>4, <1>5, <1>9, FrameCompleted DEF FilesLoad
<1>11. /\ SizeIn(log', tails', last) = Base + FrameLen
       /\ TotalIn(log', tails') = mem.total + FrameLen
  BY <1>2, <1>4, <1>10
<1>12. /\ Base + FrameLen <= MaxSegmentBytes
       /\ mem.total + FrameLen <= MaxLedgerBytes
       /\ WellFormed(job.rec) /\ Accepts(view, job.rec)
  BY <1>1 DEF ProcessInv, Calling
<1>13. Capped(log', tails', acks)
  <2>1. ASSUME NEW s \in 1..last
        PROVE  SizeIn(log', tails', s) <= MaxSegmentBytes
    <3>1. CASE s = last
      BY <1>11, <1>12, <3>1
    <3>2. CASE s # last
      BY <1>5, <1>10, <3>2 DEF FilesLoad, Capped
    <3> QED BY <3>1, <3>2
  <2>2. TotalIn(log', tails') <= MaxLedgerBytes
    BY <1>11, <1>12
  <2> QED
    BY <1>5, <1>8, <2>1, <2>2 DEF FilesLoad, Capped
<1>14. Accepted(log')
  <2>1. Len(view) = Len(log)
    BY <1>2, <1>4, RecordsTyped
  <2> QED
    BY <1>2, <1>4, <1>5, <1>9, <1>12, <2>1, RecordAccepted DEF FilesLoad
<1>15. FilesLoad' /\ Healthy' /\ Placed(log, tails)'
  BY <1>3, <1>5, <1>10, <1>13, <1>14 DEF FilesLoad, Healthy
<1>16. log' \in Seq(Entry) /\ log'[Len(log')] = e
  BY <1>2
<1>17. TypeOK'
  BY <1>1, <1>3, <1>7, <1>8, <1>16 DEF TypeOK, Tails, Job, Pcs, WriteUnit, durable
<1>18. Base' = Base
  BY <1>3, <1>7 DEF Base
<1>19. Calling'
  BY <1>1, <1>3, <1>7, <1>15, <1>18 DEF ProcessInv, Calling
<1>20. RecordsIn(log') = Append(view', job'.rec)
  BY <1>2, <1>3, <1>4, <1>7, <1>9, RecordsGrow
<1>21. Written'
  BY <1>3, <1>4, <1>7, <1>8, <1>9, <1>11, <1>16, <1>18, <1>20 DEF Written
<1> QED
  BY <1>15, <1>17, <1>19, <1>21 DEF ProcessInv, Between, Before, Writing

LEMMA WriteUnitProcess ==
    ASSUME ProcessInv, WriteUnit
    PROVE  ProcessInv'
  BY UnitsGrow, UnitProcess, FrameProcess

LEMMA FsyncSegmentProcess ==
    ASSUME ProcessInv, FsyncSegment
    PROVE  ProcessInv'
<1>1. TypeOK /\ pc = "fsync" /\ pc' = (IF job.isNew THEN "dir" ELSE "commit")
  BY DEF ProcessInv, FsyncSegment
<1>2. /\ log' = log /\ tails' = tails /\ garbled' = garbled /\ acks' = acks
      /\ up' = up /\ view' = view /\ mem' = mem /\ job' = job
      /\ synced' = [synced EXCEPT ![job.seg] = Size(job.seg)]
  BY DEF FsyncSegment, files
<1>3. pc' \in {"dir", "commit"} /\ (pc' = "dir" => job.isNew)
  BY <1>1
<1>4. Size(job.seg) \in Nat /\ job.seg \in 1..Len(tails)
  <2>1. job.seg \in 1..Len(tails)
    BY <1>1, Typed, SMTT(30) DEF ProcessInv, Written
  <2> QED BY <1>1, <2>1, Typed, Counts, Queries
<1>5. TypeOK'
  <2>1. PICK z \in Nat : z = Size(job.seg)
    BY <1>4
  <2>2. synced \in Seq(Nat) /\ synced' = [synced EXCEPT ![job.seg] = z]
    BY <1>1, <1>2, <2>1 DEF TypeOK
  <2>3. synced' \in Seq(Nat) /\ Len(synced') = Len(synced)
    <3>1. job.seg \in 1..Len(synced)
      BY <1>1, <1>4 DEF TypeOK
    <3> QED BY <2>2, <3>1
  <2> QED
    BY <1>1, <1>2, <1>3, <2>3 DEF TypeOK, FsyncSegment, Pcs
<1>6. Healthy /\ FilesLoad
  BY <1>1 DEF ProcessInv, Calling
<1>7. FilesLoad' /\ Healthy' /\ Placed(log, tails)'
  BY <1>2, <1>6 DEF FilesLoad, Healthy, ProcessInv, Placed
<1>8. Calling'
  BY <1>1, <1>2, <1>3, <1>7 DEF ProcessInv, Calling, Base
<1>9. Written'
  BY <1>1, <1>2, <1>3 DEF ProcessInv, Written, Base
<1> QED
  BY <1>3, <1>5, <1>7, <1>8, <1>9 DEF ProcessInv, Between, Before, Writing

LEMMA SyncDirProcess ==
    ASSUME ProcessInv, SyncDir
    PROVE  ProcessInv'
<1>1. TypeOK /\ pc = "dir" /\ pc' = "commit"
  BY DEF ProcessInv, SyncDir
<1>2. /\ log' = log /\ tails' = tails /\ garbled' = garbled /\ acks' = acks
      /\ up' = up /\ view' = view /\ mem' = mem /\ job' = job
  BY DEF SyncDir, files
<1>3. TypeOK'
  <2>1. Len(tails) \in Nat
    BY <1>1, Typed
  <2> QED
    BY <1>1, <1>2, <2>1 DEF TypeOK, SyncDir, SyncNames, Pcs
<1>4. Healthy /\ FilesLoad
  BY <1>1 DEF ProcessInv, Calling
<1>5. FilesLoad' /\ Healthy' /\ Placed(log, tails)'
  BY <1>2, <1>4 DEF FilesLoad, Healthy, ProcessInv, Placed
<1>6. Calling'
  BY <1>1, <1>2, <1>5 DEF ProcessInv, Calling, Base
<1>7. Written'
  BY <1>1, <1>2 DEF ProcessInv, Written, Base
<1> QED
  BY <1>1, <1>3, <1>5, <1>6, <1>7 DEF ProcessInv, Between, Before, Writing

\* The counters of the handle after an append are those of the files.
LEMMA CountedIsLoaded ==
    ASSUME ProcessInv, pc = "commit"
    PROVE  Counted = LoadedIn(log, tails, acks)
<1> DEFINE last == Len(tails)
<1>1. TypeOK
  BY DEF ProcessInv
<1>2. /\ mem \in Mem /\ mem.cur \in Nat /\ mem.bytes \in Nat /\ mem.total \in Nat
  BY <1>1, Typed
<1>3. /\ last # 0 /\ job.seg = last
      /\ tails[last] = 0
      /\ ~AckedIn(acks, last)
      /\ TotalIn(log, tails) = mem.total + FrameLen
      /\ SizeIn(log, tails, last) = Base + FrameLen
  BY DEF ProcessInv, Written
<1>4. /\ ~mem.poisoned
      /\ ~job.isNew => ~mem.torn /\ ~mem.pending
  BY DEF ProcessInv, Calling, Healthy
<1>5. mem.poisoned = FALSE
  BY <1>2, <1>4 DEF Mem
<1>6. /\ (~job.isNew /\ mem.torn) = FALSE
      /\ (~job.isNew /\ mem.pending) = FALSE
  BY <1>4
<1>7. (IF job.isNew THEN FrameLen ELSE mem.bytes + FrameLen) = Base + FrameLen
  BY <1>2 DEF Base
<1>8. Counted = [cur |-> job.seg, bytes |-> Base + FrameLen, torn |-> FALSE,
                 pending |-> FALSE, total |-> mem.total + FrameLen,
                 poisoned |-> mem.poisoned]
  <2>1. Counted = [mem EXCEPT !.cur = job.seg, !.bytes = Base + FrameLen,
                              !.torn = FALSE, !.pending = FALSE,
                              !.total = @ + FrameLen]
    <3>1. Counted = [mem EXCEPT
             !.cur = job.seg,
             !.bytes = IF job.isNew THEN FrameLen ELSE mem.bytes + FrameLen,
             !.torn = ~job.isNew /\ mem.torn,
             !.pending = ~job.isNew /\ mem.pending,
             !.total = mem.total + FrameLen]
      BY DEF Counted
    <3> QED BY <1>6, <1>7, <3>1, Zenon
  <2> QED BY <1>2, <2>1 DEF Mem
<1>9. LoadedIn(log, tails, acks) =
        [cur |-> last, bytes |-> SizeIn(log, tails, last), torn |-> FALSE,
         pending |-> FALSE, total |-> TotalIn(log, tails), poisoned |-> FALSE]
  BY <1>3 DEF LoadedIn
<1> QED
  BY <1>3, <1>5, <1>6, <1>7, <1>8, <1>9

LEMMA CommitProcess ==
    ASSUME ProcessInv, Commit
    PROVE  ProcessInv'
<1>1. TypeOK /\ pc = "commit" /\ pc' = "idle"
  BY DEF ProcessInv, Commit
<1>2. /\ log' = log /\ tails' = tails /\ garbled' = garbled /\ acks' = acks
      /\ up' = up /\ view' = Append(view, job.rec) /\ mem' = Counted
      /\ job' = NoJob
      /\ promised' = promised \union {<<Len(view) + 1, job.rec>>}
  BY DEF Commit, files, Reduced
<1>3. /\ log \in Seq(Entry) /\ tails \in Tails /\ view \in Seq(Record)
  BY <1>1, Typed
<1>4. Healthy /\ FilesLoad /\ job.rec \in Record
  BY <1>1 DEF ProcessInv, Calling
<1>5. mem' = LoadedIn(log, tails, acks)
  BY <1>1, <1>2, CountedIsLoaded
<1>6. view' = RecordsIn(log)
  BY <1>1, <1>2 DEF ProcessInv, Written
<1>7. TypeOK'
  <2>1. view' \in Seq(Record) /\ mem' \in Mem /\ job' \in Job
    BY <1>2, <1>3, <1>5, <1>6, RecordsTyped, LoadedTyped, JobTyped DEF Mem
  <2>2. <<Len(view) + 1, job.rec>> \in (Nat \ {0}) \X Record
    BY <1>3, <1>4
  <2>3. promised' \subseteq (Nat \ {0}) \X Record
    BY <1>1, <1>2, <2>2 DEF TypeOK
  <2> QED
    BY <1>1, <1>2, <2>1, <2>3 DEF TypeOK, Mem, Job, Pcs, Commit, durable
<1>8. FilesLoad' /\ Placed(log, tails)'
  BY <1>2, <1>4 DEF FilesLoad, ProcessInv, Placed
<1>9. Between'
  BY <1>2, <1>5, <1>6 DEF Between
<1> QED
  BY <1>1, <1>7, <1>8, <1>9 DEF ProcessInv, Calling, Before, Writing, Written

LEMMA DuplicateProcess ==
    ASSUME ProcessInv, NEW r \in Record, Duplicate(r)
    PROVE  ProcessInv'
<1>1. TypeOK
  BY DEF ProcessInv
<1>2. PICK i \in 1..Len(view) :
          view[i] = r /\ promised' = promised \union {<<i, r>>}
  BY DEF Duplicate
<1>3. <<i, r>> \in (Nat \ {0}) \X Record
  BY <1>1, Typed
<1>4. UNCHANGED <<world, files, durable, process>>
  BY DEF Duplicate
<1>5. promised' \subseteq (Nat \ {0}) \X Record
  BY <1>1, <1>2, <1>3 DEF TypeOK
<1>6. TypeOK'
  BY <1>1, <1>4, <1>5 DEF TypeOK, files, durable, process
<1> QED
  BY <1>4, <1>6, ProcessStays

LEMMA AppendFailProcess ==
    ASSUME ProcessInv, AppendFail
    PROVE  ProcessInv'
<1>1. TypeOK /\ Placed(log, tails)
  BY DEF ProcessInv
<1>2. /\ log' = log /\ tails' = tails /\ pc' = "idle" /\ job' = NoJob
      /\ mem' = [mem EXCEPT !.poisoned = TRUE]
  BY DEF AppendFail, files
<1>3. mem' \in Mem /\ mem'.poisoned = TRUE
  BY <1>1, <1>2, Typed DEF Mem
<1>4. TypeOK'
  BY <1>1, <1>2, <1>3, JobTyped
     DEF TypeOK, Mem, Job, Pcs, AppendFail, files, durable
<1>5. Placed(log, tails)' /\ ~Healthy'
  BY <1>1, <1>2, <1>3 DEF Placed, Healthy
<1> QED
  BY <1>2, <1>4, <1>5, Unhealthy

LEMMA DownTyped ==
    ASSUME Down
    PROVE  /\ up' = FALSE /\ view' \in Seq(Record) /\ mem' \in Mem
           /\ pc' = "idle" /\ job' \in Job /\ ~Healthy'
  BY MemTyped, JobTyped DEF Down, Healthy

LEMMA ExitProcess ==
    ASSUME ProcessInv, Exit
    PROVE  ProcessInv'
<1>1. TypeOK /\ Placed(log, tails)
  BY DEF ProcessInv
<1>2. /\ up' = FALSE /\ view' \in Seq(Record) /\ mem' \in Mem
      /\ pc' = "idle" /\ job' \in Job /\ ~Healthy'
  BY DownTyped DEF Exit
<1>3. log' = log /\ tails' = tails
  BY DEF Exit, files
<1>4. TypeOK'
  BY <1>1, <1>2 DEF TypeOK, Mem, Job, Pcs, Exit, files, durable
<1>5. Placed(log, tails)'
  BY <1>1, <1>3 DEF Placed
<1> QED
  BY <1>2, <1>4, <1>5, Unhealthy

LEMMA PowerLossProcess ==
    ASSUME ProcessInv, PowerLoss
    PROVE  ProcessInv'
<1>1. TypeOK /\ log \in Seq(Entry) /\ Len(log) \in Nat /\ Len(tails) \in Nat
  BY Typed DEF ProcessInv
<1>2. PICK n \in durSegs..Len(tails) :
         \E keep \in [1..n -> 0..MaxSegmentBytes] : \E kept \in SUBSET acks :
            Survive(n, keep, kept)
  BY DEF PowerLoss
<1>3. PICK keep \in [1..n -> 0..MaxSegmentBytes], kept \in SUBSET acks :
         Survive(n, keep, kept)
  BY <1>2
<1>4. /\ log' = Picked(log, {i \in 1..Len(log) : Kept(keep, log[i])})
      /\ tails' = [s \in 1..n |-> keep[s] % FrameLen]
      /\ acks' = kept /\ synced' = keep /\ durSegs' = n /\ durAcks' = kept
      /\ Down
      /\ UNCHANGED <<world, garbled, promised>>
  BY <1>3 DEF Survive, PowerLoss
<1>5. n \in Nat
  BY <1>1 DEF TypeOK
<1>6. \A s \in 1..n : keep[s] \in Nat
  BY CapsAssumption
<1>7. tails' \in Tails /\ Len(tails') = n
  <2>1. \A s \in 1..n : keep[s] % FrameLen \in 0..(FrameLen - 1)
    BY <1>6
  <2> QED BY <1>4, <1>5, <2>1 DEF Tails
<1>8. synced' \in Seq(Nat) /\ Len(synced') = n
  BY <1>4, <1>5, <1>6
<1> DEFINE I == {i \in 1..Len(log) : Kept(keep, log[i])}
<1>9. /\ log' \in Seq(Entry)
      /\ \A k \in 1..Len(log') : \E i \in I : log'[k] = log[i]
  <2>1. I \in SUBSET (1..Len(log)) /\ log' = Picked(log, I)
    BY <1>4
  <2> HIDE DEF I
  <2>2. /\ Picked(log, I) \in Seq(Entry)
        /\ \A k \in 1..Len(Picked(log, I)) : \E i \in I : Picked(log, I)[k] = log[i]
    BY <1>1, <2>1, PickedMembers
  <2> QED BY <2>1, <2>2
<1>10. Placed(log', tails')
  <2>1. \A i \in I : log[i].seg \in 1..n
    BY DEF Kept
  <2> QED BY <1>7, <1>9, <2>1 DEF Placed
<1>11. /\ up' = FALSE /\ view' \in Seq(Record) /\ mem' \in Mem
      /\ pc' = "idle" /\ job' \in Job /\ ~Healthy'
  BY <1>4, DownTyped
<1>12. acks' \subseteq Ack /\ durAcks' \subseteq Ack
  BY <1>1, <1>4 DEF TypeOK
<1>13. TypeOK'
  BY <1>1, <1>4, <1>5, <1>7, <1>8, <1>9, <1>11, <1>12
     DEF TypeOK, Tails, Mem, Job, Pcs
<1> QED
  BY <1>10, <1>11, <1>13, Unhealthy

LEMMA NextProcess == ProcessInv /\ [Next]_vars => ProcessInv'
<1> SUFFICES ASSUME ProcessInv, [Next]_vars PROVE ProcessInv'
  OBVIOUS
<1>1. CASE UNCHANGED vars
  <2>1. TypeOK'
    BY <1>1 DEF ProcessInv, TypeOK, vars, files, durable, process
  <2> QED BY <1>1, <2>1, ProcessStays DEF vars
<1>2. CASE AppendStep
  BY <1>2, AppendStartProcess, CreateAckProcess, SyncAckDirProcess,
     CreateSegmentProcess, WriteUnitProcess, FsyncSegmentProcess,
     SyncDirProcess, CommitProcess DEF AppendStep
<1>3. CASE Open \/ \E r \in Record : Duplicate(r)
  BY <1>3, OpenProcess, DuplicateProcess
<1>4. CASE AppendFail \/ Exit \/ PowerLoss
  BY <1>4, AppendFailProcess, ExitProcess, PowerLossProcess
<1> QED
  BY <1>1, <1>2, <1>3, <1>4 DEF Next, Serve

LEMMA Processes == Spec => []ProcessInv
  BY InitProcess, NextProcess, PTL DEF Spec

\* The types of the files, of what is durable and of the process.
THEOREM LedgerTyped == Spec => []TypeOK
<1>1. ProcessInv => TypeOK
  BY DEF ProcessInv
<1> QED
  BY <1>1, Processes, PTL

\* Between two calls the reducer and the counters of an open handle are those
\* a fresh openLedger would compute (ledger.ts:922-933 against 1021-1041):
\* whatever fails, also when processes die and the power goes.
THEOREM HandleAgrees == Spec => []ReplayAgrees
<1>1. ProcessInv => ReplayAgrees
  BY Queries DEF ProcessInv, Between, Healthy, ReplayAgrees
<1> QED
  BY <1>1, Processes, PTL

-----------------------------------------------------------------------------
(* Frames are numbered inside their segment, and a power loss takes at most*)
(* the last frame.                                                         *)

Numbered(h) ==
    \A i \in 1..Len(h) :
        h[i].pos = Cardinality({ j \in 1..i : h[j].seg = h[i].seg })

Front(h) == [i \in 1..(Len(h) - 1) |-> h[i]]

LEMMA NumberedGrows ==
    ASSUME NEW h \in Seq(Entry), Numbered(h), NEW e \in Entry,
           e.pos = Cardinality(FramesIn(h, e.seg)) + 1
    PROVE  Numbered(Append(h, e))
<1> DEFINE g == Append(h, e)
           n == Len(h) + 1
<1>1. /\ Len(h) \in Nat /\ Len(g) = n
      /\ \A i \in 1..Len(h) : g[i] = h[i]
      /\ g[n] = e
      /\ 1..n = (1..Len(h)) \union {n}
  OBVIOUS
<1>2. Cardinality(FramesIn(g, e.seg)) = Cardinality(FramesIn(h, e.seg)) + 1
  BY FramesGrow
<1> HIDE DEF g
<1>3. g[n].pos = Cardinality({ j \in 1..n : g[j].seg = g[n].seg })
  BY <1>1, <1>2 DEF FramesIn
<1>4. ASSUME NEW i \in 1..Len(h)
      PROVE  g[i].pos = Cardinality({ j \in 1..i : g[j].seg = g[i].seg })
  <2>1. \A j \in 1..i : j \in 1..Len(h)
    BY <1>1
  <2>2. { j \in 1..i : g[j].seg = g[i].seg } = { j \in 1..i : h[j].seg = h[i].seg }
    BY <1>1, <2>1
  <2> QED BY <1>1, <2>2 DEF Numbered
<1> HIDE DEF n
<1> QED
  BY <1>1, <1>3, <1>4 DEF Numbered, g

\* The number of a frame is at most the count of frames in its segment; the
\* newest frame of the log has that number, the others there have less.
LEMMA Positions ==
    ASSUME NEW h \in Seq(Entry), Numbered(h), NEW i \in 1..Len(h)
    PROVE  /\ h[i].pos \in Nat
           /\ h[i].pos <= Cardinality(FramesIn(h, h[i].seg))
           /\ i = Len(h) => h[i].pos = Cardinality(FramesIn(h, h[i].seg))
           /\ i # Len(h) /\ h[i].seg = h[Len(h)].seg =>
                 h[i].pos < Cardinality(FramesIn(h, h[i].seg))
<1> DEFINE S == { j \in 1..i : h[j].seg = h[i].seg }
           T == FramesIn(h, h[i].seg)
<1>1. Len(h) \in Nat /\ \A j \in 1..i : j \in 1..Len(h)
  OBVIOUS
<1>2. S \in SUBSET T
  BY <1>1 DEF FramesIn
<1>3. IsFiniteSet(T) /\ Cardinality(T) \in Nat
  BY FramesCounted
<1>4. h[i].pos = Cardinality(S)
  BY DEF Numbered
<1>5. i = Len(h) => S = T
  BY DEF FramesIn
<1>6. i # Len(h) /\ h[i].seg = h[Len(h)].seg => S # T
  <2>1. i # Len(h) => Len(h) \notin 1..i
    BY <1>1
  <2>2. Len(h) \in 1..Len(h)
    BY <1>1
  <2> QED BY <2>1, <2>2 DEF FramesIn
<1> HIDE DEF S, T
<1>7. /\ IsFiniteSet(S) /\ Cardinality(S) <= Cardinality(T)
      /\ Cardinality(T) = Cardinality(S) => T = S
  BY <1>2, <1>3, FS_Subset
<1>8. Cardinality(S) \in Nat
  BY <1>7, FS_CardinalityType
<1>9. h[i].pos \in Nat /\ h[i].pos <= Cardinality(T)
  BY <1>4, <1>7, <1>8
<1>10. i = Len(h) => h[i].pos = Cardinality(T)
  BY <1>4, <1>5
<1>11. i # Len(h) /\ h[i].seg = h[Len(h)].seg => h[i].pos < Cardinality(T)
  BY <1>3, <1>4, <1>6, <1>7, <1>8
<1> QED
  BY <1>9, <1>10, <1>11 DEF T

LEMMA FrontFacts ==
    ASSUME NEW h \in Seq(Entry), Len(h) # 0
    PROVE  /\ Front(h) \in Seq(Entry)
           /\ Len(Front(h)) = Len(h) - 1
           /\ \A i \in 1..(Len(h) - 1) : Front(h)[i] = h[i]
           /\ \A s : Cardinality(FramesIn(h, s)) =
                        Cardinality(FramesIn(Front(h), s))
                          + (IF h[Len(h)].seg = s THEN 1 ELSE 0)
<1>1. Len(h) \in Nat /\ Len(h) - 1 \in Nat /\ Len(h) \in 1..Len(h)
  OBVIOUS
<1>2. /\ Front(h) \in Seq(Entry) /\ Len(Front(h)) = Len(h) - 1
      /\ \A i \in 1..(Len(h) - 1) : Front(h)[i] = h[i]
  BY <1>1 DEF Front
<1>3. h[Len(h)] \in Entry
  BY <1>1
<1>4. Append(Front(h), h[Len(h)]) = h
  BY <1>1, <1>2, <1>3
<1>5. \A s : Cardinality(FramesIn(Append(Front(h), h[Len(h)]), s)) =
                Cardinality(FramesIn(Front(h), s))
                  + (IF h[Len(h)].seg = s THEN 1 ELSE 0)
  BY <1>2, <1>3, FramesGrow
<1> QED
  BY <1>2, <1>4, <1>5, Zenon

LEMMA FrontAccepted ==
    ASSUME NEW h \in Seq(Entry), Len(h) # 0, Accepted(h)
    PROVE  Accepted(Front(h))
<1> DEFINE r == RecordsIn(h)
           q == RecordsIn(Front(h))
<1>1. Len(h) \in Nat /\ Len(h) - 1 \in Nat
  OBVIOUS
<1>2. /\ Front(h) \in Seq(Entry) /\ Len(Front(h)) = Len(h) - 1
      /\ \A i \in 1..(Len(h) - 1) : Front(h)[i] = h[i]
  BY FrontFacts
<1>3. /\ r \in Seq(Record) /\ Len(r) = Len(h)
      /\ \A i \in 1..Len(h) : r[i] = h[i].rec
  BY RecordsTyped
<1>4. /\ q \in Seq(Record) /\ Len(q) = Len(h) - 1
      /\ \A i \in 1..(Len(h) - 1) : q[i] = Front(h)[i].rec
  BY <1>2, RecordsTyped
<1>5. Replayable(r)
  BY DEF Accepted
<1> HIDE DEF r, q
<1>6. \A i \in 1..(Len(h) - 1) : i \in 1..Len(h) /\ q[i] = r[i]
  BY <1>1, <1>2, <1>3, <1>4, SMTT(30)
<1>7. ASSUME NEW i \in 1..(Len(h) - 1)
      PROVE  SubSeq(q, 1, i - 1) = SubSeq(r, 1, i - 1)
  <2>1. \A j \in 1..(i - 1) : j \in 1..(Len(h) - 1)
    BY <1>1
  <2>2. \A j \in 1..(i - 1) : q[j] = r[j]
    BY <1>6, <2>1
  <2>3. i - 1 \in Nat /\ i - 1 <= Len(h) - 1
    BY <1>1
  <2> QED BY <1>1, <1>3, <1>4, <2>2, <2>3
<1>8. Replayable(q)
  BY <1>4, <1>5, <1>6, <1>3, <1>7 DEF Replayable
<1>9. \A i \in 1..Len(Front(h)) :
         Front(h)[i].seq = i /\ WellFormed(Front(h)[i].rec)
  BY <1>1, <1>2, <1>6 DEF Accepted
<1> QED
  BY <1>8, <1>9 DEF Accepted, q

LEMMA FrontNumbered ==
    ASSUME NEW h \in Seq(Entry), Len(h) # 0, Numbered(h)
    PROVE  Numbered(Front(h))
<1>1. Len(h) \in Nat
  OBVIOUS
<1>2. /\ Len(Front(h)) = Len(h) - 1
      /\ \A i \in 1..(Len(h) - 1) : Front(h)[i] = h[i]
  BY FrontFacts
<1>3. ASSUME NEW i \in 1..(Len(h) - 1)
      PROVE  Front(h)[i].pos =
                Cardinality({ j \in 1..i : Front(h)[j].seg = Front(h)[i].seg })
  <2>1. i \in 1..Len(h) /\ \A j \in 1..i : j \in 1..(Len(h) - 1)
    BY <1>1
  <2>2. { j \in 1..i : Front(h)[j].seg = Front(h)[i].seg }
           = { j \in 1..i : h[j].seg = h[i].seg }
    BY <1>2, <2>1
  <2> QED BY <1>2, <2>1, <2>2 DEF Numbered
<1> QED
  BY <1>2, <1>3 DEF Numbered

\* Files that lost something at their end: the segments before the last one are
\* whole, their acks are kept, and nothing became longer.
Shortened(h, t, a, g, u, b) ==
    /\ Len(u) <= Len(t)
    /\ \A s \in 1..Len(u) : s # Len(t) =>
          u[s] = t[s] /\ SizeIn(g, u, s) = SizeIn(h, t, s)
    /\ Len(u) = Len(t) /\ Len(t) # 0 =>
          SizeIn(g, u, Len(t)) <= SizeIn(h, t, Len(t))
    /\ TotalIn(g, u) <= TotalIn(h, t)
    /\ \A x \in b : x.seg <= Len(u)
    /\ \A x \in a : x.seg < Len(u) => x \in b
    /\ \A x \in b : x.seg = Len(t) =>
          u[Len(t)] = t[Len(t)] /\ SizeIn(g, u, Len(t)) = SizeIn(h, t, Len(t))

\* They still load.
LEMMA FilesCut ==
    ASSUME NEW h \in Seq(Entry), NEW t \in Tails, NEW a,
           Explained(h, t, a), Capped(h, t, a),
           NEW g \in Seq(Entry), NEW u \in Tails, NEW b \in SUBSET a,
           Shortened(h, t, a, g, u, b)
    PROVE  Explained(g, u, b) /\ Capped(g, u, b)
<1> USE DEF Shortened
<1>1. TotalIn(h, t) \in Nat /\ \A s \in 1..Len(t) : SizeIn(h, t, s) \in Nat
  BY Counts
<1>2. Len(t) \in Nat /\ Len(u) \in Nat
  BY TailsTyped
<1>3. \A s \in 1..Len(u) : s \in 1..Len(t)
  BY <1>2
<1>4. ASSUME NEW x \in b
      PROVE  /\ x.seg \in 1..Len(u)
             /\ u[x.seg] # 0
             /\ x.bytes = SizeIn(g, u, x.seg)
             /\ \A y \in b : y.seg = x.seg => y = x
  <2>1. /\ x.seg \in 1..Len(t) /\ t[x.seg] # 0 /\ x.bytes = SizeIn(h, t, x.seg)
        /\ \A y \in a : y.seg = x.seg => y = x
    BY DEF Explained
  <2>2. x.seg \in 1..Len(u)
    BY <1>2, <2>1
  <2>3. u[x.seg] = t[x.seg] /\ SizeIn(g, u, x.seg) = SizeIn(h, t, x.seg)
    BY <2>2
  <2> QED BY <2>1, <2>2, <2>3
<1>5. ASSUME NEW s \in 1..Len(u), u[s] # 0, s # Len(u)
      PROVE  AckedIn(b, s)
  <2>1. s < Len(u) /\ s \in 1..Len(t) /\ s # Len(t)
    BY <1>2, <1>5
  <2>2. AckedIn(a, s)
    BY <1>5, <2>1 DEF Explained
  <2> QED BY <2>1, <2>2 DEF AckedIn
<1>6. Explained(g, u, b)
  BY <1>4, <1>5 DEF Explained
<1>7. \A s \in 1..Len(u) : SizeIn(g, u, s) <= MaxSegmentBytes
  <2>1. ASSUME NEW s \in 1..Len(u)
        PROVE  SizeIn(g, u, s) <= MaxSegmentBytes
    <3>1. s \in 1..Len(t) /\ SizeIn(h, t, s) <= MaxSegmentBytes
      BY <1>3 DEF Capped
    <3>2. CASE s # Len(t)
      BY <3>1, <3>2
    <3>3. CASE s = Len(t)
      <4>1. Len(u) = Len(t) /\ Len(t) # 0
        BY <1>2, <3>1, <3>3
      <4>2. SizeIn(g, u, s) \in Nat
        BY Counts
      <4> QED BY <1>1, <3>1, <3>3, <4>1, <4>2, CapsAssumption
    <3> QED BY <3>2, <3>3
  <2> QED BY <2>1
<1>8. Cardinality(b) <= MaxSegments
  <2>1. IsFiniteSet(b) /\ Cardinality(b) <= Len(u)
    BY <1>2, <1>6, AcksCounted
  <2>2. Cardinality(b) \in Nat
    BY <2>1, FS_CardinalityType
  <2> QED BY <1>2, <2>1, <2>2, CapsAssumption DEF Capped
<1>9. Len(u) <= MaxSegments /\ TotalIn(g, u) <= MaxLedgerBytes
  <2>1. TotalIn(g, u) \in Nat
    BY Counts
  <2> QED BY <1>1, <1>2, <2>1, CapsAssumption DEF Capped
<1> QED
  BY <1>6, <1>7, <1>8, <1>9 DEF Capped

LEMMA TailsFrom ==
    ASSUME NEW n \in Nat, NEW u \in [1..n -> 0..(FrameLen - 1)]
    PROVE  u \in Tails /\ Len(u) = n
BY DEF Tails

\* Files with fewer torn units.
LEMMA TornLess ==
    ASSUME NEW t \in Tails, NEW u \in Tails, Len(u) <= Len(t),
           \A s \in 1..Len(u) : u[s] <= t[s]
    PROVE  Cardinality(TornIn(u)) <= Cardinality(TornIn(t))
<1>1. Len(t) \in Nat /\ Len(u) \in Nat
  BY TailsTyped
<1>2. \A s \in 1..Len(u) : s \in 1..Len(t) /\ u[s] \in Nat /\ t[s] \in Nat
  BY <1>1, TailsTyped
<1>3. ASSUME NEW p \in TornIn(u)
      PROVE  p \in TornIn(t)
  <2>1. PICK s \in 1..Len(u), k \in 1..FrameLen : p = <<s, k>> /\ k <= u[s]
    BY DEF TornIn
  <2>2. s \in 1..Len(t) /\ k <= t[s]
    BY <1>2, <2>1
  <2> QED BY <2>1, <2>2 DEF TornIn
<1>4. TornIn(u) \in SUBSET TornIn(t)
  BY <1>3
<1> QED
  BY <1>4, TornCounted, FS_Subset

\* A segment of which all whole frames and k more units are left.
LEMMA FramesKept ==
    ASSUME NEW h \in Seq(Entry), Numbered(h), NEW n \in Nat, NEW s \in 1..n,
           NEW keep, DOMAIN keep = 1..n, NEW k \in Nat, k < FrameLen,
           keep[s] = FrameLen * Cardinality(FramesIn(h, s)) + k
    PROVE  /\ keep[s] % FrameLen = k
           /\ \A i \in 1..Len(h) : h[i].seg = s => Kept(keep, h[i])
<1>1. PICK c \in Nat : c = Cardinality(FramesIn(h, s))
  BY FramesCounted
<1>2. keep[s] = FrameLen * c + k /\ FrameLen * c \in Nat
  BY <1>1, Frames
<1>3. keep[s] % FrameLen = k
  BY <1>2, Remainder
<1>4. ASSUME NEW i \in 1..Len(h), h[i].seg = s
      PROVE  Kept(keep, h[i])
  <2>1. PICK p \in Nat : p = h[i].pos
    BY Positions
  <2>2. p <= c
    BY <1>1, <1>4, <2>1, Positions
  <2>3. FrameLen * p <= FrameLen * c /\ FrameLen * p \in Nat
    BY <2>2, Frames
  <2>4. FrameLen * p <= keep[s]
    BY <1>2, <2>3
  <2> QED BY <1>4, <2>1, <2>4 DEF Kept
<1> QED
  BY <1>3, <1>4

\* The units behind the last whole frame of each segment that is left.
Rests(n, keep) == [s \in 1..n |-> keep[s] % FrameLen]

\* The frames of which no unit is lost.
WholeFrames(h, keep) == Picked(h, {i \in 1..Len(h) : Kept(keep, h[i])})

\* Of frames h, tails t and acks a the first n segments are left with keep[s]
\* units each, all but the last one whole, and the acks b.
Lossy(h, t, a, n, keep, b) ==
    /\ Explained(h, t, a) /\ Capped(h, t, a) /\ Numbered(h) /\ Placed(h, t)
    /\ n \in Nat /\ n <= Len(t)
    /\ DOMAIN keep = 1..n
    /\ \A s \in 1..n : s # Len(t) => keep[s] = SizeIn(h, t, s)
    /\ b \in SUBSET a
    /\ \A x \in b : x.seg <= n
    /\ \A x \in a : x.seg < n => x \in b

\* Every frame is left, and k units of an incomplete one.
AllLeft(h, t, a, n, keep, k) ==
    /\ k \in Nat
    /\ \A i \in 1..Len(h) : h[i].seg <= n
    /\ n = Len(t) /\ n # 0 =>
          /\ keep[n] = FrameLen * Cardinality(FramesIn(h, n)) + k
          /\ k <= t[n]
          /\ AckedIn(a, n) => k = t[n]

\* Every frame but the newest is left, and k units of that one.
NewestLost(h, t, n, keep, k) ==
    /\ Len(h) # 0 /\ h[Len(h)].seg = Len(t) /\ t[Len(t)] = 0
    /\ k \in Nat /\ k < FrameLen
    /\ \A i \in 1..(Len(h) - 1) : h[i].seg <= n
    /\ n = Len(t) =>
          keep[n] = FrameLen * Cardinality(FramesIn(Front(h), n)) + k

\* No frame is lost: at most units of an incomplete frame, or an empty segment.
LEMMA LogKept ==
    ASSUME NEW h \in Seq(Entry), NEW t \in Tails, NEW a, NEW n, NEW keep, NEW b,
           Lossy(h, t, a, n, keep, b), NEW k, AllLeft(h, t, a, n, keep, k)
    PROVE  /\ WholeFrames(h, keep) = h
           /\ Explained(h, Rests(n, keep), b)
           /\ Capped(h, Rests(n, keep), b)
           /\ \A s \in 1..n : SizeIn(h, Rests(n, keep), s) = keep[s]
<1> USE DEF Lossy, AllLeft
<1> DEFINE u == [s \in 1..n |-> keep[s] % FrameLen]
<1>1. Len(h) \in Nat /\ Len(t) \in Nat
      /\ \A s \in 1..Len(t) : t[s] \in Nat /\ t[s] < FrameLen
  BY TailsTyped
<1>2. ASSUME NEW s \in 1..n
      PROVE  /\ \A i \in 1..Len(h) : h[i].seg = s => Kept(keep, h[i])
             /\ keep[s] = FrameLen * Cardinality(FramesIn(h, s)) + u[s]
             /\ u[s] \in 0..(FrameLen - 1)
             /\ s # Len(t) => u[s] = t[s]
             /\ s = Len(t) => u[s] = k
  <2>1. CASE s # Len(t)
    <3>1. s \in 1..Len(t)
      BY <1>1
    <3>2. t[s] \in Nat /\ t[s] < FrameLen
      BY <1>1, <3>1
    <3>3. keep[s] = FrameLen * Cardinality(FramesIn(h, s)) + t[s]
      BY <2>1 DEF SizeIn
    <3>4. keep[s] % FrameLen = t[s]
      BY <3>2, <3>3, FramesKept
    <3>5. \A i \in 1..Len(h) : h[i].seg = s => Kept(keep, h[i])
      BY <3>2, <3>3, FramesKept
    <3> QED BY <2>1, <3>2, <3>3, <3>4, <3>5
  <2>2. CASE s = Len(t)
    <3>1. n = Len(t) /\ n # 0 /\ n \in 1..Len(t) /\ s = n
      BY <1>1, <2>2
    <3>2. keep[n] = FrameLen * Cardinality(FramesIn(h, n)) + k /\ k <= t[n]
      BY <3>1
    <3>3. k < FrameLen
      BY <1>1, <3>1, <3>2
    <3>4. keep[n] % FrameLen = k
      BY <3>1, <3>2, <3>3, FramesKept
    <3>5. \A i \in 1..Len(h) : h[i].seg = n => Kept(keep, h[i])
      BY <3>1, <3>2, <3>3, FramesKept
    <3> QED BY <2>2, <3>1, <3>2, <3>3, <3>4, <3>5
  <2> QED BY <2>1, <2>2
<1>3. u \in Tails /\ Len(u) = n
  <2>1. \A s \in 1..n : u[s] \in 0..(FrameLen - 1)
    BY <1>2
  <2>2. u \in [1..n -> 0..(FrameLen - 1)]
    BY <2>1, Zenon
  <2> HIDE DEF u
  <2> QED BY <2>2, TailsFrom
<1>4. Picked(h, {i \in 1..Len(h) : Kept(keep, h[i])}) = h
  <2>1. \A i \in 1..Len(h) : h[i].seg \in 1..n
    BY <1>1 DEF Placed
  <2>2. {i \in 1..Len(h) : Kept(keep, h[i])} = 1..Len(h)
    BY <1>2, <2>1
  <2>3. Len(h) \in 0..Len(h)
    BY <1>1
  <2>4. Picked(h, 1..Len(h)) = [j \in 1..Len(h) |-> h[j]]
    BY <2>3, PickedFront
  <2>5. [j \in 1..Len(h) |-> h[j]] = h
    BY <1>1
  <2> QED BY <2>2, <2>4, <2>5
<1> HIDE DEF u
<1>5. \A s \in 1..n : SizeIn(h, u, s) = keep[s]
  BY <1>2 DEF SizeIn
<1>6. \A s \in 1..n : s # Len(t) => u[s] = t[s] /\ SizeIn(h, u, s) = SizeIn(h, t, s)
  BY <1>2, <1>5
<1>7. n = Len(t) /\ Len(t) # 0 =>
         /\ u[Len(t)] <= t[Len(t)]
         /\ SizeIn(h, u, Len(t)) <= SizeIn(h, t, Len(t))
         /\ AckedIn(a, Len(t)) =>
               /\ u[Len(t)] = t[Len(t)]
               /\ SizeIn(h, u, Len(t)) = SizeIn(h, t, Len(t))
  <2> SUFFICES ASSUME n = Len(t), Len(t) # 0
               PROVE  /\ u[n] <= t[n]
                      /\ SizeIn(h, u, n) <= SizeIn(h, t, n)
                      /\ AckedIn(a, n) => u[n] = t[n] /\ SizeIn(h, u, n) = SizeIn(h, t, n)
    OBVIOUS
  <2>1. n \in 1..n /\ n \in 1..Len(t)
    BY <1>1
  <2>2. u[n] = k /\ k <= t[n] /\ t[n] \in Nat /\ (AckedIn(a, n) => k = t[n])
    BY <1>1, <1>2, <2>1
  <2>3. FrameLen * Cardinality(FramesIn(h, n)) \in Nat
    BY FramesCounted, Frames
  <2> QED BY <2>2, <2>3 DEF SizeIn
<1>8. TotalIn(h, u) <= TotalIn(h, t)
  <2>1. \A s \in 1..n : u[s] <= t[s]
    BY <1>1, <1>2, <1>7
  <2>2. Cardinality(TornIn(u)) <= Cardinality(TornIn(t))
    BY <1>3, <2>1, TornLess
  <2> QED BY <1>3, <2>2, TornCounted, Counts DEF TotalIn
<1>9. \A x \in b : x.seg = Len(t) =>
         /\ u[Len(t)] = t[Len(t)]
         /\ SizeIn(h, u, Len(t)) = SizeIn(h, t, Len(t))
  <2>1. ASSUME NEW x \in b, x.seg = Len(t)
        PROVE  n = Len(t) /\ Len(t) # 0 /\ AckedIn(a, Len(t))
    <3>1. x \in a /\ x.seg <= n /\ x.seg \in 1..Len(t)
      BY DEF Explained
    <3> QED BY <1>1, <2>1, <3>1 DEF AckedIn
  <2> QED BY <1>7, <2>1
<1>10. Shortened(h, t, a, h, u, b)
  BY <1>1, <1>3, <1>6, <1>7, <1>8, <1>9 DEF Shortened
<1>11. Explained(h, u, b) /\ Capped(h, u, b)
  BY <1>3, <1>10, FilesCut
<1> QED
  BY <1>4, <1>5, <1>11 DEF u, Rests, WholeFrames


\* The newest frame is lost, as a whole or but for its first k units.
LEMMA FrontKept ==
    ASSUME NEW h \in Seq(Entry), NEW t \in Tails, NEW a, NEW n, NEW keep, NEW b,
           Lossy(h, t, a, n, keep, b), NEW k, NewestLost(h, t, n, keep, k)
    PROVE  /\ WholeFrames(h, keep) = Front(h)
           /\ Explained(Front(h), Rests(n, keep), b)
           /\ Capped(Front(h), Rests(n, keep), b)
           /\ \A s \in 1..n : SizeIn(Front(h), Rests(n, keep), s) = keep[s]
<1> USE DEF Lossy, NewestLost
<1> DEFINE u == [s \in 1..n |-> keep[s] % FrameLen]
<1>1. /\ Len(h) \in Nat /\ Len(t) \in Nat
      /\ \A s \in 1..Len(t) : t[s] \in Nat /\ t[s] < FrameLen
      /\ Len(t) \in 1..Len(t)
  <2>1. Len(h) \in 1..Len(h)
    OBVIOUS
  <2> QED BY <2>1, TailsTyped DEF Placed
<1> PICK g : g = Front(h)
  OBVIOUS
<1>2. /\ g \in Seq(Entry) /\ Len(g) = Len(h) - 1 /\ Numbered(g)
      /\ \A i \in 1..(Len(h) - 1) : g[i] = h[i]
      /\ \A s : Cardinality(FramesIn(g, s)) \in Nat
      /\ \A s : s # Len(t) =>
            Cardinality(FramesIn(g, s)) = Cardinality(FramesIn(h, s))
      /\ Cardinality(FramesIn(h, Len(t))) = Cardinality(FramesIn(g, Len(t))) + 1
  <2>1. g \in Seq(Entry) /\ Len(g) = Len(h) - 1 /\ Numbered(g)
        /\ \A i \in 1..(Len(h) - 1) : g[i] = h[i]
    BY FrontFacts, FrontNumbered
  <2>2. \A s : Cardinality(FramesIn(g, s)) \in Nat
    BY <2>1, FramesCounted
  <2>3. \A s : Cardinality(FramesIn(h, s)) =
           Cardinality(FramesIn(g, s)) + (IF h[Len(h)].seg = s THEN 1 ELSE 0)
    BY FrontFacts
  <2> QED BY <2>1, <2>2, <2>3
<1> g \in Seq(Entry) /\ Numbered(g) /\ n \in Nat /\ DOMAIN keep = 1..n
  BY <1>2
<1>3. ASSUME NEW s \in 1..n
      PROVE  /\ \A i \in 1..Len(g) : g[i].seg = s => Kept(keep, g[i])
             /\ keep[s] = FrameLen * Cardinality(FramesIn(g, s)) + u[s]
             /\ u[s] \in 0..(FrameLen - 1)
             /\ s # Len(t) => u[s] = t[s]
             /\ s = Len(t) => u[s] = k
  <2>1. CASE s # Len(t)
    <3>1. s \in 1..Len(t)
      BY <1>1
    <3>2. t[s] \in Nat /\ t[s] < FrameLen
      BY <1>1, <3>1
    <3>3. keep[s] = FrameLen * Cardinality(FramesIn(g, s)) + t[s]
      BY <1>2, <2>1 DEF SizeIn
    <3> PICK z \in Nat : z = t[s]
      BY <3>2
    <3>4. keep[s] % FrameLen = z
      BY <3>2, <3>3, FramesKept, SMTT(30)
    <3>5. \A i \in 1..Len(g) : g[i].seg = s => Kept(keep, g[i])
      BY <3>2, <3>3, FramesKept
    <3> QED BY <2>1, <3>2, <3>3, <3>4, <3>5
  <2>2. CASE s = Len(t)
    <3>1. n = Len(t) /\ s = n
      BY <1>1, <2>2
    <3>2. keep[s] = FrameLen * Cardinality(FramesIn(g, s)) + k
      BY <3>1
    <3>3. keep[s] % FrameLen = k
      BY <3>2, FramesKept
    <3>4. \A i \in 1..Len(g) : g[i].seg = s => Kept(keep, g[i])
      BY <3>2, FramesKept
    <3> QED BY <2>2, <3>2, <3>3, <3>4
  <2> QED BY <2>1, <2>2
<1>4. u \in Tails /\ Len(u) = n
  <2>1. \A s \in 1..n : u[s] \in 0..(FrameLen - 1)
    BY <1>3
  <2>2. u \in [1..n -> 0..(FrameLen - 1)]
    BY <2>1, Zenon
  <2> HIDE DEF u
  <2> QED BY <2>2, TailsFrom
<1> HIDE DEF u
<1>5. ~ Kept(keep, h[Len(h)])
  <2>1. Len(h) \in 1..Len(h)
    BY <1>1
  <2>2. PICK c \in Nat : c = Cardinality(FramesIn(g, Len(t)))
    BY <1>2
  <2>3. h[Len(h)].pos = c + 1
    BY <1>2, <2>1, <2>2, Positions
  <2>4. FrameLen * (c + 1) = FrameLen * c + FrameLen /\ FrameLen * c \in Nat
    BY Frames
  <2>5. Len(t) \in 1..n => n = Len(t)
    BY <1>1
  <2> QED BY <2>2, <2>3, <2>4, <2>5 DEF Kept
<1>6. Picked(h, {i \in 1..Len(h) : Kept(keep, h[i])}) = g
  <2>1. \A i \in 1..Len(g) : g[i].seg \in 1..n
    BY <1>1, <1>2 DEF Placed
  <2>2. \A i \in 1..(Len(h) - 1) : Kept(keep, h[i])
    BY <1>2, <1>3, <2>1
  <2>3. {i \in 1..Len(h) : Kept(keep, h[i])} = 1..(Len(h) - 1)
    <3>1. \A i : i \in 1..Len(h) <=> i \in 1..(Len(h) - 1) \/ i = Len(h)
      BY <1>1
    <3>2. Len(h) \notin 1..(Len(h) - 1)
      BY <1>1
    <3> QED BY <1>5, <2>2, <3>1, <3>2, Zenon
  <2>4. Len(h) - 1 \in 0..Len(h)
    BY <1>1
  <2>5. Picked(h, 1..(Len(h) - 1)) = [j \in 1..(Len(h) - 1) |-> h[j]]
    BY <2>4, PickedFront, SMTT(30)
  <2> QED BY <2>3, <2>5 DEF Front
<1>7. \A s \in 1..n : SizeIn(g, u, s) = keep[s]
  BY <1>3 DEF SizeIn
<1>8. \A s \in 1..n : s # Len(t) => u[s] = t[s] /\ SizeIn(g, u, s) = SizeIn(h, t, s)
  BY <1>3, <1>7
<1>9. n = Len(t) => SizeIn(g, u, Len(t)) <= SizeIn(h, t, Len(t))
  <2> SUFFICES ASSUME n = Len(t)
               PROVE  SizeIn(g, u, n) <= SizeIn(h, t, n)
    OBVIOUS
  <2>1. n \in 1..n
    BY <1>1
  <2>2. PICK c \in Nat : c = Cardinality(FramesIn(g, n))
    BY <1>2
  <2>3. Cardinality(FramesIn(h, n)) = c + 1 /\ u[n] = k /\ t[n] = 0
    BY <1>2, <1>3, <2>1, <2>2
  <2>4. FrameLen * (c + 1) = FrameLen * c + FrameLen /\ FrameLen * c \in Nat
    BY Frames
  <2> QED BY <2>2, <2>3, <2>4, SMTT(30) DEF SizeIn
<1>10. Cardinality(TornIn(u)) <= Cardinality(TornIn(t)) + FrameLen
  <2>1. Cardinality(TornIn(u)) \in Nat /\ Cardinality(TornIn(t)) \in Nat
    BY <1>4, TornCounted
  <2>2. CASE n = Len(t)
    <3>1. n \in 1..n /\ u[n] = k
      BY <1>1, <1>3, <2>2
    <3>2. \A v \in 1..Len(t) : v # n => t[v] = u[v]
      BY <1>8, <2>2
    <3>3. t[n] = 0
      BY <2>2
    <3>4. n \in 1..Len(u) /\ Len(t) <= Len(u)
          /\ \A v \in 1..Len(u) : v # n => v <= Len(t)
      BY <1>1, <1>4, <2>2, <3>1
    <3>5. Cardinality(TornIn(u)) = Cardinality(TornIn(t)) + u[n]
      BY <1>4, <3>2, <3>3, <3>4, TornSplit
    <3> QED BY <2>1, <3>1, <3>5
  <2>3. CASE n # Len(t)
    <3>1. \A s \in 1..Len(u) : u[s] = t[s] /\ t[s] \in Nat
      BY <1>1, <1>4, <1>8, <2>3
    <3>2. \A s \in 1..Len(u) : u[s] <= t[s]
      BY <3>1
    <3>3. Cardinality(TornIn(u)) <= Cardinality(TornIn(t))
      BY <1>4, <3>2, TornLess
    <3> QED BY <2>1, <3>3
  <2> QED BY <2>2, <2>3
<1>11. TotalIn(g, u) <= TotalIn(h, t)
  <2>1. PICK m \in Nat : m = Len(g)
    BY <1>2
  <2>2. Len(h) = m + 1
    BY <1>1, <1>2, <2>1
  <2>3. FrameLen * (m + 1) = FrameLen * m + FrameLen /\ FrameLen * m \in Nat
    BY Frames
  <2>4. Cardinality(TornIn(u)) \in Nat /\ Cardinality(TornIn(t)) \in Nat
    BY <1>4, TornCounted
  <2> QED BY <1>10, <2>1, <2>2, <2>3, <2>4 DEF TotalIn
<1>12. \A x \in b : x.seg # Len(t)
  BY DEF Explained
<1>13. \A x \in b : x.seg = Len(t) =>
         u[Len(t)] = t[Len(t)] /\ SizeIn(g, u, Len(t)) = SizeIn(h, t, Len(t))
  BY <1>12
<1>14. Explained(g, u, b) /\ Capped(g, u, b)
  <2>1. \A s \in 1..Len(u) : s # Len(t) =>
           u[s] = t[s] /\ SizeIn(g, u, s) = SizeIn(h, t, s)
    BY <1>4, <1>8
  <2>2. Len(u) <= Len(t) /\ (\A x \in b : x.seg <= Len(u))
        /\ (\A x \in a : x.seg < Len(u) => x \in b)
    BY <1>4
  <2>3. Len(u) = Len(t) /\ Len(t) # 0 =>
           SizeIn(g, u, Len(t)) <= SizeIn(h, t, Len(t))
    BY <1>4, <1>9
  <2>4. u \in Tails
    BY <1>4
  <2>5. Shortened(h, t, a, g, u, b)
    BY <1>11, <1>13, <2>1, <2>2, <2>3, Zenon DEF Shortened
  <2>6. b \in SUBSET a
    OBVIOUS
  <2> QED BY <1>2, <2>4, <2>5, <2>6, FilesCut
<1> QED
  BY <1>6, <1>7, <1>14 DEF u, Rests, WholeFrames

-----------------------------------------------------------------------------
(* The files.  In a world of process crashes, or in one of power losses,   *)
(* what is on the disk differs from what a reader sees by no more than the *)
(* frame being written and the entry of its new segment.                   *)

Unsynced(s) == IF pc \in {"write", "fsync"} /\ s = job.seg THEN job.done ELSE 0

\* The segments whose entry a power loss cannot take.
Named == IF pc \in {"write", "fsync", "dir"} /\ job.isNew
           THEN Len(tails) - 1
           ELSE Len(tails)

Durable ==
    /\ durSegs = Named
    /\ \A s \in 1..Len(tails) : synced[s] + Unsynced(s) = SizeIn(log, tails, s)
    /\ pc # "ackDir" => durAcks = acks

\* No promise was made of the frame being written.
Promises ==
    \A p \in promised :
        /\ p[1] <= Len(log)
        /\ log[p[1]].rec = p[2]
        /\ pc \in {"fsync", "dir", "commit"} => p[1] <= Len(view)

FilesInv ==
    world # "both" =>
        /\ FilesLoad
        /\ Numbered(log)
        /\ Promises
        /\ world = "power" => Durable

LEMMA InitFiles == Init => FilesInv
<1> SUFFICES ASSUME Init
             PROVE  FilesInv
  OBVIOUS
<1>1. /\ log = << >> /\ tails = << >> /\ garbled = FALSE /\ acks = {}
      /\ durSegs = 0 /\ durAcks = {} /\ pc = "idle" /\ promised = {}
  BY DEF Init
<1>2. Len(log) = 0 /\ Len(tails) = 0 /\ Len(RecordsIn(log)) = 0
  BY <1>1 DEF RecordsIn
<1>3. Accepted(log)
  BY <1>2 DEF Accepted, Replayable
<1>4. Explained(log, tails, acks)
  BY <1>1, <1>2 DEF Explained
<1>5. TornIn(tails) = {}
  BY <1>2 DEF TornIn
<1>6. TotalIn(log, tails) = 0 /\ Cardinality(acks) = 0
  BY <1>1, <1>2, <1>5, FS_EmptySet DEF TotalIn
<1>7. Capped(log, tails, acks)
  BY <1>2, <1>6, CapsAssumption DEF Capped
<1>8. Numbered(log) /\ Promises
  BY <1>1, <1>2 DEF Numbered, Promises
<1>9. Durable
  BY <1>1, <1>2 DEF Durable, Named
<1> QED
  BY <1>1, <1>3, <1>4, <1>7, <1>8, <1>9 DEF FilesInv, FilesLoad

\* A step that leaves the files, what is durable and the write alone.
LEMMA FilesStay ==
    ASSUME FilesInv, UNCHANGED <<world, files, durable>>,
           pc \in {"idle", "create", "commit"},
           pc' \in {"idle", "ack", "create", "write"},
           pc' = "write" => ~job'.isNew /\ job'.done = 0,
           \A p \in promised' : p \in promised \/
              (p[1] <= Len(log) /\ log[p[1]].rec = p[2])
    PROVE  FilesInv'
<1>1. /\ world' = world /\ log' = log /\ tails' = tails /\ garbled' = garbled
      /\ acks' = acks /\ synced' = synced /\ durSegs' = durSegs
      /\ durAcks' = durAcks
  BY DEF files, durable
<1> SUFFICES ASSUME world # "both"
             PROVE  FilesLoad' /\ Numbered(log)' /\ Promises'
                    /\ (world = "power" => Durable')
  BY <1>1 DEF FilesInv
<1>2. FilesLoad' /\ Numbered(log)'
  BY <1>1 DEF FilesInv, FilesLoad
<1>3. Promises'
  BY <1>1 DEF FilesInv, Promises
<1>4. ASSUME world = "power"
      PROVE  Durable'
  <2>1. Durable
    BY <1>4 DEF FilesInv
  <2>2. Named = Len(tails) /\ Named' = Len(tails)
    BY <1>1 DEF Named
  <2>3. \A s : Unsynced(s) = 0 /\ Unsynced(s)' = 0
    BY <1>1 DEF Unsynced
  <2>4. \A s \in 1..Len(tails) : synced'[s] + 0 = SizeIn(log', tails', s)
    BY <1>1, <2>1, <2>3 DEF Durable
  <2> QED BY <1>1, <2>1, <2>2, <2>3, <2>4 DEF Durable
<1> QED
  BY <1>2, <1>3, <1>4

LEMMA OpenFiles ==
    ASSUME ProcessInv, FilesInv, Open
    PROVE  FilesInv'
<1>1. pc = "idle"
  BY DEF Open, ProcessInv, Calling, Healthy
<1> QED
  BY <1>1, FilesStay DEF Open

LEMMA DuplicateFiles ==
    ASSUME ProcessInv, FilesInv, NEW r \in Record, Duplicate(r)
    PROVE  FilesInv'
<1>1. UNCHANGED <<world, files, durable, process>> /\ pc = "idle" /\ pc' = "idle"
  BY DEF Duplicate, process
<1>2. TypeOK /\ view = RecordsIn(log)
  BY DEF Duplicate, ProcessInv, Between, Healthy
<1>3. PICK i \in 1..Len(view) :
          view[i] = r /\ promised' = promised \union {<<i, r>>}
  BY DEF Duplicate
<1>4. i \in 1..Len(log) /\ Len(log) \in Nat /\ log[i].rec = r
  BY <1>2, <1>3, Typed, RecordsTyped
<1>5. \A p \in promised' : p \in promised \/
         (p[1] <= Len(log) /\ log[p[1]].rec = p[2])
  BY <1>3, <1>4
<1> QED
  BY <1>1, <1>5, FilesStay

LEMMA AppendStartFiles ==
    ASSUME ProcessInv, FilesInv, NEW r \in Record, AppendStart(r)
    PROVE  FilesInv'
<1>1. pc = "idle" /\ pc' = FirstCall /\ UNCHANGED <<world, files, durable>>
      /\ promised' = promised
  BY DEF AppendStart
<1>2. job'.isNew = NeedsSegment /\ job'.done = 0
  BY DEF AppendStart
<1>3. pc' \in {"ack", "create", "write"} /\ (pc' = "write" => ~NeedsSegment)
  BY <1>1 DEF FirstCall
<1> QED
  BY <1>1, <1>2, <1>3, FilesStay

LEMMA CommitFiles ==
    ASSUME ProcessInv, FilesInv, Commit
    PROVE  FilesInv'
<1>1. pc = "commit" /\ pc' = "idle" /\ UNCHANGED <<world, files, durable>>
      /\ promised' = promised \union {<<Len(view) + 1, job.rec>>}
  BY DEF Commit
<1>2. /\ log \in Seq(Entry) /\ view \in Seq(Record)
      /\ RecordsIn(log) = Append(view, job.rec)
  BY <1>1, Typed DEF ProcessInv, Written
<1>3. Len(log) = Len(view) + 1 /\ Len(view) + 1 \in 1..Len(log)
  BY <1>2, RecordsTyped
<1>4. log[Len(view) + 1].rec = job.rec
  BY <1>2, <1>3, RecordsTyped
<1>5. \A p \in promised' : p \in promised \/
         (p[1] <= Len(log) /\ log[p[1]].rec = p[2])
  BY <1>1, <1>3, <1>4
<1> QED
  BY <1>1, <1>5, FilesStay

\* The process fails or ends: its files stay.
LEMMA ProcessGone ==
    ASSUME FilesInv, AppendFail \/ Exit
    PROVE  FilesInv'
<1>1. /\ world # "power" /\ world' = world /\ log' = log /\ tails' = tails
      /\ garbled' = garbled /\ acks' = acks /\ promised' = promised
      /\ pc' = "idle"
  BY DEF AppendFail, Exit, Down, files
<1> QED
  BY <1>1 DEF FilesInv, FilesLoad, Promises

\* During a call the process is open, so its files load.
LEMMA CallLoads ==
    ASSUME ProcessInv, pc # "idle"
    PROVE  FilesLoad
BY DEF ProcessInv, Calling

LEMMA CreateAckFiles ==
    ASSUME ProcessInv, ProcessInv', FilesInv, CreateAck
    PROVE  FilesInv'
<1>1. pc = "ack" /\ pc' = "ackDir" /\ promised' = promised
      /\ UNCHANGED <<world, log, tails, durable, job>>
  BY DEF CreateAck
<1>2. FilesLoad'
  BY <1>1 DEF ProcessInv, Calling
<1> SUFFICES ASSUME world # "both"
             PROVE  FilesLoad' /\ Numbered(log)' /\ Promises'
                    /\ (world = "power" => Durable')
  BY <1>1 DEF FilesInv
<1>3. Numbered(log)' /\ Promises'
  BY <1>1 DEF FilesInv, Promises
<1>4. ASSUME world = "power"
      PROVE  Durable'
  <2>1. Durable
    BY <1>4 DEF FilesInv
  <2>2. Named' = Named /\ \A s : Unsynced(s)' = Unsynced(s)
    BY <1>1 DEF Named, Unsynced
  <2> QED BY <1>1, <2>1, <2>2 DEF Durable, durable
<1> QED
  BY <1>2, <1>3, <1>4

LEMMA SyncAckDirFiles ==
    ASSUME ProcessInv, FilesInv, SyncAckDir
    PROVE  FilesInv'
<1>1. pc = "ackDir" /\ pc' = "create" /\ promised' = promised
      /\ durSegs' = Len(tails) /\ durAcks' = acks
      /\ UNCHANGED <<world, files, synced, job>>
  BY DEF SyncAckDir, SyncNames
<1> SUFFICES ASSUME world # "both"
             PROVE  FilesLoad' /\ Numbered(log)' /\ Promises'
                    /\ (world = "power" => Durable')
  BY <1>1 DEF FilesInv
<1>2. FilesLoad' /\ Numbered(log)' /\ Promises'
  BY <1>1 DEF FilesInv, FilesLoad, Promises, files
<1>3. ASSUME world = "power"
      PROVE  Durable'
  <2>1. Durable
    BY <1>3 DEF FilesInv
  <2>2. Named' = Len(tails) /\ \A s : Unsynced(s)' = Unsynced(s)
    BY <1>1 DEF Named, Unsynced, files
  <2> QED BY <1>1, <2>1, <2>2 DEF Durable, files
<1> QED
  BY <1>2, <1>3

LEMMA CreateSegmentFiles ==
    ASSUME ProcessInv, ProcessInv', FilesInv, CreateSegment
    PROVE  FilesInv'
<1>1. pc = "create" /\ pc' = "write" /\ promised' = promised
      /\ tails' = Append(tails, 0) /\ synced' = Append(synced, 0)
      /\ UNCHANGED <<world, log, acks, durSegs, durAcks, job>>
  BY DEF CreateSegment
<1>2. FilesLoad'
  BY <1>1 DEF ProcessInv, Calling
<1> SUFFICES ASSUME world # "both"
             PROVE  FilesLoad' /\ Numbered(log)' /\ Promises'
                    /\ (world = "power" => Durable')
  BY <1>1 DEF FilesInv
<1>3. Numbered(log)' /\ Promises'
  BY <1>1 DEF FilesInv, Promises
<1>4. ASSUME world = "power"
      PROVE  Durable'
  <2>1. Durable
    BY <1>4 DEF FilesInv
  <2>2. TypeOK /\ Explained(log, tails, acks) /\ Placed(log, tails)
        /\ job.isNew /\ job.done = 0
        /\ (Len(tails) # 0 /\ tails[Len(tails)] # 0 => AckedIn(acks, Len(tails)))
    BY <1>1, CallLoads DEF ProcessInv, Before, FilesLoad
  <2>3. log \in Seq(Entry) /\ tails \in Tails /\ Len(tails) \in Nat
    BY <2>2, Typed
  <2>4. /\ \A s \in 1..Len(tails) : SizeIn(log, tails', s) = SizeIn(log, tails, s)
        /\ SizeIn(log, tails', Len(tails')) = 0
    BY <1>1, <2>2, <2>3, SegmentOpened
  <2>5. Len(tails') = Len(tails) + 1
    BY <1>1, <2>3, TornOpened
  <2>6. synced \in Seq(Nat) /\ Len(synced) = Len(tails)
    BY <2>2 DEF TypeOK
  <2>7. /\ \A s \in 1..Len(tails) : synced'[s] = synced[s] /\ synced[s] \in Nat
        /\ synced'[Len(tails) + 1] = 0
    BY <1>1, <2>6
  <2>8. Named' = Named /\ \A s : Unsynced(s) = 0 /\ Unsynced(s)' = 0
    BY <1>1, <2>2, <2>3, <2>5 DEF Named, Unsynced
  <2>9. ASSUME NEW s \in 1..Len(tails')
        PROVE  synced'[s] + Unsynced(s)' = SizeIn(log', tails', s)
    <3>1. CASE s \in 1..Len(tails)
      <4>1. synced[s] + 0 = SizeIn(log, tails, s)
        BY <2>1, <2>8, <3>1 DEF Durable
      <4> QED BY <1>1, <2>4, <2>7, <2>8, <3>1, <4>1
    <3>2. CASE s = Len(tails')
      <4>1. synced'[s] = 0 /\ Unsynced(s)' = 0
        BY <2>5, <2>7, <2>8, <3>2
      <4>2. SizeIn(log', tails', s) = 0
        BY <1>1, <2>4, <3>2
      <4> QED BY <4>1, <4>2
    <3> QED BY <2>3, <2>5, <3>1, <3>2
  <2>10. durAcks' = acks'
    BY <1>1, <2>1 DEF Durable
  <2> QED BY <1>1, <2>1, <2>8, <2>9, <2>10 DEF Durable
<1> QED
  BY <1>2, <1>3, <1>4

\* A unit lengthens the last segment by itself, a last unit by what it adds
\* to the units before it.
LEMMA WriteUnitSizes ==
    ASSUME ProcessInv, ProcessInv', WriteUnit
    PROVE  /\ Len(tails) # 0 /\ Len(tails') = Len(tails) /\ job.seg = Len(tails)
           /\ \A s \in 1..Len(tails) : s # Len(tails) =>
                 SizeIn(log', tails', s) = SizeIn(log, tails, s)
           /\ SizeIn(log, tails, Len(tails)) = Base + job.done
           /\ SizeIn(log', tails', Len(tails)) = Base + job'.done
           /\ job'.done = job.done + 1
<1>1. TypeOK /\ TypeOK' /\ pc = "write" /\ pc' \in {"write", "fsync"}
      /\ acks' = acks /\ mem' = mem
  BY DEF ProcessInv, WriteUnit
<1>2. /\ log \in Seq(Entry) /\ tails \in Tails /\ Len(tails) \in Nat
      /\ job \in Job /\ job.done \in Nat /\ Base \in Nat
  BY <1>1, Typed
<1>3. /\ Len(tails) # 0 /\ job.seg = Len(tails) /\ ~AckedIn(acks, Len(tails))
      /\ SizeIn(log, tails, Len(tails)) = Base + job.done
  BY <1>1 DEF ProcessInv, Writing
<1>4. job' = [job EXCEPT !.done = @ + 1]
  BY UnitsGrow
<1>5. job'.done = job.done + 1 /\ job'.isNew = job.isNew /\ job'.seg = job.seg
  BY <1>2, <1>4 DEF Job
<1>6. Base' = Base
  BY <1>1, <1>5 DEF Base
<1>7. Explained(log, tails, acks) /\ Placed(log, tails)
  BY <1>1, CallLoads DEF FilesLoad, ProcessInv
<1>8. Len(tails') = Len(tails)
  BY <1>2, UnitsGrow DEF Tails
<1>9. SizeIn(log', tails', Len(tails)) = Base + job'.done
  BY <1>1, <1>6, <1>8 DEF ProcessInv, Writing, Written
<1>10. \A s \in 1..Len(tails) : s # Len(tails) =>
          SizeIn(log', tails', s) = SizeIn(log, tails, s)
  <2>1. CASE pc' = "write"
    <3>1. job.done + 1 < FrameLen /\ log' = log
          /\ tails' = [tails EXCEPT ![Len(tails)] = job.done + 1]
      BY <1>2, <2>1, UnitsGrow
    <3>2. job.done + 1 \in 0..(FrameLen - 1)
      BY <1>2, <3>1
    <3> QED BY <1>2, <1>3, <1>7, <3>1, <3>2, UnitWritten
  <2>2. CASE pc' = "fsync"
    <3>1. PICK e \in Entry :
             /\ e.seg = Len(tails) /\ log' = Append(log, e)
             /\ tails' = [tails EXCEPT ![Len(tails)] = 0]
      BY <2>2, UnitsGrow
    <3> QED BY <1>2, <1>3, <1>7, <3>1, FrameCompleted
  <2> QED BY <1>1, <2>1, <2>2
<1> QED
  BY <1>3, <1>5, <1>8, <1>9, <1>10

LEMMA WriteUnitFiles ==
    ASSUME ProcessInv, ProcessInv', FilesInv, WriteUnit
    PROVE  FilesInv'
<1>1. pc = "write" /\ pc' \in {"write", "fsync"} /\ promised' = promised
      /\ view' = view /\ UNCHANGED <<world, acks, durable>>
  BY DEF WriteUnit
<1>2. FilesLoad'
  BY <1>1 DEF ProcessInv, Calling
<1> SUFFICES ASSUME world # "both"
             PROVE  FilesLoad' /\ Numbered(log)' /\ Promises'
                    /\ (world = "power" => Durable')
  BY <1>1 DEF FilesInv
<1>3. /\ log \in Seq(Entry) /\ Len(log) \in Nat /\ Len(tails) \in Nat
      /\ job \in Job /\ job.done \in Nat /\ Base \in Nat
  BY Typed DEF ProcessInv
<1>4. Numbered(log) /\ Promises /\ promised \subseteq (Nat \ {0}) \X Record
  BY DEF FilesInv, ProcessInv, TypeOK
<1>5. Len(view) = Len(log)
  BY <1>1, <1>3, RecordsTyped DEF ProcessInv, Writing
<1>6. Numbered(log') /\ Len(log) <= Len(log')
      /\ \A i \in 1..Len(log) : log'[i] = log[i]
  <2>1. CASE log' = log
    BY <1>3, <1>4, <2>1
  <2>2. CASE log' # log
    <3>1. PICK e \in Entry :
             /\ e.seg = Len(tails) /\ log' = Append(log, e)
             /\ e.pos = Cardinality(FramesIn(log, Len(tails))) + 1
      BY <2>2, UnitsGrow
    <3>2. Numbered(log')
      BY <1>3, <1>4, <3>1, NumberedGrows
    <3> QED BY <1>3, <3>1, <3>2
  <2> QED BY <2>1, <2>2
<1>7. Promises'
  <2> SUFFICES ASSUME NEW p \in promised
               PROVE  /\ p[1] <= Len(log') /\ log'[p[1]].rec = p[2]
                      /\ p[1] <= Len(view)
    BY <1>1 DEF Promises
  <2>1. p[1] \in Nat \ {0} /\ p[1] <= Len(log) /\ log[p[1]].rec = p[2]
    BY <1>4 DEF Promises
  <2>2. p[1] \in 1..Len(log) /\ Len(log') \in Nat
    BY <1>3, <1>4, <2>1, UnitsGrow, SMTT(30)
  <2> QED BY <1>3, <1>5, <1>6, <2>1, <2>2
<1>8. ASSUME world = "power"
      PROVE  Durable'
  <2>1. Durable
    BY <1>8 DEF FilesInv
  <2>2. job' = [job EXCEPT !.done = @ + 1]
    BY UnitsGrow
  <2>3. job'.isNew = job.isNew /\ job'.seg = job.seg
    BY <1>3, <2>2 DEF Job
  <2>4. /\ Len(tails) # 0 /\ Len(tails') = Len(tails) /\ job.seg = Len(tails)
        /\ SizeIn(log, tails, Len(tails)) = Base + job.done
        /\ SizeIn(log', tails', Len(tails)) = Base + job'.done
        /\ job'.done = job.done + 1
        /\ \A s \in 1..Len(tails) : s # Len(tails) =>
              SizeIn(log', tails', s) = SizeIn(log, tails, s)
    BY WriteUnitSizes
  <2>5. Named' = Named
    BY <1>1, <2>3, <2>4 DEF Named
  <2>6. synced' = synced /\ durSegs' = durSegs /\ durAcks' = durAcks /\ acks' = acks
    BY <1>1 DEF durable
  <2>7. synced \in Seq(Nat) /\ Len(synced) = Len(tails)
    BY DEF ProcessInv, TypeOK
  <2>8. ASSUME NEW s \in 1..Len(tails)
        PROVE  synced[s] + Unsynced(s)' = SizeIn(log', tails', s)
    <3>1. synced[s] \in Nat /\ synced[s] + Unsynced(s) = SizeIn(log, tails, s)
      BY <2>1, <2>7 DEF Durable
    <3>2. CASE s = Len(tails)
      <4>1. Unsynced(s) = job.done /\ Unsynced(s)' = job'.done
        BY <1>1, <2>3, <2>4, <3>2 DEF Unsynced
      <4> QED BY <1>3, <2>4, <3>1, <3>2, <4>1
    <3>3. CASE s # Len(tails)
      <4>1. Unsynced(s) = 0 /\ Unsynced(s)' = 0
        BY <2>3, <2>4, <3>3 DEF Unsynced
      <4> QED BY <2>4, <3>1, <3>3, <4>1
    <3> QED BY <3>2, <3>3
  <2> QED BY <1>1, <2>1, <2>4, <2>5, <2>6, <2>8 DEF Durable
<1> QED
  BY <1>2, <1>6, <1>7, <1>8

LEMMA FsyncSegmentFiles ==
    ASSUME ProcessInv, FilesInv, FsyncSegment
    PROVE  FilesInv'
<1>1. pc = "fsync" /\ pc' = (IF job.isNew THEN "dir" ELSE "commit")
      /\ promised' = promised
      /\ synced' = [synced EXCEPT ![job.seg] = Size(job.seg)]
      /\ UNCHANGED <<world, files, durSegs, durAcks, view, job>>
  BY DEF FsyncSegment
<1> SUFFICES ASSUME world # "both"
             PROVE  FilesLoad' /\ Numbered(log)' /\ Promises'
                    /\ (world = "power" => Durable')
  BY <1>1 DEF FilesInv
<1>2. FilesLoad' /\ Numbered(log)' /\ Promises'
  BY <1>1 DEF FilesInv, FilesLoad, Promises, files
<1>3. ASSUME world = "power"
      PROVE  Durable'
  <2>1. Durable
    BY <1>3 DEF FilesInv
  <2>2. synced \in Seq(Nat) /\ Len(synced) = Len(tails) /\ job.seg = Len(tails)
    BY <1>1 DEF ProcessInv, TypeOK, Written
  <2>3. /\ \A s \in 1..Len(tails) : s # job.seg => synced'[s] = synced[s]
        /\ \A s \in 1..Len(tails) : s = job.seg => synced'[s] = SizeIn(log, tails, s)
        /\ \A s \in 1..Len(tails) : synced[s] \in Nat
    BY <1>1, <2>2, Queries
  <2>4. Named' = Named /\ \A s : Unsynced(s)' = 0
    BY <1>1 DEF Named, Unsynced, files
  <2>5. \A s \in 1..Len(tails) : SizeIn(log, tails, s) \in Nat
    BY Typed, Counts DEF ProcessInv
  <2>6. ASSUME NEW s \in 1..Len(tails)
        PROVE  synced'[s] + 0 = SizeIn(log, tails, s)
    <3>1. CASE s = job.seg
      BY <2>3, <2>5, <3>1
    <3>2. CASE s # job.seg
      <4>1. Unsynced(s) = 0
        BY <3>2 DEF Unsynced
      <4> QED BY <2>1, <2>3, <3>2, <4>1 DEF Durable
    <3> QED BY <3>1, <3>2
  <2>7. durAcks' = acks'
    BY <1>1, <2>1 DEF Durable, files
  <2> QED BY <1>1, <2>1, <2>4, <2>6, <2>7 DEF Durable, files
<1> QED
  BY <1>2, <1>3

LEMMA SyncDirFiles ==
    ASSUME ProcessInv, FilesInv, SyncDir
    PROVE  FilesInv'
<1>1. pc = "dir" /\ pc' = "commit" /\ promised' = promised
      /\ durSegs' = Len(tails) /\ durAcks' = acks
      /\ UNCHANGED <<world, files, synced, view, job>>
  BY DEF SyncDir, SyncNames
<1> SUFFICES ASSUME world # "both"
             PROVE  FilesLoad' /\ Numbered(log)' /\ Promises'
                    /\ (world = "power" => Durable')
  BY <1>1 DEF FilesInv
<1>2. FilesLoad' /\ Numbered(log)' /\ Promises'
  BY <1>1 DEF FilesInv, FilesLoad, Promises, files
<1>3. ASSUME world = "power"
      PROVE  Durable'
  <2>1. Durable
    BY <1>3 DEF FilesInv
  <2>2. Named' = Len(tails) /\ \A s : Unsynced(s)' = Unsynced(s)
    BY <1>1 DEF Named, Unsynced, files
  <2> QED BY <1>1, <2>1, <2>2 DEF Durable, files
<1> QED
  BY <1>2, <1>3

\* A segment of no units, or of the units of an incomplete frame, holds no
\* frame; one of a frame's length and no incomplete frame holds one.
LEMMA FewFrames ==
    ASSUME NEW c \in Nat
    PROVE  /\ FrameLen * c = 0 => c = 0
           /\ FrameLen * c = FrameLen => c = 1
<1>1. 0 < c => FrameLen * 0 + FrameLen <= FrameLen * c
  BY Frames
<1>2. 1 < c => FrameLen * 1 + FrameLen <= FrameLen * c
  BY Frames
<1>3. FrameLen * 0 = 0 /\ FrameLen * 1 = FrameLen
  OBVIOUS
<1> QED
  BY <1>1, <1>2, <1>3

LEMMA Emptied ==
    ASSUME NEW h \in Seq(Entry), NEW s, Cardinality(FramesIn(h, s)) = 0
    PROVE  \A i \in 1..Len(h) : h[i].seg # s
<1>1. FramesIn(h, s) = {}
  BY FramesCounted, FS_EmptySet
<1> QED
  BY <1>1 DEF FramesIn

\* What a power loss may do to the files of a world of power losses.
LossLeaves(g, u, b, n, keep) ==
    /\ g = log \/ (g = Front(log) /\ pc \in {"fsync", "dir"})
    /\ Explained(g, u, b) /\ Capped(g, u, b)
    /\ \A s \in 1..n : SizeIn(g, u, s) = keep[s]

LEMMA LossFacts ==
    ASSUME ProcessInv, FilesLoad, Numbered(log), Durable,
           NEW n \in durSegs..Len(tails),
           NEW keep \in [1..n -> 0..MaxSegmentBytes],
           NEW kept \in SUBSET acks, Survive(n, keep, kept)
    PROVE  /\ n \in Nat /\ n <= Len(tails) /\ Named <= n
           /\ DOMAIN keep = 1..n
           /\ \A s \in 1..n : keep[s] \in Nat
           /\ \A s \in 1..n : s # Len(tails) => keep[s] = SizeIn(log, tails, s)
           /\ pc \notin {"write", "fsync"} =>
                 \A s \in 1..n : keep[s] = SizeIn(log, tails, s)
           /\ pc \in {"write", "fsync"} =>
                 \A s \in 1..n : s = Len(tails) =>
                    /\ SizeIn(log, tails, s) - job.done <= keep[s]
                    /\ keep[s] <= SizeIn(log, tails, s)
           /\ \A x \in kept : x.seg <= n
           /\ \A x \in acks : x.seg < n => x \in kept
<1>1. /\ Len(tails) \in Nat /\ job.done \in Nat
      /\ \A s \in 1..Len(tails) : SizeIn(log, tails, s) \in Nat
  BY Typed, Counts DEF ProcessInv
<1>2. Named \in Nat \/ Len(tails) = 0
  BY <1>1 DEF Named
<1>3. durSegs \in Nat /\ durSegs = Named /\ synced \in Seq(Nat)
      /\ Len(synced) = Len(tails)
  BY DEF Durable, ProcessInv, TypeOK
<1>4. n \in Nat /\ n <= Len(tails) /\ Named <= n
  BY <1>1, <1>3
<1>5. \A s \in 1..n : s \in 1..Len(tails) /\ synced[s] \in Nat
  BY <1>1, <1>3, <1>4
<1>6. \A s \in 1..n : /\ keep[s] \in Nat
                      /\ synced[s] <= keep[s] /\ keep[s] <= SizeIn(log, tails, s)
  <2>1. \A s \in 1..n : keep[s] \in synced[s]..SizeIn(log, tails, s)
    BY Queries DEF Survive
  <2> QED BY <1>1, <1>5, <2>1
<1>7. \A s \in 1..n : synced[s] + Unsynced(s) = SizeIn(log, tails, s)
  BY <1>5 DEF Durable
<1>8. pc \in {"write", "fsync"} => job.seg = Len(tails)
  BY DEF ProcessInv, Writing, Written
<1>9. \A s \in 1..n : s # Len(tails) \/ pc \notin {"write", "fsync"} =>
         keep[s] = SizeIn(log, tails, s)
  <2> SUFFICES ASSUME NEW s \in 1..n,
                      s # Len(tails) \/ pc \notin {"write", "fsync"}
               PROVE  keep[s] = SizeIn(log, tails, s)
    OBVIOUS
  <2>1. Unsynced(s) = 0
    BY <1>8 DEF Unsynced
  <2>2. synced[s] + 0 = SizeIn(log, tails, s)
    BY <1>7, <2>1
  <2> QED BY <1>5, <1>6, <2>2
<1>10. pc \in {"write", "fsync"} => \A s \in 1..n : s = Len(tails) =>
          SizeIn(log, tails, s) - job.done <= keep[s]
  <2>1. pc \in {"write", "fsync"} => \A s \in 1..n : s = Len(tails) => Unsynced(s) = job.done
    BY <1>8 DEF Unsynced
  <2> QED BY <1>1, <1>5, <1>6, <1>7, <2>1
<1> QED
  BY <1>4, <1>6, <1>9, <1>10 DEF Survive

LEMMA PowerLossCut ==
    ASSUME ProcessInv, FilesLoad, Numbered(log), Durable,
           NEW n \in durSegs..Len(tails),
           NEW keep \in [1..n -> 0..MaxSegmentBytes],
           NEW kept \in SUBSET acks, Survive(n, keep, kept)
    PROVE  LossLeaves(log', tails', acks', n, keep)
<1> PICK h \in Seq(Entry), t \in Tails : h = log /\ t = tails
  BY Typed DEF ProcessInv
<1> PICK last \in Nat : last = Len(t)
  BY TailsTyped
<1>1. /\ n \in Nat /\ n <= Len(t) /\ Named <= n
      /\ DOMAIN keep = 1..n
      /\ \A s \in 1..n : keep[s] \in Nat
      /\ \A s \in 1..n : s # Len(t) => keep[s] = SizeIn(h, t, s)
      /\ \A x \in kept : x.seg <= n
      /\ \A x \in acks : x.seg < n => x \in kept
  BY LossFacts
<1>2. /\ pc \notin {"write", "fsync"} =>
            \A s \in 1..n : keep[s] = SizeIn(h, t, s)
      /\ pc \in {"write", "fsync"} =>
            \A s \in 1..n : s = Len(t) =>
               /\ SizeIn(h, t, s) - job.done <= keep[s]
               /\ keep[s] <= SizeIn(h, t, s)
  BY LossFacts
<1>3. Explained(h, t, acks) /\ Capped(h, t, acks) /\ Numbered(h) /\ Placed(h, t)
  BY DEF FilesLoad, ProcessInv
<1>4. /\ log' = WholeFrames(h, keep)
      /\ tails' = Rests(n, keep)
      /\ acks' = kept
  BY DEF Survive, Rests, WholeFrames
<1>5. /\ \A s \in 1..last : t[s] \in Nat /\ t[s] < FrameLen
      /\ \A s : Cardinality(FramesIn(h, s)) \in Nat
  BY TailsTyped, FramesCounted
<1> PICK c \in Nat : c = Cardinality(FramesIn(h, last))
  BY <1>5
<1>6. FrameLen * c \in Nat
  BY Frames
<1>7. last # 0 => last \in 1..last /\ SizeIn(h, t, last) = FrameLen * c + t[last]
  BY DEF SizeIn
<1>8. \A i \in 1..Len(h) : h[i].seg \in 1..last
  BY <1>3 DEF Placed
<1> PICK d : d = Cardinality(FramesIn(Front(h), last))
  OBVIOUS
<1>8a. Lossy(h, t, acks, n, keep, kept)
  BY <1>1, <1>3 DEF Lossy
<1>9. ASSUME NEW k \in Nat, \A i \in 1..Len(h) : h[i].seg <= n,
             n = last /\ last # 0 =>
                /\ keep[last] = FrameLen * c + k
                /\ k <= t[last]
                /\ AckedIn(acks, last) => k = t[last]
      PROVE  LossLeaves(log', tails', acks', n, keep)
  <2>1. AllLeft(h, t, acks, n, keep, k)
    BY <1>9 DEF AllLeft
  <2>2. /\ WholeFrames(h, keep) = h
        /\ Explained(h, Rests(n, keep), kept)
        /\ Capped(h, Rests(n, keep), kept)
        /\ \A s \in 1..n : SizeIn(h, Rests(n, keep), s) = keep[s]
    BY <1>8a, <2>1, LogKept
  <2> QED BY <1>4, <2>2 DEF LossLeaves
<1>10. ASSUME NEW k \in Nat, k < FrameLen, pc \in {"fsync", "dir"},
              Len(h) # 0, h[Len(h)].seg = last, t[last] = 0,
              \A i \in 1..(Len(h) - 1) : h[i].seg <= n,
              n = last => keep[last] = FrameLen * d + k
       PROVE  LossLeaves(log', tails', acks', n, keep)
  <2>1. NewestLost(h, t, n, keep, k)
    BY <1>10 DEF NewestLost
  <2>2. /\ WholeFrames(h, keep) = Front(h)
        /\ Explained(Front(h), Rests(n, keep), kept)
        /\ Capped(Front(h), Rests(n, keep), kept)
        /\ \A s \in 1..n : SizeIn(Front(h), Rests(n, keep), s) = keep[s]
    BY <1>8a, <2>1, FrontKept
  <2> QED BY <1>4, <1>10, <2>2 DEF LossLeaves
<1>11. ASSUME pc \in {"fsync", "dir"}
       PROVE  /\ last # 0 /\ t[last] = 0 /\ Len(h) # 0 /\ Len(h) \in Nat
              /\ h[Len(h)].seg = last /\ job.done = FrameLen
              /\ SizeIn(h, t, last) = Base + FrameLen
              /\ d \in Nat /\ c = d + 1
              /\ \A i \in 1..(Len(h) - 1) : h[i].seg \in 1..last
  <2>1. /\ last # 0 /\ t[last] = 0 /\ h[Len(h)].seg = last
        /\ job.done = FrameLen /\ SizeIn(h, t, last) = Base + FrameLen
        /\ RecordsIn(h) = Append(view, job.rec)
    BY <1>11 DEF ProcessInv, Written
  <2>2. Len(RecordsIn(h)) = Len(view) + 1 /\ Len(view) \in Nat
    BY <2>1, Typed DEF ProcessInv
  <2>3. Len(h) # 0 /\ Len(h) \in Nat
    BY <2>2, RecordsTyped
  <2>4. d \in Nat
    BY <2>3, FrontFacts, FramesCounted
  <2>5. c = d + 1
    BY <2>1, <2>3, FrontFacts
  <2>6. \A i \in 1..(Len(h) - 1) : h[i].seg \in 1..last
    BY <1>8, <2>3
  <2> QED BY <2>1, <2>3, <2>4, <2>5, <2>6
<1>12. CASE n = last /\ pc \notin {"write", "fsync"}
  <2>1. CASE last = 0
    BY <1>8, <1>9, <1>12, <2>1
  <2>2. CASE last # 0
    <3>1. keep[last] = FrameLen * c + t[last] /\ t[last] \in Nat
      BY <1>2, <1>5, <1>7, <1>12, <2>2
    <3>2. \A i \in 1..Len(h) : h[i].seg <= n
      BY <1>8, <1>12
    <3>3. t[last] <= t[last]
      BY <3>1
    <3> QED BY <1>9, <3>1, <3>2, <3>3
  <2> QED BY <2>1, <2>2
<1>13. CASE n = last /\ pc = "write"
  <2>1. last # 0 /\ ~AckedIn(acks, last) /\ t[last] = job.done
    BY <1>13 DEF ProcessInv, Writing
  <2>2. FrameLen * c <= keep[last] /\ keep[last] <= FrameLen * c + t[last]
        /\ keep[last] \in Nat /\ t[last] \in Nat
    BY <1>1, <1>2, <1>5, <1>6, <1>7, <1>13, <2>1, SMTT(30)
  <2> DEFINE k == keep[last] - FrameLen * c
  <2>3. k \in Nat /\ keep[last] = FrameLen * c + k /\ k <= t[last]
    BY <1>6, <2>2, SMTT(30)
  <2> HIDE DEF k
  <2>4. \A i \in 1..Len(h) : h[i].seg <= n
    BY <1>8, <1>13
  <2> QED BY <1>9, <2>1, <2>3, <2>4
<1>14. CASE n = last /\ pc = "fsync"
  <2>1. /\ d \in Nat /\ c = d + 1 /\ t[last] = 0 /\ last # 0
        /\ job.done = FrameLen /\ Len(h) # 0 /\ h[Len(h)].seg = last
        /\ \A i \in 1..(Len(h) - 1) : h[i].seg \in 1..last
    BY <1>11, <1>14
  <2>2. FrameLen * d \in Nat /\ FrameLen * (d + 1) = FrameLen * d + FrameLen
    BY <2>1, Frames
  <2>3. FrameLen * d <= keep[last] /\ keep[last] <= FrameLen * d + FrameLen
        /\ keep[last] \in Nat
    BY <1>1, <1>2, <1>7, <1>14, <2>1, <2>2, SMTT(30)
  <2>4. CASE keep[last] = FrameLen * d + FrameLen
    <3>1. keep[last] = FrameLen * c + 0 /\ 0 <= t[last] /\ 0 = t[last]
      BY <2>1, <2>2, <2>4
    <3>2. \A i \in 1..Len(h) : h[i].seg <= n
      BY <1>8, <1>14
    <3>3. 0 \in Nat
      OBVIOUS
    <3> QED BY <1>9, <3>1, <3>2, <3>3
  <2>5. CASE keep[last] # FrameLen * d + FrameLen
    <3> DEFINE k == keep[last] - FrameLen * d
    <3>1. k \in Nat /\ keep[last] = FrameLen * d + k /\ k < FrameLen
      <4>1. \A x, y \in Nat : x <= y /\ y <= x + FrameLen /\ y # x + FrameLen =>
               y - x \in Nat /\ y = x + (y - x) /\ y - x < FrameLen
        OBVIOUS
      <4> QED BY <2>2, <2>3, <2>5, <4>1, Zenon
    <3> HIDE DEF k
    <3>2. \A i \in 1..(Len(h) - 1) : h[i].seg <= n
      BY <1>14, <2>1
    <3>3. pc \in {"fsync", "dir"}
      BY <1>14
    <3> QED BY <1>10, <2>1, <3>1, <3>2, <3>3
  <2> QED BY <2>4, <2>5
<1>15. CASE n # last
  <2>1. /\ n = last - 1 /\ last # 0 /\ job.isNew
        /\ pc \in {"write", "fsync", "dir"}
    BY <1>1, <1>15 DEF Named
  <2>2. Base = 0
    BY <2>1 DEF Base
  <2>3. CASE pc = "write"
    <3>1. SizeIn(h, t, last) = 0 + t[last] /\ t[last] \in Nat
      BY <1>5, <1>7, <2>1, <2>2, <2>3 DEF ProcessInv, Writing
    <3>2. FrameLen * c = 0
      <4>1. SizeIn(h, t, last) = FrameLen * c + t[last]
        BY <1>7, <2>1
      <4>2. \A x, y \in Nat : 0 + y = x + y => x = 0
        OBVIOUS
      <4> QED BY <1>6, <3>1, <4>1, <4>2
    <3>3. c = 0
      BY <3>2, FewFrames
    <3>4. \A i \in 1..Len(h) : h[i].seg # last
      BY <3>3, Emptied
    <3>5. \A i \in 1..Len(h) : h[i].seg <= n
      BY <1>8, <2>1, <3>4
    <3>6. 0 \in Nat
      OBVIOUS
    <3> QED BY <1>9, <1>15, <3>5, <3>6
  <2>4. CASE pc \in {"fsync", "dir"}
    <3>1. /\ d \in Nat /\ c = d + 1 /\ t[last] = 0
          /\ Len(h) # 0 /\ Len(h) \in Nat /\ h[Len(h)].seg = last
          /\ SizeIn(h, t, last) = Base + FrameLen
          /\ \A i \in 1..(Len(h) - 1) : h[i].seg \in 1..last
      BY <1>11, <2>4
    <3>2. FrameLen * c = FrameLen
      BY <1>6, <1>7, <2>1, <2>2, <3>1
    <3>3. d = 0
      <4>1. c = 1
        BY <3>2, FewFrames
      <4> QED BY <3>1, <4>1
    <3> PICK g \in Seq(Entry) :
           /\ g = Front(h) /\ Len(g) = Len(h) - 1
           /\ \A i \in 1..(Len(h) - 1) : g[i] = h[i]
      BY <3>1, FrontFacts
    <3>4. Cardinality(FramesIn(g, last)) = 0
      BY <3>3
    <3>5. \A i \in 1..(Len(h) - 1) : h[i].seg <= n
      <4>1. \A i \in 1..Len(g) : g[i].seg # last
        BY <3>4, Emptied
      <4> SUFFICES ASSUME NEW i \in 1..(Len(h) - 1)
                   PROVE  h[i].seg <= n
        OBVIOUS
      <4>2. h[i].seg # last /\ h[i].seg \in 1..last
        BY <3>1, <4>1
      <4> QED BY <2>1, <4>2, SMTT(30)
    <3>6. 0 \in Nat /\ 0 < FrameLen
      OBVIOUS
    <3> QED BY <1>10, <1>15, <2>4, <3>1, <3>5, <3>6
  <2> QED BY <2>1, <2>3, <2>4
<1> QED
  BY <1>12, <1>13, <1>14, <1>15

LEMMA PowerLossFiles ==
    ASSUME ProcessInv, ProcessInv', FilesInv, PowerLoss
    PROVE  FilesInv'
<1>1. world # "soft" /\ world' = world /\ garbled' = garbled
      /\ promised' = promised /\ pc' = "idle"
  BY DEF PowerLoss, Down
<1> SUFFICES ASSUME world # "both"
             PROVE  FilesLoad' /\ Numbered(log)' /\ Promises'
                    /\ (world = "power" => Durable')
  BY <1>1 DEF FilesInv
<1>2. TypeOK /\ world = "power"
  BY <1>1, WorldsAssumption DEF ProcessInv, TypeOK
<1>3. FilesLoad /\ Numbered(log) /\ Promises /\ Durable
  BY <1>2 DEF FilesInv
<1>4. PICK n \in durSegs..Len(tails) :
         \E keep \in [1..n -> 0..MaxSegmentBytes] :
         \E kept \in SUBSET acks : Survive(n, keep, kept)
  BY DEF PowerLoss
<1>5. PICK keep \in [1..n -> 0..MaxSegmentBytes] :
         \E kept \in SUBSET acks : Survive(n, keep, kept)
  BY <1>4
<1>6. PICK kept \in SUBSET acks : Survive(n, keep, kept)
  BY <1>5
<1>7. /\ log' = log \/ (log' = Front(log) /\ pc \in {"fsync", "dir"})
      /\ Explained(log', tails', acks') /\ Capped(log', tails', acks')
      /\ \A s \in 1..n : SizeIn(log', tails', s) = keep[s]
  BY <1>3, <1>6, PowerLossCut DEF LossLeaves
<1>8. log \in Seq(Entry) /\ Len(log) \in Nat
      /\ (pc \in {"fsync", "dir"} => Len(log) # 0 /\ Len(view) = Len(log) - 1)
  <2>1. log \in Seq(Entry) /\ view \in Seq(Record) /\ Len(log) \in Nat
    BY <1>2, Typed
  <2>2. ASSUME pc \in {"fsync", "dir"}
        PROVE  Len(log) # 0 /\ Len(view) = Len(log) - 1
    <3>1. RecordsIn(log) = Append(view, job.rec)
      BY <2>2 DEF ProcessInv, Written
    <3>2. Len(RecordsIn(log)) = Len(view) + 1 /\ Len(view) \in Nat
      BY <2>1, <3>1
    <3> QED BY <2>1, <3>2, RecordsTyped
  <2> QED BY <2>1, <2>2
<1>9. Accepted(log') /\ Numbered(log')
  BY <1>3, <1>7, <1>8, FrontAccepted, FrontNumbered DEF FilesLoad
<1>10. FilesLoad'
  BY <1>1, <1>3, <1>7, <1>9 DEF FilesLoad
<1>11. Promises'
  <2> SUFFICES ASSUME NEW p \in promised
               PROVE  p[1] <= Len(log') /\ log'[p[1]].rec = p[2]
    BY <1>1 DEF Promises
  <2>1. /\ p[1] \in Nat \ {0} /\ p[1] <= Len(log) /\ log[p[1]].rec = p[2]
        /\ pc \in {"fsync", "dir"} => p[1] <= Len(view)
    BY <1>2, <1>3 DEF Promises, TypeOK
  <2>2. CASE log' = log
    BY <2>1, <2>2
  <2>3. CASE log' = Front(log) /\ pc \in {"fsync", "dir"}
    <3>1. Len(log') = Len(log) - 1
          /\ \A i \in 1..(Len(log) - 1) : log'[i] = log[i]
      BY <1>8, <2>3, FrontFacts
    <3>2. p[1] \in 1..(Len(log) - 1)
      BY <1>8, <2>1, <2>3
    <3> QED BY <1>8, <2>1, <3>1, <3>2
  <2> QED BY <1>7, <2>2, <2>3
<1>12. Durable'
  <2>1. /\ tails' = [s \in 1..n |-> keep[s] % FrameLen]
        /\ acks' = kept /\ synced' = keep /\ durSegs' = n /\ durAcks' = kept
    BY <1>6 DEF Survive
  <2>2. n \in Nat
    BY <1>3, <1>6, LossFacts
  <2>3. Len(tails') = n
    BY <2>1, <2>2
  <2>4. Named' = n /\ \A s : Unsynced(s)' = 0
    BY <1>1, <2>3 DEF Named, Unsynced
  <2>5. \A s \in 1..n : keep[s] \in Nat
    BY <1>3, <1>6, LossFacts
  <2>6. \A s \in 1..n : synced'[s] + Unsynced(s)' = SizeIn(log', tails', s)
    BY <1>7, <2>1, <2>4, <2>5
  <2> QED BY <2>1, <2>3, <2>4, <2>6 DEF Durable
<1> QED
  BY <1>9, <1>10, <1>11, <1>12

LEMMA NextFiles ==
    ASSUME ProcessInv, ProcessInv', FilesInv, [Next]_vars
    PROVE  FilesInv'
<1>1. ASSUME NEW r \in Record, AppendStart(r)
      PROVE  FilesInv'
  BY <1>1, AppendStartFiles
<1>2. ASSUME NEW r \in Record, Duplicate(r)
      PROVE  FilesInv'
  BY <1>2, DuplicateFiles
<1>3. CASE Open
  BY <1>3, OpenFiles
<1>4. CASE CreateAck
  BY <1>4, CreateAckFiles
<1>5. CASE SyncAckDir
  BY <1>5, SyncAckDirFiles
<1>6. CASE CreateSegment
  BY <1>6, CreateSegmentFiles
<1>7. CASE WriteUnit
  BY <1>7, WriteUnitFiles
<1>8. CASE FsyncSegment
  BY <1>8, FsyncSegmentFiles
<1>9. CASE SyncDir
  BY <1>9, SyncDirFiles
<1>10. CASE Commit
  BY <1>10, CommitFiles
<1>11. CASE AppendFail \/ Exit
  BY <1>11, ProcessGone
<1>12. CASE PowerLoss
  BY <1>12, PowerLossFiles
<1>13. CASE UNCHANGED vars
  BY <1>13 DEF vars, files, durable, process, FilesInv, FilesLoad, Numbered,
               Promises, Durable, Named, Unsynced
<1> QED
  BY <1>1, <1>2, <1>3, <1>4, <1>5, <1>6, <1>7, <1>8, <1>9, <1>10, <1>11,
     <1>12, <1>13
     DEF Next, Serve, AppendStep

\* What is on the disk stays close to what a reader sees.
LEMMA FilesKept == Spec => []FilesInv
<1>1. Init => FilesInv
  BY InitFiles
<1>2. ProcessInv /\ ProcessInv' /\ FilesInv /\ [Next]_vars => FilesInv'
  BY NextFiles
<1> QED
  BY <1>1, <1>2, Processes, PTL DEF Spec

-----------------------------------------------------------------------------
\* Whatever a process that dies, a call that fails or a power loss left behind,
\* the next openLedger does not throw (ledger.ts:718-780).  In a world of both,
\* it may: the run ledger_full shows how.
THEOREM LedgerReopens ==
    ASSUME "both" \notin Worlds
    PROVE  Spec => []Reopens
<1>1. ProcessInv /\ FilesInv => Reopens
  BY Queries DEF ProcessInv, TypeOK, FilesInv, Reopens
<1> QED
  BY <1>1, Processes, FilesKept, PTL

\* A record append has returned stays in the ledger at its sequence number
\* (ledger.ts:1011-1042, 941-945), with every frame length and every outcome
\* of a power loss.
THEOREM LedgerKeepsPromises ==
    ASSUME "both" \notin Worlds
    PROVE  Spec => []PromisedKept
<1>1. ProcessInv /\ FilesInv => PromisedKept
  BY DEF ProcessInv, TypeOK, FilesInv, Promises, PromisedKept
<1> QED
  BY <1>1, Processes, FilesKept, PTL

-----------------------------------------------------------------------------
(* What lasts is, step by step, a history of EffectLog.                    *)

\* With power losses the frame being written does not last before its fsync,
\* nor, in a new segment, before that of the directory.
Standing ==
    IF world = "power" /\ pc \in {"fsync", "dir"} THEN view ELSE RecordsIn(log)

LEMMA OnDiskFrames ==
    ASSUME ProcessInv, FilesLoad, Numbered(log), Durable
    PROVE  IF pc \in {"fsync", "dir"}
             THEN /\ Len(log) # 0
                  /\ ~OnDisk(log[Len(log)])
                  /\ \A i \in 1..(Len(log) - 1) : OnDisk(log[i])
             ELSE \A i \in 1..Len(log) : OnDisk(log[i])
<1> PICK h \in Seq(Entry), t \in Tails : h = log /\ t = tails
  BY Typed DEF ProcessInv
<1> PICK last \in Nat : last = Len(t)
  BY TailsTyped
<1>1. Numbered(h) /\ \A i \in 1..Len(h) : h[i].seg \in 1..last
  BY DEF ProcessInv, Placed
<1>2. durSegs = Named /\ job.done \in Nat /\ Base \in Nat
      /\ \A s \in 1..last : synced[s] \in Nat /\ synced[s] + Unsynced(s) = SizeIn(h, t, s)
  <2>1. TypeOK
    BY DEF ProcessInv
  <2>2. job.done \in Nat /\ Base \in Nat
    BY <2>1, Typed
  <2>3. \A s \in 1..last : synced[s] \in Nat
    BY <2>1, SMTT(30) DEF TypeOK
  <2> QED BY <2>2, <2>3 DEF Durable
<1>3. \A s : Cardinality(FramesIn(h, s)) \in Nat
             /\ FrameLen * Cardinality(FramesIn(h, s)) \in Nat
  BY FramesCounted, Frames
<1>4. \A s \in 1..last : t[s] \in Nat
  BY TailsTyped
<1>5. pc \in {"write", "fsync"} => job.seg = last
  BY DEF ProcessInv, Writing, Written
\* A frame lies within the whole frames of its segment.
<1>6. ASSUME NEW i \in 1..Len(h), h[i].seg <= Named,
             FrameLen * Cardinality(FramesIn(h, h[i].seg)) <= synced[h[i].seg]
      PROVE  OnDisk(h[i])
  <2>1. h[i].pos \in Nat /\ h[i].pos <= Cardinality(FramesIn(h, h[i].seg))
    BY <1>1, Positions
  <2>2. FrameLen * h[i].pos <= FrameLen * Cardinality(FramesIn(h, h[i].seg))
        /\ FrameLen * h[i].pos \in Nat
    BY <1>3, <2>1, Frames
  <2>3. h[i].seg \in 1..last
    BY <1>1
  <2>4. synced[h[i].seg] \in Nat
    BY <1>2, <2>3
  <2>5. FrameLen * h[i].pos <= synced[h[i].seg]
    BY <1>3, <1>6, <2>2, <2>4
  <2> QED BY <1>2, <1>6, <2>5 DEF OnDisk
<1>7. ASSUME NEW s \in 1..last, Unsynced(s) = 0
      PROVE  FrameLen * Cardinality(FramesIn(h, s)) <= synced[s]
  <2>1. synced[s] + 0 = FrameLen * Cardinality(FramesIn(h, s)) + t[s]
    BY <1>2, <1>7 DEF SizeIn
  <2> QED BY <1>2, <1>3, <1>4, <2>1
<1>8. \A s \in 1..last : s # last => Unsynced(s) = 0 /\ s <= Named
  BY <1>5 DEF Unsynced, Named
<1>9. CASE pc \notin {"write", "fsync", "dir"}
  <2>1. Named = last /\ \A s : Unsynced(s) = 0
    BY <1>9 DEF Named, Unsynced
  <2> QED BY <1>1, <1>6, <1>7, <1>9, <2>1, SMTT(30)
<1>10. CASE pc = "write"
  <2>1. last # 0 /\ t[last] = job.done /\ SizeIn(h, t, last) = Base + job.done
    BY <1>10 DEF ProcessInv, Writing
  <2>2. last \in 1..last /\ Unsynced(last) = job.done
    BY <1>5, <1>10, <2>1 DEF Unsynced
  <2> PICK c \in Nat : c = Cardinality(FramesIn(h, last))
    BY <1>3
  <2>3. SizeIn(h, t, last) = FrameLen * c + job.done /\ FrameLen * c \in Nat
    BY <1>3, <2>1 DEF SizeIn
  <2>4. synced[last] \in Nat /\ synced[last] + job.done = SizeIn(h, t, last)
    BY <1>2, <2>2
  <2>5. FrameLen * c <= synced[last]
    BY <1>2, <2>3, <2>4
  <2>6. ASSUME NEW i \in 1..Len(h)
        PROVE  OnDisk(h[i])
    <3>1. CASE h[i].seg # last
      BY <1>1, <1>6, <1>7, <1>8, <3>1
    <3>2. CASE h[i].seg = last /\ ~job.isNew
      <4>1. Named = last
        BY <3>2 DEF Named
      <4> QED BY <1>6, <2>5, <3>2, <4>1, SMTT(30)
    <3>3. CASE h[i].seg = last /\ job.isNew
      <4>1. Base = 0
        BY <3>3 DEF Base
      <4>2. \A x, y \in Nat : x + y = 0 + y => x = 0
        OBVIOUS
      <4>3. FrameLen * c = 0
        BY <1>2, <2>1, <2>3, <4>1, <4>2
      <4>4. c = 0
        BY <4>3, FewFrames
      <4>5. h[i].seg # last
        BY <4>4, Emptied
      <4> QED BY <3>3, <4>5
    <3> QED BY <3>1, <3>2, <3>3
  <2> QED BY <1>10, <2>6
<1>11. CASE pc \in {"fsync", "dir"}
  <2>1. /\ last # 0 /\ t[last] = 0 /\ h[Len(h)].seg = last
        /\ job.done = FrameLen /\ SizeIn(h, t, last) = Base + FrameLen
        /\ RecordsIn(h) = Append(view, job.rec)
        /\ pc = "dir" => job.isNew
    BY <1>11 DEF ProcessInv, Written
  <2>2. Len(RecordsIn(h)) = Len(view) + 1 /\ Len(view) \in Nat
    BY <2>1, Typed DEF ProcessInv
  <2>3. Len(h) # 0 /\ Len(h) \in 1..Len(h) /\ Len(h) \in Nat
    BY <2>2, RecordsTyped
  <2> PICK c \in Nat : c = Cardinality(FramesIn(h, last))
    BY <1>3
  <2>4. FrameLen * c = Base + FrameLen
    BY <1>3, <2>1 DEF SizeIn
  <2>5. h[Len(h)].pos = c
    BY <1>1, <2>1, <2>3, Positions
  <2>6. last \in 1..last /\ (pc = "fsync" => Unsynced(last) = FrameLen)
    BY <1>5, <2>1 DEF Unsynced
  <2>7. pc = "fsync" => synced[last] = Base
    <3>1. pc = "fsync" => synced[last] + FrameLen = Base + FrameLen
      BY <1>2, <2>1, <2>6
    <3> QED BY <1>2, <2>6, <3>1
  <2>8. ~OnDisk(h[Len(h)])
    <3>1. CASE pc = "fsync"
      <4>1. ~(Base + FrameLen <= Base)
        BY <1>2
      <4> QED BY <2>1, <2>4, <2>5, <2>7, <3>1, <4>1 DEF OnDisk
    <3>2. CASE pc = "dir"
      <4>1. Named = last - 1
        BY <2>1, <3>2 DEF Named
      <4>2. ~(last <= durSegs)
        BY <1>2, <4>1
      <4> QED BY <2>1, <4>2 DEF OnDisk
    <3> QED BY <1>11, <3>1, <3>2
  <2>9. ASSUME NEW i \in 1..(Len(h) - 1)
        PROVE  OnDisk(h[i])
    <3>1. i \in 1..Len(h) /\ i # Len(h)
      BY <2>3
    <3>2. CASE h[i].seg # last
      BY <1>1, <1>6, <1>7, <1>8, <3>1, <3>2
    <3>3. CASE h[i].seg = last
      <4>1. h[i].pos \in Nat /\ h[i].pos < c /\ h[i].pos # 0
        <5>1. h[i] \in Entry
          BY <3>1
        <5>2. h[i].pos \in Nat /\ h[i].pos # 0
          BY <5>1 DEF Entry
        <5>3. h[i].pos < Cardinality(FramesIn(h, h[i].seg))
          BY <1>1, <2>1, <3>1, <3>3, Positions
        <5> QED BY <3>3, <5>2, <5>3
      <4>2. FrameLen * h[i].pos + FrameLen <= FrameLen * c
            /\ FrameLen * h[i].pos \in Nat
        BY <4>1, Frames
      <4>3. FrameLen * h[i].pos <= Base
        BY <1>2, <2>4, <4>2
      <4>4. ~job.isNew
        <5>1. ASSUME job.isNew
              PROVE  FALSE
          <6>1. FrameLen * c = FrameLen
            BY <2>4, <5>1 DEF Base
          <6>2. c = 1
            BY <6>1, FewFrames
          <6> QED BY <4>1, <6>2
        <5> QED BY <5>1
      <4>5. pc = "fsync" /\ Named = last
        BY <1>11, <2>1, <4>4 DEF Named
      <4> QED BY <1>2, <2>7, <3>3, <4>3, <4>5 DEF OnDisk
    <3> QED BY <3>2, <3>3
  <2> QED BY <1>11, <2>3, <2>8, <2>9
<1> QED
  BY <1>9, <1>10, <1>11

LEMMA DurableStands ==
    ASSUME ProcessInv, FilesInv, world = "power"
    PROVE  DurableRecords = Standing
<1>1. FilesLoad /\ Numbered(log) /\ Durable /\ TypeOK
  BY DEF FilesInv, ProcessInv
<1> PICK q \in Seq(Record) : q = RecordsIn(log) /\ q = Records /\ Len(q) = Len(log)
  BY <1>1, Typed, RecordsTyped, Queries
<1>2. Len(log) \in Nat
  BY <1>1, Typed
<1>3. CASE pc \notin {"fsync", "dir"}
  <2>1. {i \in 1..Len(log) : OnDisk(log[i])} = 1..Len(log)
    BY <1>1, <1>3, OnDiskFrames
  <2>2. Len(log) \in 0..Len(q)
    BY <1>2
  <2>3. Picked(q, 1..Len(log)) = [k \in 1..Len(log) |-> q[k]]
    BY <2>2, PickedFront
  <2>4. [k \in 1..Len(log) |-> q[k]] = q
    OBVIOUS
  <2> QED BY <1>3, <2>1, <2>3, <2>4 DEF DurableRecords, Standing
<1>4. CASE pc \in {"fsync", "dir"}
  <2>1. /\ Len(log) # 0 /\ ~OnDisk(log[Len(log)])
        /\ \A i \in 1..(Len(log) - 1) : OnDisk(log[i])
    BY <1>1, <1>4, OnDiskFrames
  <2>2. {i \in 1..Len(log) : OnDisk(log[i])} = 1..(Len(log) - 1)
    <3>1. \A i : i \in 1..Len(log) <=> i \in 1..(Len(log) - 1) \/ i = Len(log)
      BY <1>2, <2>1
    <3>2. Len(log) \notin 1..(Len(log) - 1)
      BY <1>2
    <3> QED BY <2>1, <3>1, <3>2, Zenon
  <2>3. Len(log) - 1 \in 0..Len(q)
    BY <1>2, <2>1
  <2>4. Picked(q, 1..(Len(log) - 1)) = [k \in 1..(Len(log) - 1) |-> q[k]]
    BY <2>3, PickedFront
  <2>5. view \in Seq(Record) /\ q = Append(view, job.rec)
    BY <1>1, <1>4, Typed DEF ProcessInv, Written
  <2>6. [k \in 1..(Len(log) - 1) |-> q[k]] = view
    BY <2>5
  <2> QED BY <1>4, <2>2, <2>4, <2>6 DEF DurableRecords, Standing
<1> QED
  BY <1>3, <1>4

Stands == world # "both" => Lasting = Standing

LEMMA WhatLasts == Spec => []Stands
<1>1. ASSUME ProcessInv, FilesInv
      PROVE  Stands
  <2>1. CASE world = "soft"
    BY <2>1, Queries DEF Stands, Lasting, Standing
  <2>2. CASE world = "power"
    BY <1>1, <2>2, DurableStands DEF Stands, Lasting
  <2>3. CASE world = "both"
    BY <2>3 DEF Stands
  <2> QED
    BY <1>1, <2>1, <2>2, <2>3, WorldsAssumption DEF ProcessInv, TypeOK
<1> QED
  BY <1>1, Processes, FilesKept, PTL

\* A step leaves what stands alone, or adds a record the reducer accepts to it.
Grows(s, t) == t = s \/ \E r \in Record : Accepts(s, r) /\ t = Append(s, r)

\* During a call the record appended may follow what the handle has read.
LEMMA CallAccepted ==
    ASSUME ProcessInv, pc # "idle"
    PROVE  job.rec \in Record /\ Accepts(view, job.rec)
BY DEF ProcessInv, Calling

LEMMA WriteUnitStands ==
    ASSUME ProcessInv, WriteUnit
    PROVE  Grows(Standing, Standing')
<1>1. pc = "write" /\ world' = world /\ view' = view
  BY DEF WriteUnit
<1>2. log \in Seq(Entry) /\ view = RecordsIn(log)
      /\ job.rec \in Record /\ Accepts(view, job.rec)
  BY <1>1, CallAccepted, Typed DEF ProcessInv, Writing
<1>3. Standing = view
  BY <1>1, <1>2 DEF Standing
<1>4. CASE log' = log
  <2>1. Standing' = view
    BY <1>1, <1>2, <1>4 DEF Standing
  <2> QED BY <1>3, <2>1 DEF Grows
<1>5. CASE log' # log
  <2>1. PICK e \in Entry : e.rec = job.rec /\ log' = Append(log, e) /\ pc' = "fsync"
    BY <1>5, UnitsGrow
  <2>2. RecordsIn(log') = Append(view, job.rec)
    BY <1>2, <2>1, RecordsGrow
  <2>3. Standing' = view \/ Standing' = Append(view, job.rec)
    BY <1>1, <2>2 DEF Standing
  <2> QED BY <1>2, <1>3, <2>3 DEF Grows
<1> QED
  BY <1>4, <1>5

LEMMA SyncStands ==
    ASSUME ProcessInv, FsyncSegment \/ SyncDir
    PROVE  Grows(Standing, Standing')
<1>1. pc \in {"fsync", "dir"} /\ world' = world /\ view' = view /\ log' = log
  BY DEF FsyncSegment, SyncDir, files
<1>2. RecordsIn(log) = Append(view, job.rec)
      /\ job.rec \in Record /\ Accepts(view, job.rec)
  BY <1>1, CallAccepted DEF ProcessInv, Written
<1>3. CASE world = "power"
  <2>1. Standing = view
    BY <1>1, <1>3 DEF Standing
  <2>2. Standing' = view \/ Standing' = Append(view, job.rec)
    BY <1>1, <1>2 DEF Standing
  <2> QED BY <1>2, <2>1, <2>2 DEF Grows
<1>4. CASE world # "power"
  BY <1>1, <1>4 DEF Standing, Grows
<1> QED
  BY <1>3, <1>4

LEMMA PowerLossStands ==
    ASSUME ProcessInv, FilesInv, PowerLoss, world # "both"
    PROVE  Grows(Standing, Standing')
<1>1. TypeOK /\ world = "power" /\ pc' = "idle" /\ world' = world
  BY WorldsAssumption DEF ProcessInv, TypeOK, PowerLoss, Down
<1>2. FilesLoad /\ Numbered(log) /\ Durable
  BY <1>1 DEF FilesInv
<1>3. PICK n \in durSegs..Len(tails) :
         \E keep \in [1..n -> 0..MaxSegmentBytes] :
         \E kept \in SUBSET acks : Survive(n, keep, kept)
  BY DEF PowerLoss
<1>4. PICK keep \in [1..n -> 0..MaxSegmentBytes] :
         \E kept \in SUBSET acks : Survive(n, keep, kept)
  BY <1>3
<1>5. PICK kept \in SUBSET acks : Survive(n, keep, kept)
  BY <1>4
<1>6. log' = log \/ (log' = Front(log) /\ pc \in {"fsync", "dir"})
  BY <1>2, <1>5, PowerLossCut DEF LossLeaves
<1>7. Standing' = RecordsIn(log')
  BY <1>1 DEF Standing
<1>8. CASE pc \notin {"fsync", "dir"}
  BY <1>6, <1>7, <1>8 DEF Standing, Grows
<1>9. CASE pc \in {"fsync", "dir"}
  <2>1. log \in Seq(Entry) /\ view \in Seq(Record)
        /\ RecordsIn(log) = Append(view, job.rec)
        /\ job.rec \in Record /\ Accepts(view, job.rec)
    BY <1>1, <1>9, CallAccepted, Typed DEF ProcessInv, Written
  <2>2. Standing = view
    BY <1>1, <1>9 DEF Standing
  <2>3. CASE log' = log
    BY <1>7, <2>1, <2>2, <2>3 DEF Grows
  <2>4. CASE log' = Front(log)
    <3>1. Len(log) = Len(view) + 1 /\ Len(view) \in Nat
      BY <2>1, RecordsTyped
    <3>2. Front(log) \in Seq(Entry) /\ Len(Front(log)) = Len(view)
          /\ \A i \in 1..Len(view) : Front(log)[i] = log[i]
      <4>1. Len(log) # 0 /\ Len(log) - 1 = Len(view)
        BY <3>1
      <4>2. Front(log) \in Seq(Entry) /\ Len(Front(log)) = Len(log) - 1
            /\ \A i \in 1..(Len(log) - 1) : Front(log)[i] = log[i]
        BY <2>1, <4>1, FrontFacts
      <4> QED BY <4>1, <4>2
    <3>3. \A i \in 1..Len(view) : log[i].rec = view[i]
      <4> SUFFICES ASSUME NEW i \in 1..Len(view)
                   PROVE  log[i].rec = view[i]
        OBVIOUS
      <4>1. i \in 1..Len(log)
        BY <3>1
      <4>2. RecordsIn(log)[i] = log[i].rec
        BY <2>1, <4>1, RecordsTyped
      <4>3. Append(view, job.rec)[i] = view[i]
        BY <2>1
      <4> QED BY <2>1, <4>2, <4>3
    <3>4. RecordsIn(Front(log)) = [i \in 1..Len(view) |-> view[i]]
      BY <3>2, <3>3 DEF RecordsIn
    <3>5. RecordsIn(Front(log)) = view
      BY <2>1, <3>4
    <3> QED BY <1>7, <2>2, <2>4, <3>5 DEF Grows
  <2> QED BY <1>6, <2>3, <2>4
<1> QED
  BY <1>8, <1>9

LEMMA NextStands ==
    ASSUME ProcessInv, FilesInv, [Next]_vars, world # "both"
    PROVE  world' = world /\ Grows(Standing, Standing')
<1>1. CASE WriteUnit
  BY <1>1, WriteUnitStands DEF WriteUnit
<1>2. CASE FsyncSegment \/ SyncDir
  BY <1>2, SyncStands DEF FsyncSegment, SyncDir
<1>3. CASE PowerLoss
  BY <1>3, PowerLossStands DEF PowerLoss
\* Every other step leaves the frames alone and is not between the syncs.
<1>4. ASSUME world' = world, log' = log,
             world = "power" => pc \notin {"fsync", "dir"} /\ pc' \notin {"fsync", "dir"}
      PROVE  world' = world /\ Grows(Standing, Standing')
  BY <1>4 DEF Standing, Grows
<1>5. CASE Open \/ Commit \/ AppendFail \/ Exit
  <2>1. world' = world /\ log' = log
    BY <1>5 DEF Open, Commit, AppendFail, Exit, files
  <2>2. world = "power" => pc \notin {"fsync", "dir"} /\ pc' \notin {"fsync", "dir"}
    BY <1>5 DEF Open, Commit, AppendFail, Exit, ProcessInv, Calling, Healthy
  <2> QED BY <1>4, <2>1, <2>2
<1>6. ASSUME NEW r \in Record, AppendStart(r) \/ Duplicate(r)
      PROVE  world' = world /\ Grows(Standing, Standing')
  <2>1. world' = world /\ log' = log /\ pc = "idle"
    BY <1>6 DEF AppendStart, Duplicate, files
  <2>2. pc' \notin {"fsync", "dir"}
    BY <1>6 DEF AppendStart, Duplicate, FirstCall, process
  <2> QED BY <1>4, <2>1, <2>2
<1>7. CASE CreateAck \/ SyncAckDir \/ CreateSegment
  <2>1. world' = world /\ log' = log
        /\ pc \notin {"fsync", "dir"} /\ pc' \notin {"fsync", "dir"}
    BY <1>7 DEF CreateAck, SyncAckDir, CreateSegment, files
  <2> QED BY <1>4, <2>1
<1>8. CASE UNCHANGED vars
  BY <1>8 DEF vars, files, process, Standing, Grows
<1> QED
  BY <1>1, <1>2, <1>3, <1>5, <1>6, <1>7, <1>8 DEF Next, Serve, AppendStep

\* EffectLog is instantiated with the records and statuses of this module.
LEMMA SameReducer ==
    /\ Log!Record = Record
    /\ \A h, r : Log!Accepts(h, r) <=> Accepts(h, r)
<1>1. Log!Statuses = Statuses /\ Log!Record = Record
  BY DEF Log!Record, Record, Log!Statuses, Statuses, Log!StatusOrder,
         StatusOrder, Log!Stops, Stops
<1>2. \A s, u : Log!Advances(s, u) <=> Advances(s, u)
  BY DEF Log!Advances, Advances, Log!NextStatus, NextStatus, Log!StatusOrder,
         StatusOrder, Log!Terminal, Terminal, Log!Stops, Stops
<1>3. \A h, r : Log!TransitionAllowed(h, r) <=> TransitionAllowed(h, r)
  BY <1>2 DEF Log!TransitionAllowed, TransitionAllowed, Log!Started, Started,
              Log!SameIdentity, SameIdentity, Log!Latest, Latest,
              Log!Reserved, Reserved
<1> QED
  BY <1>1, <1>3 DEF Log!Accepts, Accepts, Log!KeyUsed, KeyUsed

\* The segment files implement the append-only history of accepted records:
\* with failing processes and calls in what a reader sees (ledger.ts:385-424),
\* with power losses in what is on the disk (801-842).
THEOREM LedgerIsALog ==
    ASSUME "both" \notin Worlds
    PROVE  Spec => ImplementsEffectLog
<1>1. ASSUME Init, Stands
      PROVE  Log!Init
  <2>1. log = << >> /\ pc = "idle" /\ world # "both"
    BY <1>1 DEF Init
  <2>2. Lasting = RecordsIn(log)
    BY <1>1, <2>1 DEF Stands, Standing
  <2>3. RecordsIn(log) = << >>
    BY <2>1 DEF RecordsIn
  <2> QED BY <2>2, <2>3 DEF Log!Init
<1>2. ASSUME ProcessInv, FilesInv, [Next]_vars, Stands, Stands'
      PROVE  [Log!Next]_Lasting
  <2>1. world # "both"
    BY <1>2 DEF ProcessInv, TypeOK
  <2>2. world' = world /\ Grows(Standing, Standing')
    BY <1>2, <2>1, NextStands
  <2>3. Lasting = Standing /\ Lasting' = Standing'
    BY <1>2, <2>1, <2>2 DEF Stands
  <2>4. CASE Standing' = Standing
    BY <2>3, <2>4
  <2>5. CASE \E r \in Record : Accepts(Standing, r) /\ Standing' = Append(Standing, r)
    <3>1. PICK r \in Record : Accepts(Standing, r) /\ Standing' = Append(Standing, r)
      BY <2>5
    <3>2. Log!Accept(r)
      BY <2>3, <3>1, SameReducer DEF Log!Accept
    <3>3. Log!Next
      BY <3>2, SameReducer DEF Log!Next
    <3> QED BY <3>3
  <2> QED BY <2>2, <2>4, <2>5 DEF Grows
<1> QED
  BY <1>1, <1>2, Processes, FilesKept, WhatLasts, PTL
     DEF Spec, ImplementsEffectLog, Log!Spec

-----------------------------------------------------------------------------
(* What the reducer's checks guarantee of a history.  Exclusivity of a card*)
(* needs the record that reserved it; order inside a run needs the newest  *)
(* record of the run, the one checkTransition compares with.               *)

CardsWereReserved(h) ==
    \A i \in 1..Len(h) : Reserved(h, h[i].card)

RunsHaveLatest(h) ==
    \A i \in 1..Len(h) :
        \E j \in 1..Len(h) : h[j].run = h[i].run /\ Latest(h, j)

HistorySafe(h) ==
    /\ ReservationExclusive(h)
    /\ KeysUnique(h) /\ IdentityStable(h)
    /\ NoStepSkipped(h) /\ TerminalIsLast(h)

HistoryInv(h) ==
    /\ h \in Seq(Record)
    /\ HistorySafe(h)
    /\ CardsWereReserved(h)
    /\ RunsHaveLatest(h)

LEMMA NoHistory == HistoryInv(<< >>)
BY DEF HistoryInv, HistorySafe, ReservationExclusive, CardsWereReserved,
       KeysUnique, IdentityStable, RunsHaveLatest, TerminalIsLast, NoStepSkipped

\* The ten forward statuses are distinct, so a status has one predecessor.
LEMMA OneStepBack ==
    ASSUME NEW s, NEW k \in 2..Len(StatusOrder),
           NextStatus(s, StatusOrder[k])
    PROVE  s = StatusOrder[k - 1]
  BY DEF NextStatus, StatusOrder

LEMMA ForwardIsNoStop ==
    ASSUME NEW k \in 1..Len(StatusOrder)
    PROVE  StatusOrder[k] \notin Stops
  BY DEF Stops, StatusOrder

LEMMA ReservedIsFirst ==
    /\ "reserved" \notin Terminal
    /\ \A k \in 2..Len(StatusOrder) : StatusOrder[k] # "reserved"
  BY DEF Terminal, Stops, StatusOrder

LEMMA ReducerKeeps ==
    ASSUME NEW h, HistoryInv(h), NEW r \in Record, Accepts(h, r)
    PROVE  HistoryInv(Append(h, r))
<1> PICK g : g = Append(h, r)
  OBVIOUS
<1> USE DEF HistorySafe
<1> DEFINE n == Len(h) + 1
<1>1. /\ h \in Seq(Record) /\ g \in Seq(Record)
      /\ Len(h) \in Nat /\ Len(g) = n
      /\ \A i \in 1..Len(h) : g[i] = h[i]
      /\ g[n] = r
  BY DEF HistoryInv
<1>2. /\ ~KeyUsed(h, r.key)
      /\ TransitionAllowed(h, r)
  BY DEF Accepts
<1>3. 1..n = (1..Len(h)) \union {n}
  BY <1>1
<1> HIDE DEF n
<1>4. g \in Seq(Record)
  BY <1>1
<1>5. IdentityStable(g)
  <2>1. \A i \in 1..Len(h) :
            h[i].run = r.run => SameIdentity(h[i], r)
    BY <1>2 DEF TransitionAllowed, Started
  <2> QED
    BY <1>1, <1>3, <2>1 DEF HistoryInv, IdentityStable, SameIdentity
<1>6. KeysUnique(g)
  BY <1>1, <1>2, <1>3 DEF HistoryInv, KeysUnique, KeyUsed
<1>7. CardsWereReserved(g)
  <2>1. Reserved(h, r.card) => Reserved(g, r.card)
    BY <1>1, <1>3 DEF Reserved
  <2>2. ASSUME NEW i \in 1..Len(h)
        PROVE  Reserved(g, h[i].card)
    <3>1. PICK j \in 1..Len(h) :
              h[j].status = "reserved" /\ h[j].card = h[i].card
      BY DEF HistoryInv, CardsWereReserved, Reserved
    <3> QED BY <1>1, <1>3, <3>1 DEF Reserved
  <2>3. Reserved(g, r.card)
    <3>1. CASE Started(h, r.run)
      <4>1. PICK i \in 1..Len(h) : h[i].run = r.run
        BY <3>1 DEF Started
      <4>2. h[i].card = r.card
        BY <1>2, <3>1, <4>1 DEF TransitionAllowed, SameIdentity
      <4> QED BY <2>2, <4>2
    <3>2. CASE ~Started(h, r.run)
      BY <1>1, <1>2, <1>3, <3>2 DEF TransitionAllowed, Reserved
    <3> QED BY <3>1, <3>2
  <2> QED
    BY <1>1, <1>3, <2>2, <2>3 DEF CardsWereReserved
<1>8. ReservationExclusive(g)
  <2>1. \A j \in 1..Len(h) : h[j].card = r.card => h[j].run = r.run
    <3>1. CASE Started(h, r.run)
      <4>1. PICK i \in 1..Len(h) : h[i].run = r.run
        BY <3>1 DEF Started
      <4>2. h[i].card = r.card
        BY <1>2, <3>1, <4>1 DEF TransitionAllowed, SameIdentity
      <4> QED BY <4>1, <4>2 DEF HistoryInv, ReservationExclusive
    <3>2. CASE ~Started(h, r.run)
      BY <1>2, <3>2 DEF TransitionAllowed, HistoryInv, CardsWereReserved
    <3> QED BY <3>1, <3>2
  <2> QED
    BY <1>1, <1>3, <2>1 DEF HistoryInv, ReservationExclusive
<1>9. RunsHaveLatest(g)
  <2>1. Latest(g, n)
    BY <1>1 DEF Latest, n
  <2>2. ASSUME NEW i \in 1..Len(h), h[i].run # r.run
        PROVE  \E j \in 1..Len(h) :
                  h[j].run = h[i].run /\ Latest(g, j)
    <3>1. PICK j \in 1..Len(h) :
              h[j].run = h[i].run /\ Latest(h, j)
      BY DEF HistoryInv, RunsHaveLatest
    <3>2. Latest(g, j)
      BY <1>1, <1>3, <2>2, <3>1 DEF Latest
    <3> QED BY <3>1, <3>2
  <2> QED
    BY <1>1, <1>3, <2>1, <2>2 DEF RunsHaveLatest
<1>10. TerminalIsLast(g)
  <2>1. ASSUME NEW i \in 1..Len(h), h[i].status \in Terminal
        PROVE  h[i].run # r.run
    <3>1. Latest(h, i)
      BY <2>1 DEF HistoryInv, TerminalIsLast
    <3>2. ~Advances(h[i].status, r.status)
      BY <2>1, SMTT(30) DEF Advances, NextStatus, Terminal, Stops, StatusOrder
    <3> QED
      BY <1>2, <3>1, <3>2 DEF TransitionAllowed, Started
  <2>2. \A i \in 1..Len(h) :
            h[i].status \in Terminal => Latest(g, i)
    BY <1>1, <1>3, <2>1 DEF HistoryInv, TerminalIsLast, Latest
  <2>3. Latest(g, n)
    BY <1>1 DEF Latest, n
  <2> QED
    BY <1>1, <1>3, <2>2, <2>3 DEF TerminalIsLast
<1>11. NoStepSkipped(g)
  <2>1. ASSUME NEW k \in 2..Len(StatusOrder), r.status = StatusOrder[k]
        PROVE  \E j \in 1..Len(h) :
                  h[j].run = r.run /\ h[j].status = StatusOrder[k - 1]
    <3>1. Started(h, r.run)
      BY <1>2, <2>1, ReservedIsFirst DEF TransitionAllowed
    <3>2. PICK i \in 1..Len(h) : h[i].run = r.run
      BY <3>1 DEF Started
    <3>3. PICK j \in 1..Len(h) :
              h[j].run = r.run /\ Latest(h, j)
      BY <3>2 DEF HistoryInv, RunsHaveLatest
    <3>4. Advances(h[j].status, StatusOrder[k])
      BY <1>2, <2>1, <3>1, <3>3 DEF TransitionAllowed
    <3>5. k \in 1..Len(StatusOrder)
      BY DEF StatusOrder
    <3>6. NextStatus(h[j].status, StatusOrder[k])
      BY <3>4, <3>5, ForwardIsNoStop DEF Advances
    <3>7. h[j].status = StatusOrder[k - 1]
      BY <3>6, OneStepBack
    <3> QED BY <3>3, <3>7
  <2>2. ASSUME NEW i \in 1..n, NEW k \in 2..Len(StatusOrder),
               g[i].status = StatusOrder[k]
        PROVE  \E j \in 1..n : /\ j < i
                               /\ g[j].run = g[i].run
                               /\ g[j].status = StatusOrder[k - 1]
    <3>1. CASE i = n
      <4>1. PICK j \in 1..Len(h) :
                h[j].run = r.run /\ h[j].status = StatusOrder[k - 1]
        BY <1>1, <2>1, <2>2, <3>1
      <4>2. j \in 1..n /\ j < i
        BY <1>1, <1>3, <3>1, <4>1 DEF n
      <4> QED BY <1>1, <3>1, <4>1, <4>2
    <3>2. CASE i \in 1..Len(h)
      <4>1. PICK j \in 1..Len(h) :
                /\ j < i
                /\ h[j].run = h[i].run
                /\ h[j].status = StatusOrder[k - 1]
        BY <1>1, <2>2, <3>2 DEF HistoryInv, NoStepSkipped
      <4> QED BY <1>1, <1>3, <3>2, <4>1
    <3> QED BY <1>3, <3>1, <3>2
  <2> QED
    BY <1>1, <2>2 DEF NoStepSkipped
<1> QED
  BY <1>4, <1>5, <1>6, <1>7, <1>8, <1>9, <1>10, <1>11 DEF HistoryInv


\* Where nothing takes back what stands, the reducer's guarantees hold of it
\* and of what a reader sees besides: at most the record being appended.
LEMMA HistoryStands ==
    ASSUME "both" \notin Worlds
    PROVE  Spec => []HistoryInv(Standing)
<1>1. ASSUME Init
      PROVE  HistoryInv(Standing)
  <2>1. log = << >> /\ pc = "idle"
    BY <1>1 DEF Init
  <2>2. RecordsIn(log) = << >>
    BY <2>1 DEF RecordsIn
  <2> QED BY <2>1, <2>2, NoHistory DEF Standing
<1>2. ASSUME ProcessInv, FilesInv, [Next]_vars, HistoryInv(Standing)
      PROVE  HistoryInv(Standing)'
  <2>1. world # "both"
    BY <1>2 DEF ProcessInv, TypeOK
  <2>2. Grows(Standing, Standing')
    BY <1>2, <2>1, NextStands
  <2> QED BY <1>2, <2>2, ReducerKeeps DEF Grows
<1> QED
  BY <1>1, <1>2, Processes, FilesKept, PTL DEF Spec

\* Over all appends, process crashes and failing calls, or power losses, what
\* a reader sees and what lasts give a card to one run for ever
\* (ledger.ts:387-396), keep keys and identities (397-404, 454) and skip,
\* repeat or continue no lifecycle (405-423).
THEOREM LedgerHistorySafe ==
    ASSUME "both" \notin Worlds
    PROVE  Spec => [](HistorySafe(Records) /\ HistorySafe(Lasting))
<1>1. ASSUME ProcessInv, Stands, HistoryInv(Standing)
      PROVE  HistorySafe(Records) /\ HistorySafe(Lasting)
  <2>1. Lasting = Standing /\ Records = RecordsIn(log)
    BY <1>1, Queries DEF Stands, ProcessInv, TypeOK
  <2>2. HistoryInv(RecordsIn(log))
    <3>1. CASE Standing = RecordsIn(log)
      BY <1>1, <3>1
    <3>2. CASE Standing # RecordsIn(log)
      <4>1. Standing = view /\ pc \in {"fsync", "dir"}
        BY <3>2 DEF Standing
      <4>2. RecordsIn(log) = Append(view, job.rec)
        BY <1>1, <4>1 DEF ProcessInv, Written
      <4>3. job.rec \in Record /\ Accepts(view, job.rec)
        BY <1>1, <4>1, CallAccepted
      <4> QED BY <1>1, <4>1, <4>2, <4>3, ReducerKeeps
    <3> QED BY <3>1, <3>2
  <2> QED BY <1>1, <2>1, <2>2 DEF HistoryInv
<1> QED
  BY <1>1, Processes, WhatLasts, HistoryStands, PTL

-----------------------------------------------------------------------------
(* The same of EffectLog by itself, for any history it lets grow.          *)

VARIABLE effects

Reducer == INSTANCE EffectLog

LEMMA ReducerAccepts ==
    /\ Reducer!Record = Record
    /\ \A h, r : Reducer!Accepts(h, r) <=> Accepts(h, r)
<1>1. Reducer!Statuses = Statuses /\ Reducer!Record = Record
  BY DEF Reducer!Record, Record, Reducer!Statuses, Statuses,
         Reducer!StatusOrder, StatusOrder, Reducer!Stops, Stops
<1>2. \A s, u : Reducer!Advances(s, u) <=> Advances(s, u)
  BY DEF Reducer!Advances, Advances, Reducer!NextStatus, NextStatus,
         Reducer!StatusOrder, StatusOrder, Reducer!Terminal, Terminal,
         Reducer!Stops, Stops
<1>3. \A h, r : Reducer!TransitionAllowed(h, r) <=> TransitionAllowed(h, r)
  BY <1>2 DEF Reducer!TransitionAllowed, TransitionAllowed, Reducer!Started,
              Started, Reducer!SameIdentity, SameIdentity, Reducer!Latest,
              Latest, Reducer!Reserved, Reserved
<1> QED
  BY <1>1, <1>3 DEF Reducer!Accepts, Accepts, Reducer!KeyUsed, KeyUsed

\* Every history the reducer accepts, for all values of the constants:
\* reservations are exclusive for ever (ledger.ts:387-396), a run's identity
\* and keys are fixed (397-404, 454), and no lifecycle step is skipped,
\* repeated or taken after the run ended (405-423).
THEOREM EffectLogSafe ==
    Reducer!Spec => [](/\ Reducer!TypeOK /\ Reducer!OneRunPerCard
                       /\ Reducer!IdentityFixed /\ Reducer!LifecycleInOrder)
<1>1. Reducer!Init => HistoryInv(effects)
  BY NoHistory DEF Reducer!Init
<1>2. HistoryInv(effects) /\ [Reducer!Next]_effects => HistoryInv(effects)'
  BY ReducerAccepts, ReducerKeeps DEF Reducer!Next, Reducer!Accept
<1>3. ASSUME HistoryInv(effects)
      PROVE  /\ Reducer!TypeOK /\ Reducer!OneRunPerCard
             /\ Reducer!IdentityFixed /\ Reducer!LifecycleInOrder
  <2>1. effects \in Seq(Record) /\ HistorySafe(effects)
    BY <1>3 DEF HistoryInv
  <2>2. Reducer!TypeOK
    BY <2>1, ReducerAccepts DEF Reducer!TypeOK
  <2>3. Reducer!OneRunPerCard
    BY <2>1 DEF HistorySafe, Reducer!OneRunPerCard, ReservationExclusive,
                Reducer!ReservationExclusive
  <2>4. Reducer!IdentityFixed
    BY <2>1 DEF HistorySafe, Reducer!IdentityFixed, KeysUnique,
                Reducer!KeysUnique, IdentityStable, Reducer!IdentityStable,
                SameIdentity, Reducer!SameIdentity
  <2>5. Reducer!TerminalIsLast(effects)
    BY <2>1 DEF HistorySafe, TerminalIsLast, Reducer!TerminalIsLast, Terminal,
                Reducer!Terminal, Stops, Reducer!Stops, Latest, Reducer!Latest
  <2>6. Reducer!NoStepSkipped(effects)
    BY <2>1 DEF HistorySafe, NoStepSkipped, Reducer!NoStepSkipped,
                StatusOrder, Reducer!StatusOrder
  <2> QED BY <2>2, <2>3, <2>4, <2>5, <2>6 DEF Reducer!LifecycleInOrder
<1> QED
  BY <1>1, <1>2, <1>3, PTL DEF Reducer!Spec

=============================================================================
