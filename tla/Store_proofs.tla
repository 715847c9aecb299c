------------------------------- MODULE Store_proofs -------------------------------
(***************************************************************************)
(* The log file, for every set of records and every length of their        *)
(* frames: the bookkeeping in memory describes the file, the store keeps   *)
(* the promise AtomicLog states, and a rotten cell never splices the log.  *)
(***************************************************************************)
EXTENDS Store, WellFoundedInduction, TLAPS

\* The obligations are large: the provers get more than the default time.
USE SMTT(60), ZenonT(60)

\* Every nonempty set of naturals has a least element.
LEMMA LeastNatural ==
    ASSUME NEW S \in SUBSET Nat, S # {}
    PROVE  \E n \in S : \A m \in S : n <= m
<1> DEFINE R == OpToRel(<, Nat)
<1>1. IsWellFoundedOn(R, Nat)
  BY NatLessThanWellFounded, Zenon
<1>2. \A x, y \in Nat : <<x, y>> \in R <=> x < y
  BY DEF OpToRel
<1> HIDE DEF R
<1>3. PICK n \in S : \A y \in S : ~(<<y, n>> \in R)
  BY <1>1, WFMin, Zenon
<1>4. \A y \in S : ~(y < n)
  BY <1>2, <1>3, Zenon
<1>5. \A y \in S : n <= y
  BY <1>4
<1> QED
  BY <1>5

-----------------------------------------------------------------------------
(***************************************************************************)
(* Chains and their prefixes.                                              *)
(***************************************************************************)
\* The images a rewrite can store.
Images == {Image(h) : h \in UNION {[1 .. n -> Records] : n \in 0 .. MaxRecords}}

\* What a frame can hold.
Frameable == Records \cup Images

\* s begins t.
Begins(s, t) == Len(s) <= Len(t) /\ \A i \in 1 .. Len(s) : s[i] = t[i]

\* IsPrefix compares element by element.
LEMMA PrefixBegins ==
    ASSUME NEW S, NEW s \in Seq(S), NEW t \in Seq(S)
    PROVE  IsPrefix(s, t) <=> Begins(s, t)
<1>1. ASSUME IsPrefix(s, t) PROVE Begins(s, t)
  <2>1. \A i \in 1 .. Len(s) : SubSeq(s, 1, Len(s))[i] = s[i]
    OBVIOUS
  <2>2. Len(s) <= Len(t) => \A i \in 1 .. Len(s) : SubSeq(t, 1, Len(s))[i] = t[i]
    OBVIOUS
  <2> QED
    BY <1>1, <2>1, <2>2 DEF IsPrefix, Begins
<1>2. ASSUME Begins(s, t) PROVE IsPrefix(s, t)
  <2>1. Len(s) <= Len(t) => Len(SubSeq(t, 1, Len(s))) = Len(s)
    OBVIOUS
  <2> QED
    BY <1>2, <2>1 DEF IsPrefix, Begins
<1> QED
  BY <1>1, <1>2

\* A prefix is a first part.
LEMMA FirstPart ==
    ASSUME NEW S, NEW s \in Seq(S), NEW k \in 0 .. Len(s)
    PROVE  /\ SubSeq(s, 1, k) \in Seq(S) /\ Len(SubSeq(s, 1, k)) = k
           /\ \A i \in 1 .. k : SubSeq(s, 1, k)[i] = s[i]
           /\ Begins(SubSeq(s, 1, k), s)
BY DEF Begins

-----------------------------------------------------------------------------
(***************************************************************************)
(* What the frames of a chain look like in the file. The function Layout   *)
(* defines is reached through its runs: lists of its first values, of      *)
(* which there is one for every length.                                    *)
(***************************************************************************)
\* A cell on the disk.
CellType == [chain : Seq(Frameable), part : Nat]

\* A frame has a header cell and at least one more, each naming its chain and its place.
LEMMA FrameShape ==
    ASSUME NEW c \in Seq(Frameable), NEW r \in Frameable
    PROVE  /\ Frame(Append(c, r)) \in Seq(CellType)
           /\ FrameCells(r) \in Nat /\ FrameCells(r) > 1
           /\ Len(Frame(Append(c, r))) = FrameCells(r)
           /\ \A n \in 1 .. FrameCells(r) :
                 Frame(Append(c, r))[n] = [chain |-> Append(c, r), part |-> n]
<1>1. FrameCells(r) \in Nat /\ FrameCells(r) > 1
  BY StoreAssumption DEF FrameCells
<1>2. Append(c, r) \in Seq(Frameable) /\ Last(Append(c, r)) = r
  BY DEF Last
<1> DEFINE k == FrameCells(r)
           a == Append(c, r)
<1>3. Frame(a) = [n \in 1 .. k |-> [chain |-> a, part |-> n]]
  BY <1>2, Zenon DEF Frame
<1> HIDE DEF k, a
<1>4. \A n \in 1 .. k : [chain |-> a, part |-> n] \in CellType
  BY <1>1, <1>2 DEF CellType, a, k
<1> QED
  BY <1>1, <1>3, <1>4 DEF k, a

\* The cells of i - 1 records of c, and the frame of the next.
LongerBy(cells, c, i) == cells \o Frame(SubSeq(c, 1, i))

\* f lists the layouts of the prefixes of c up to the n-th.
Run(f, c, n) ==
    f = [i \in 0 .. n |-> IF i = 0 THEN << >> ELSE LongerBy(f[i - 1], c, i)]

\* Every sequence has such a list.
LEMMA RunExists ==
    ASSUME NEW c, NEW n \in Nat
    PROVE  \E f : Run(f, c, n)
<1> DEFINE missing == {k \in Nat : ~\E f : Run(f, c, k)}
<1> SUFFICES ASSUME missing # {} PROVE FALSE
  OBVIOUS
<1>1. PICK m \in missing : \A k \in missing : m <= k
  BY LeastNatural, Zenon
<1>2. CASE m = 0
  <2> DEFINE f == [i \in 0 .. 0 |-> << >>]
  <2>1. \A i \in 0 .. 0 : f[i] = IF i = 0 THEN << >> ELSE LongerBy(f[i - 1], c, i)
    OBVIOUS
  <2>2. Run(f, c, 0)
    BY <2>1 DEF Run
  <2> QED
    BY <1>1, <1>2, <2>2
<1>3. CASE m # 0
  <2>1. m - 1 \in Nat /\ m - 1 \notin missing
    BY <1>1, <1>3
  <2>2. PICK f : Run(f, c, m - 1)
    BY <2>1
  <2> DEFINE g == [i \in 0 .. m |-> IF i = m THEN LongerBy(f[m - 1], c, m) ELSE f[i]]
  <2>3. \A i \in 0 .. m - 1 : f[i] = IF i = 0 THEN << >> ELSE LongerBy(f[i - 1], c, i)
    BY <2>2 DEF Run
  <2>4. /\ \A i \in 0 .. m - 1 : g[i] = f[i]
        /\ g[m] = LongerBy(f[m - 1], c, m)
        /\ g = [i \in 0 .. m |-> g[i]]
    OBVIOUS
  <2> HIDE DEF g
  <2>5. ASSUME NEW i \in 0 .. m
        PROVE  g[i] = IF i = 0 THEN << >> ELSE LongerBy(g[i - 1], c, i)
    <3>1. CASE i = m
      <4>1. m - 1 \in 0 .. m - 1
        BY <2>1
      <4>2. g[m - 1] = f[m - 1]
        BY <2>4, <4>1, Zenon
      <4> QED
        BY <1>3, <2>4, <3>1, <4>2
    <3>2. CASE i # m
      <4>1. i \in 0 .. m - 1 /\ (i # 0 => i - 1 \in 0 .. m - 1)
        BY <1>1, <3>2
      <4> QED
        BY <2>3, <2>4, <4>1, Zenon
    <3> QED
      BY <3>1, <3>2
  <2>6. Run(g, c, m)
    BY <2>4, <2>5, Zenon DEF Run
  <2> QED
    BY <1>1, <2>6
<1> QED
  BY <1>2, <1>3

\* Lists of chains that begin alike begin alike.
LEMMA RunsAgree ==
    ASSUME NEW S, NEW c \in Seq(S), NEW d \in Seq(S), NEW f, NEW g,
           Run(f, c, Len(c)), Run(g, d, Len(d)), NEW last \in Nat, last <= Len(c), last <= Len(d),
           \A i \in 1 .. last : c[i] = d[i]
    PROVE  f[last] = g[last]
<1> DEFINE apart == {j \in Nat : j <= last /\ f[j] # g[j]}
<1> SUFFICES ASSUME apart # {} PROVE FALSE
  BY DEF apart
<1>1. PICK j \in apart : \A i \in apart : j <= i
  BY LeastNatural, Zenon
<1>2. /\ f[j] = IF j = 0 THEN << >> ELSE LongerBy(f[j - 1], c, j)
      /\ g[j] = IF j = 0 THEN << >> ELSE LongerBy(g[j - 1], d, j)
  <2>1. j \in 0 .. Len(c) /\ j \in 0 .. Len(d)
    BY <1>1
  <2> QED
    BY <2>1, Zenon DEF Run
<1>3. j # 0
  BY <1>1, <1>2
<1>4. j - 1 \in Nat /\ j - 1 \notin apart /\ j - 1 <= last
  BY <1>1, <1>3
<1>5. f[j - 1] = g[j - 1]
  BY <1>1, <1>3, <1>4
<1>6. LongerBy(f[j - 1], c, j) = LongerBy(f[j - 1], d, j)
  <2>1. SubSeq(c, 1, j) = SubSeq(d, 1, j)
    BY <1>1
  <2> QED
    BY <2>1, Zenon DEF LongerBy
<1> QED
  BY <1>1, <1>2, <1>3, <1>5, <1>6

\* The layout is the last of the list.
LEMMA LayoutByRun ==
    ASSUME NEW c
    PROVE  Layout(c) = (CHOOSE f : Run(f, c, Len(c)))[Len(c)]
BY DEF Layout, Run, LongerBy

\* The empty chain has no cells.
LEMMA LayoutEmpty == Layout(<< >>) = << >>
<1>1. PICK f : Run(f, << >>, 0)
  BY RunExists
<1> DEFINE g == CHOOSE f_1 : Run(f_1, << >>, 0)
<1>2. Run(g, << >>, 0)
  BY <1>1
<1>3. Layout(<< >>) = g[0]
  BY LayoutByRun
<1> HIDE DEF g
<1> QED
  BY <1>2, <1>3 DEF Run

\* One more record is one more frame.
LEMMA LayoutAppend ==
    ASSUME NEW c \in Seq(Frameable), NEW r \in Frameable
    PROVE  Layout(Append(c, r)) = Layout(c) \o Frame(Append(c, r))
<1> DEFINE n == Len(c)
           d == Append(c, r)
           f == CHOOSE x : Run(x, c, Len(c))
           g == CHOOSE x : Run(x, d, Len(d))
<1>1. /\ n \in Nat /\ d \in Seq(Frameable) /\ Len(d) = n + 1 /\ SubSeq(d, 1, n + 1) = d
      /\ \A i \in 1 .. n : c[i] = d[i]
  OBVIOUS
<1> HIDE DEF d
<1>2. Run(f, c, Len(c))
  <2>1. \E x : Run(x, c, Len(c))
    BY <1>1, RunExists, Zenon
  <2> QED
    BY <2>1, Zenon
<1>3. Run(g, d, Len(d))
  <2>1. \E x : Run(x, d, Len(d))
    BY <1>1, RunExists
  <2> QED
    BY <2>1, Zenon
<1>4. Layout(c) = f[n] /\ Layout(d) = g[n + 1]
  BY <1>1, LayoutByRun
<1> HIDE DEF f, g
<1>5. f[n] = g[n]
  BY <1>1, <1>2, <1>3, RunsAgree
<1>6. g[n + 1] = LongerBy(g[n], d, n + 1)
  <2>1. n + 1 \in 0 .. Len(d) /\ n + 1 # 0 /\ (n + 1) - 1 = n
    BY <1>1
  <2> QED
    BY <1>3, <2>1 DEF Run
<1> QED
  BY <1>1, <1>4, <1>5, <1>6, Zenon DEF d, LongerBy

\* The first k records of a chain.
First(c, k) == SubSeq(c, 1, k)

\* One record more.
LEMMA FirstNext ==
    ASSUME NEW S, NEW c \in Seq(S), NEW k \in 1 .. Len(c)
    PROVE  /\ First(c, k - 1) \in Seq(S) /\ c[k] \in S
           /\ First(c, k) = Append(First(c, k - 1), c[k])
BY DEF First

\* The cells of a chain: typed, each of the frame of a prefix, and those of a prefix first.
Lays(c, k) ==
    /\ Layout(First(c, k)) \in Seq(CellType)
    /\ Len(Layout(First(c, k))) >= k
    /\ \A n \in 1 .. Len(Layout(First(c, k))) :
          \E j \in 1 .. k : Layout(First(c, k))[n].chain = First(c, j)
    /\ \A j \in 0 .. k : Begins(Layout(First(c, j)), Layout(First(c, k)))
    /\ \A j \in 0 .. k - 1 : Len(Layout(First(c, j))) < Len(Layout(First(c, k)))

\* Nothing is laid out for no record.
LEMMA LaysNone ==
    ASSUME NEW c \in Seq(Frameable)
    PROVE  Lays(c, 0)
<1>1. First(c, 0) = << >>
  BY DEF First
<1>2. Layout(First(c, 0)) = << >>
  BY <1>1, LayoutEmpty
<1> DEFINE none == Layout(First(c, 0))
<1>3. none \in Seq(CellType) /\ Len(none) = 0
  <2>1. << >> \in Seq(CellType) /\ Len(<< >>) = 0
    OBVIOUS
  <2> QED
    BY <1>2, <2>1, Zenon
<1> HIDE DEF none
<1>4. Begins(none, none)
  BY <1>3 DEF Begins
<1>5. \A j \in 0 .. 0 : Begins(Layout(First(c, j)), none)
  BY <1>4 DEF none
<1> QED
  BY <1>3, <1>5 DEF Lays, none

\* A frame joins what is laid out.
LEMMA LaysNext ==
    ASSUME NEW c \in Seq(Frameable), NEW k \in 1 .. Len(c), Lays(c, k - 1)
    PROVE  Lays(c, k)
<1> DEFINE old == Layout(First(c, k - 1))
           new == Layout(First(c, k))
           f == Frame(First(c, k))
<1>1. /\ First(c, k - 1) \in Seq(Frameable) /\ c[k] \in Frameable
      /\ First(c, k) = Append(First(c, k - 1), c[k])
  BY FirstNext
<1>2. new = old \o f
  BY <1>1, LayoutAppend, Zenon
<1>3. /\ f \in Seq(CellType) /\ Len(f) \in Nat /\ Len(f) > 1
      /\ \A n \in 1 .. Len(f) : f[n] = [chain |-> First(c, k), part |-> n]
  BY <1>1, FrameShape
<1>4. /\ old \in Seq(CellType) /\ Len(old) \in Nat /\ Len(old) >= k - 1
      /\ \A n \in 1 .. Len(old) : \E j \in 1 .. k - 1 : old[n].chain = First(c, j)
      /\ \A j \in 0 .. k - 1 : Begins(Layout(First(c, j)), old)
      /\ \A j \in 0 .. k - 2 : Len(Layout(First(c, j))) < Len(old)
  BY DEF Lays
<1> HIDE DEF old, new, f
<1>5. /\ new \in Seq(CellType) /\ Len(new) = Len(old) + Len(f) /\ Len(new) \in Nat
      /\ \A n \in 1 .. Len(old) : new[n] = old[n]
      /\ \A n \in Len(old) + 1 .. Len(new) : new[n] = f[n - Len(old)]
  BY <1>2, <1>3, <1>4
<1>6. ASSUME NEW n \in 1 .. Len(new)
      PROVE  \E j \in 1 .. k : new[n].chain = First(c, j)
  <2>1. CASE n <= Len(old)
    <3>1. n \in 1 .. Len(old)
      BY <1>4, <2>1
    <3>2. PICK j \in 1 .. k - 1 : old[n].chain = First(c, j)
      BY <1>4, <3>1, Zenon
    <3>3. j \in 1 .. k
      OBVIOUS
    <3> QED
      BY <1>5, <3>1, <3>2, <3>3, Zenon
  <2>2. CASE n > Len(old)
    <3>1. n \in Len(old) + 1 .. Len(new) /\ n - Len(old) \in 1 .. Len(f) /\ k \in 1 .. k
      BY <1>3, <1>4, <1>5, <2>2
    <3>2. new[n] = [chain |-> First(c, k), part |-> n - Len(old)]
      BY <1>3, <1>5, <3>1, Zenon
    <3>3. new[n].chain = First(c, k)
      BY <3>2
    <3> QED
      BY <3>1, <3>3, Zenon
  <2>3. n <= Len(old) \/ n > Len(old)
    BY <1>4, <1>5
  <2> QED
    BY <2>1, <2>2, <2>3, Zenon
<1>7. ASSUME NEW j \in 0 .. k PROVE Begins(Layout(First(c, j)), new)
  <2>1. CASE j = k
    BY <1>5, <2>1 DEF Begins, new
  <2>2. CASE j # k
    <3>1. j \in 0 .. k - 1
      BY <2>2
    <3>2. Begins(Layout(First(c, j)), old)
      BY <1>4, <3>1, Zenon
    <3> QED
      BY <1>3, <1>4, <1>5, <3>2 DEF Begins
  <2> QED
    BY <2>1, <2>2
<1>8. ASSUME NEW j \in 0 .. k - 1 PROVE Len(Layout(First(c, j))) < Len(new)
  <2>1. Begins(Layout(First(c, j)), old)
    BY <1>4, Zenon
  <2>2. CASE j = k - 1
    BY <1>3, <1>4, <1>5, <2>2 DEF old
  <2>3. CASE j # k - 1
    <3>1. j \in 0 .. k - 2
      BY <2>3
    <3>2. Len(Layout(First(c, j))) < Len(old)
      BY <1>4, <3>1, Zenon
    <3>3. First(c, j) \in Seq(Frameable)
      BY DEF First
    <3>4. Len(Layout(First(c, j))) <= Len(old)
      BY <2>1 DEF Begins
    <3> QED
      BY <1>3, <1>4, <1>5, <3>2
  <2> QED
    BY <2>2, <2>3
<1> QED
  BY <1>3, <1>4, <1>5, <1>6, <1>7, <1>8 DEF Lays, new

\* Every first part of a chain is laid out so.
LEMMA LaysAll ==
    ASSUME NEW c \in Seq(Frameable), NEW k \in 0 .. Len(c)
    PROVE  Lays(c, k)
<1> DEFINE bad == {j \in Nat : j <= Len(c) /\ ~Lays(c, j)}
<1> SUFFICES ASSUME bad # {} PROVE FALSE
  OBVIOUS
<1>1. PICK j \in bad : \A i \in bad : j <= i
  BY LeastNatural, Zenon
<1>2. j # 0
  BY <1>1, LaysNone
<1>3. j \in 1 .. Len(c) /\ j - 1 \in Nat /\ j - 1 <= Len(c) /\ j - 1 \notin bad
  BY <1>1, <1>2
<1>4. Lays(c, j - 1)
  BY <1>3
<1> QED
  BY <1>1, <1>3, <1>4, LaysNext

\* A chain that begins another is a first part of it.
LEMMA BeginsFirst ==
    ASSUME NEW S, NEW b \in Seq(S), NEW c \in Seq(S)
    PROVE  /\ Begins(b, c) => Len(b) \in 0 .. Len(c) /\ b = First(c, Len(b))
           /\ c = First(c, Len(c)) /\ Begins(c, c)
           /\ \A k \in 0 .. Len(c) : /\ First(c, k) \in Seq(S) /\ Len(First(c, k)) = k
                                     /\ Begins(First(c, k), c)
                                     /\ \A i \in 1 .. k : First(c, k)[i] = c[i]
<1>1. ASSUME Begins(b, c) PROVE Len(b) \in 0 .. Len(c) /\ b = First(c, Len(b))
  BY <1>1 DEF Begins, First
<1>2. c = First(c, Len(c)) /\ Begins(c, c)
  BY DEF Begins, First
<1>3. ASSUME NEW k \in 0 .. Len(c)
      PROVE  /\ First(c, k) \in Seq(S) /\ Len(First(c, k)) = k
             /\ Begins(First(c, k), c)
             /\ \A i \in 1 .. k : First(c, k)[i] = c[i]
  BY FirstPart DEF First
<1> QED
  BY <1>1, <1>2, <1>3

\* The same for chains.
LEMMA ChainFirst ==
    ASSUME NEW c \in Seq(Frameable), NEW k \in 0 .. Len(c)
    PROVE  /\ First(c, k) \in Seq(Frameable) /\ Len(First(c, k)) = k /\ Begins(First(c, k), c)
           /\ \A i \in 1 .. k : First(c, k)[i] = c[i]
BY FirstPart DEF First

\* The cells of a chain.
LEMMA LayoutCells ==
    ASSUME NEW c \in Seq(Frameable)
    PROVE  /\ Layout(c) \in Seq(CellType)
           /\ Len(Layout(c)) \in Nat /\ Len(Layout(c)) >= Len(c)
           /\ \A n \in 1 .. Len(Layout(c)) :
                 \E j \in 1 .. Len(c) : Layout(c)[n].chain = First(c, j)
<1>1. Len(c) \in 0 .. Len(c) /\ First(c, Len(c)) = c
  BY BeginsFirst
<1>2. Lays(c, Len(c))
  BY <1>1, LaysAll, Zenon
<1>3. /\ Layout(c) \in Seq(CellType) /\ Len(Layout(c)) >= Len(c)
      /\ \A n \in 1 .. Len(Layout(c)) :
                 \E j \in 1 .. Len(c) : Layout(c)[n].chain = First(c, j)
  BY <1>1, <1>2, Zenon DEF Lays
<1> QED
  BY <1>3

\* The cells of a prefix come first.
LEMMA LayoutBegins ==
    ASSUME NEW b \in Seq(Frameable), NEW c \in Seq(Frameable), Begins(b, c)
    PROVE  /\ Begins(Layout(b), Layout(c))
           /\ Len(b) < Len(c) => Len(Layout(b)) < Len(Layout(c))
<1>1. /\ Len(c) \in 0 .. Len(c) /\ First(c, Len(c)) = c
      /\ Len(b) \in 0 .. Len(c) /\ b = First(c, Len(b))
  BY BeginsFirst
<1>2. Lays(c, Len(c))
  BY <1>1, LaysAll, Zenon
<1>3. Len(b) < Len(c) => Len(b) \in 0 .. Len(c) - 1
  BY <1>1
<1> QED
  BY <1>1, <1>2, <1>3, Zenon DEF Lays

\* Two sequences, one after the other.
LEMMA Joined ==
    ASSUME NEW S, NEW s \in Seq(S), NEW t \in Seq(S)
    PROVE  /\ s \o t \in Seq(S)
           /\ Len(s) \in Nat /\ Len(t) \in Nat /\ Len(s \o t) = Len(s) + Len(t)
           /\ \A n \in 1 .. Len(s) : (s \o t)[n] = s[n]
           /\ \A n \in Len(s) + 1 .. Len(s) + Len(t) : (s \o t)[n] = t[n - Len(s)]
OBVIOUS

\* The layout of a chain and one record more, cell by cell.
LEMMA LayoutNext ==
    ASSUME NEW c \in Seq(Frameable), NEW r \in Frameable
    PROVE  /\ Append(c, r) \in Seq(Frameable)
           /\ FrameCells(r) \in Nat /\ FrameCells(r) > 1 /\ Len(Layout(c)) \in Nat
           /\ Len(Layout(Append(c, r))) = Len(Layout(c)) + FrameCells(r)
           /\ \A n \in 1 .. Len(Layout(c)) : Layout(Append(c, r))[n] = Layout(c)[n]
           /\ \A n \in Len(Layout(c)) + 1 .. Len(Layout(c)) + FrameCells(r) :
                 Layout(Append(c, r))[n] =
                     [chain |-> Append(c, r), part |-> n - Len(Layout(c))]
<1> DEFINE d == Append(c, r)
           f == Frame(d)
<1>1. d \in Seq(Frameable)
  OBVIOUS
<1>2. Layout(d) = Layout(c) \o f
  BY LayoutAppend, Zenon
<1>3. /\ f \in Seq(CellType) /\ Len(f) = FrameCells(r)
      /\ FrameCells(r) \in Nat /\ FrameCells(r) > 1
      /\ \A n \in 1 .. FrameCells(r) : f[n] = [chain |-> d, part |-> n]
  BY FrameShape, Zenon
<1>4. Layout(c) \in Seq(CellType)
  BY LayoutCells, Zenon
<1> DEFINE x == Layout(c)
           y == Layout(d)
<1> HIDE DEF d, f, x, y
<1>5. /\ Len(x) \in Nat /\ Len(y) = Len(x) + FrameCells(r)
      /\ \A n \in 1 .. Len(x) : y[n] = x[n]
      /\ \A n \in Len(x) + 1 .. Len(x) + FrameCells(r) : y[n] = f[n - Len(x)]
  <2>1. x \in Seq(CellType) /\ y = x \o f
    BY <1>2, <1>4 DEF x, y
  <2>2. f \in Seq(CellType) /\ Len(f) = FrameCells(r)
    BY <1>3
  <2>3. /\ Len(x) \in Nat /\ Len(x \o f) = Len(x) + Len(f)
        /\ \A n \in 1 .. Len(x) : (x \o f)[n] = x[n]
        /\ \A n \in Len(x) + 1 .. Len(x) + Len(f) : (x \o f)[n] = f[n - Len(x)]
    BY <2>1, <2>2, Joined, Zenon
  <2> QED
    BY <2>1, <2>2, <2>3, Zenon
<1>6. ASSUME NEW n \in Len(x) + 1 .. Len(x) + FrameCells(r)
      PROVE  y[n] = [chain |-> d, part |-> n - Len(x)]
  <2>1. n - Len(x) \in 1 .. FrameCells(r)
    BY <1>3, <1>5
  <2> QED
    BY <1>3, <1>5, <2>1, Zenon
<1> QED
  BY <1>1, <1>3, <1>5, <1>6, Zenon DEF d, x, y

\* The last cell of a chain names it.
LEMMA LastCell ==
    ASSUME NEW c \in Seq(Frameable), Len(c) # 0
    PROVE  Len(Layout(c)) > 0 /\ Layout(c)[Len(Layout(c))].chain = c
<1> DEFINE k == Len(c)
           b == First(c, k - 1)
           n == Len(Layout(c))
<1>1. k \in 1 .. Len(c) /\ First(c, k) = c
  BY BeginsFirst
<1>2. b \in Seq(Frameable) /\ c[k] \in Frameable /\ c = Append(b, c[k])
  BY <1>1, FirstNext, Zenon
<1> HIDE DEF k, b
<1>3. /\ FrameCells(c[k]) \in Nat /\ FrameCells(c[k]) > 1 /\ Len(Layout(b)) \in Nat
      /\ n = Len(Layout(b)) + FrameCells(c[k])
      /\ \A i \in Len(Layout(b)) + 1 .. Len(Layout(b)) + FrameCells(c[k]) :
            Layout(c)[i] = [chain |-> c, part |-> i - Len(Layout(b))]
  <2> DEFINE r == c[k]
             d == Append(b, r)
  <2>1. /\ FrameCells(r) \in Nat /\ FrameCells(r) > 1 /\ Len(Layout(b)) \in Nat
        /\ Len(Layout(d)) = Len(Layout(b)) + FrameCells(r)
        /\ \A i \in Len(Layout(b)) + 1 .. Len(Layout(b)) + FrameCells(r) :
              Layout(d)[i] = [chain |-> d, part |-> i - Len(Layout(b))]
    BY <1>2, LayoutNext, ZenonT(60)
  <2>2. c = d
    BY <1>2
  <2> HIDE DEF r, d
  <2> QED
    BY <2>1, <2>2 DEF r
<1> HIDE DEF n
<1>4. n > 0 /\ n \in Len(Layout(b)) + 1 .. Len(Layout(b)) + FrameCells(c[k])
  BY <1>3
<1>5. Layout(c)[n] = [chain |-> c, part |-> n - Len(Layout(b))]
  BY <1>3, <1>4, Zenon
<1>6. Layout(c)[n].chain = c
  BY <1>5
<1> QED
  BY <1>4, <1>6 DEF n

-----------------------------------------------------------------------------
(***************************************************************************)
(* What the scan of an open finds. A chain is committed if all its frames  *)
(* are in the file and what follows can be at most one complete record     *)
(* more: the tail of a write that was not acknowledged, or what such a     *)
(* tail was written over.                                                  *)
(***************************************************************************)
\* What is written at the beginning of a file.
Written(c, cells) == Begins(Layout(c), cells)

\* Of two chains at the beginning of a file, the shorter begins the longer.
LEMMA OneFile ==
    ASSUME NEW cells, NEW c \in Seq(Frameable), NEW d \in Seq(Frameable),
           Written(c, cells), Written(d, cells), Len(c) <= Len(d)
    PROVE  Begins(c, d)
<1> DEFINE m == Len(Layout(c))
           n == Len(Layout(d))
<1>0. /\ m \in Nat /\ n \in Nat
      /\ \A i \in 1 .. m : \E j \in 1 .. Len(c) : Layout(c)[i].chain = First(c, j)
      /\ \A i \in 1 .. n : \E j \in 1 .. Len(d) : Layout(d)[i].chain = First(d, j)
  BY LayoutCells, Zenon
<1>1. /\ \A i \in 1 .. m : Layout(c)[i] = cells[i]
      /\ \A i \in 1 .. n : Layout(d)[i] = cells[i]
  BY Zenon DEF Written, Begins
<1>2. CASE Len(c) = 0
  BY <1>2 DEF Begins
<1>3. CASE Len(c) # 0 /\ m <= n
  <2>1. m > 0 /\ Layout(c)[m].chain = c
    BY <1>3, LastCell, Zenon
  <2> HIDE DEF m, n
  <2>2. m \in 1 .. m /\ m \in 1 .. n
    BY <1>0, <1>3, <2>1
  <2>3. PICK j \in 1 .. Len(d) : c = First(d, j)
    BY <1>0, <1>1, <2>1, <2>2, Zenon
  <2>4. j \in 0 .. Len(d)
    OBVIOUS
  <2> QED
    BY <2>3, <2>4, BeginsFirst, Zenon
<1>4. CASE Len(c) # 0 /\ n < m
  <2>0. Len(d) # 0
    BY <1>4
  <2>1. n > 0 /\ Layout(d)[n].chain = d
    BY <2>0, LastCell, Zenon
  <2> HIDE DEF m, n
  <2>2. n \in 1 .. m /\ n \in 1 .. n
    BY <1>0, <1>4, <2>1
  <2>3. PICK j \in 1 .. Len(c) : d = First(c, j)
    BY <1>0, <1>1, <2>1, <2>2, Zenon
  <2>4. j \in 0 .. Len(c)
    OBVIOUS
  <2>5. Len(d) = j /\ \A i \in 1 .. j : d[i] = c[i]
    BY <2>3, <2>4, ChainFirst, Zenon
  <2> QED
    BY <2>4, <2>5 DEF Begins
<1> HIDE DEF m, n
<1> QED
  BY <1>0, <1>2, <1>3, <1>4

\* The scan finds the longest chain at the beginning of the file.
LEMMA LoadedLongest ==
    ASSUME NEW cells \in Seq(CellType)
    PROVE  /\ Loaded(cells) \in Seq(Frameable) /\ Written(Loaded(cells), cells)
           /\ \A c \in Seq(Frameable) : Written(c, cells) => Len(c) <= Len(Loaded(cells))
<1> DEFINE found == {<< >>} \cup {cells[n].chain : n \in DOMAIN cells}
           intact == {c \in found : IsPrefix(Layout(c), cells)}
           longest(c) == \A d \in intact : Len(d) <= Len(c)
<1>1. /\ DOMAIN cells = 1 .. Len(cells) /\ Len(cells) \in Nat
      /\ \A n \in 1 .. Len(cells) : cells[n] \in CellType
  OBVIOUS
<1>2. found \subseteq Seq(Frameable)
  <2>1. \A n \in 1 .. Len(cells) : cells[n].chain \in Seq(Frameable)
    BY <1>1 DEF CellType
  <2>2. << >> \in Seq(Frameable)
    OBVIOUS
  <2> QED
    BY <1>1, <2>1, <2>2, Zenon
<1>3. ASSUME NEW c \in Seq(Frameable) PROVE IsPrefix(Layout(c), cells) <=> Written(c, cells)
  <2>1. Layout(c) \in Seq(CellType)
    BY LayoutCells, Zenon
  <2> QED
    BY <2>1, PrefixBegins, Zenon DEF Written
<1>4. \A c \in intact : c \in Seq(Frameable) /\ Written(c, cells)
  BY <1>2, <1>3
<1>5. ASSUME NEW c \in Seq(Frameable), Written(c, cells) PROVE c \in intact
  <2>1. CASE Len(c) = 0
    <3>1. c = << >>
      BY <2>1
    <3> QED
      BY <1>3, <1>5, <3>1, Zenon
  <2>2. CASE Len(c) # 0
    <3> DEFINE k == Len(Layout(c))
    <3>1. k > 0 /\ Layout(c)[k].chain = c
      BY <2>2, LastCell, Zenon
    <3>2. k \in Nat
      BY LayoutCells, Zenon
    <3>3. k <= Len(cells) /\ \A i \in 1 .. k : Layout(c)[i] = cells[i]
      BY <1>5, Zenon DEF Written, Begins
    <3> HIDE DEF k
    <3>4. k \in 1 .. k /\ k \in DOMAIN cells
      BY <1>1, <3>1, <3>2, <3>3
    <3>5. cells[k].chain = c
      BY <3>1, <3>3, <3>4, Zenon
    <3>6. c \in found
      BY <3>4, <3>5
    <3> QED
      BY <1>3, <1>5, <3>6
  <2> QED
    BY <2>1, <2>2
<1>6. << >> \in intact
  <2>1. << >> \in Seq(Frameable) /\ Len(<< >>) = 0
    OBVIOUS
  <2>2. Written(<< >>, cells)
    BY <1>1, <2>1, LayoutEmpty DEF Written, Begins
  <2> QED
    BY <1>5, <2>1, <2>2, Zenon
<1> HIDE DEF found, intact
<1>7. ASSUME NEW c \in intact PROVE Len(c) \in Nat /\ Len(c) <= Len(cells)
  <2>1. c \in Seq(Frameable) /\ Written(c, cells)
    BY <1>4, Zenon
  <2>2. Len(Layout(c)) \in Nat /\ Len(Layout(c)) >= Len(c) /\ Len(Layout(c)) <= Len(cells)
    BY <2>1, LayoutCells, Zenon DEF Written, Begins
  <2> QED
    BY <1>1, <2>1, <2>2
<1>8. \E c \in intact : longest(c)
  <2> DEFINE gap(c) == Len(cells) - Len(c)
             gaps == {gap(c) : c \in intact}
  <2>1. gaps \in SUBSET Nat /\ gaps # {}
    BY <1>1, <1>6, <1>7
  <2>2. PICK g \in gaps : \A h \in gaps : g <= h
    BY <2>1, LeastNatural, Zenon
  <2>3. PICK c \in intact : g = gap(c)
    BY <2>2, Zenon
  <2>4. \A d \in intact : gap(c) <= gap(d)
    BY <2>2, <2>3, Zenon
  <2>5. \A d \in intact : Len(d) <= Len(c)
    BY <1>1, <1>7, <2>4
  <2> QED
    BY <2>5
<1>9. Loaded(cells) = CHOOSE c \in intact : longest(c)
  BY DEF Loaded, found, intact
<1>10. Loaded(cells) \in intact /\ longest(Loaded(cells))
  BY <1>8, <1>9, Zenon
<1> QED
  BY <1>4, <1>5, <1>10, Zenon

\* The file holds a chain.  What follows it continues it by at most one record, and then
\* in its place: the rest of a failed append, whole or in pieces.
Committed(c, cells) ==
    /\ Written(c, cells)
    /\ \A n \in 1 .. Len(cells) :
          n > Len(Layout(c)) /\ Begins(c, cells[n].chain) /\ Len(c) < Len(cells[n].chain) =>
              /\ cells[n].part = n - Len(Layout(c))
              /\ Len(cells[n].chain) = Len(c) + 1 /\ cells[n].chain[Len(c) + 1] \in Records

\* d is c, or c and one record.
OneMore(c, d) ==
    /\ Begins(c, d)
    /\ \/ d = c
       \/ Len(d) = Len(c) + 1 /\ d[Len(c) + 1] \in Records

\* An open finds the chain, or with it the record of a failed append.
LEMMA LoadedCommitted ==
    ASSUME NEW cells \in Seq(CellType), NEW c \in Seq(Frameable), Committed(c, cells)
    PROVE  OneMore(c, Loaded(cells))
<1> DEFINE d == Loaded(cells)
           k == Len(Layout(d))
<1>1. d \in Seq(Frameable) /\ Written(d, cells) /\ Written(c, cells) /\ Len(c) <= Len(d)
  BY LoadedLongest, Zenon DEF Committed
<1>2. Begins(c, d)
  BY <1>1, OneFile, Zenon
<1> SUFFICES OneMore(c, d)
  OBVIOUS
<1> HIDE DEF d
<1>3. CASE Len(c) = Len(d)
  <2>1. d = c
    BY <1>1, <1>2, <1>3 DEF Begins
  <2> QED
    BY <1>2, <2>1 DEF OneMore
<1>4. CASE Len(c) # Len(d)
  <2>0. Len(c) < Len(d) /\ Len(d) # 0
    BY <1>1, <1>4
  <2>1. k > 0 /\ Layout(d)[k].chain = d
    BY <1>1, <2>0, LastCell, Zenon
  <2>2. Len(Layout(c)) < k /\ k \in Nat
    BY <1>1, <1>2, <2>0, LayoutBegins, LayoutCells, Zenon
  <2>3. k <= Len(cells) /\ \A i \in 1 .. k : Layout(d)[i] = cells[i]
    BY <1>1, Zenon DEF Written, Begins
  <2> HIDE DEF k
  <2>4. k \in 1 .. k /\ k \in 1 .. Len(cells)
    BY <2>1, <2>2, <2>3
  <2>5. cells[k].chain = d
    BY <2>1, <2>3, <2>4, Zenon
  <2>6. Len(Layout(c)) \in Nat
    BY LayoutCells, Zenon
  <2>7. k > Len(Layout(c))
    BY <2>2, <2>6
  <2>8. Len(d) = Len(c) + 1 /\ d[Len(c) + 1] \in Records
    BY <1>2, <2>0, <2>4, <2>5, <2>7, Zenon DEF Committed
  <2> QED
    BY <1>2, <2>8, Zenon DEF OneMore
<1> QED
  BY <1>3, <1>4

\* A chain and one record more.
LEMMA AppendBegins ==
    ASSUME NEW S, NEW c \in Seq(S), NEW r \in S
    PROVE  /\ Append(c, r) \in Seq(S) /\ Len(Append(c, r)) = Len(c) + 1
           /\ Append(c, r)[Len(c) + 1] = r /\ Begins(c, Append(c, r))
           /\ \A d \in Seq(S) : Begins(c, d) /\ Len(d) = Len(c) + 1 => d = Append(c, d[Len(c) + 1])
BY DEF Begins

\* What begins a chain begins what the chain begins.
LEMMA BeginsTwice ==
    ASSUME NEW S, NEW b \in Seq(S), NEW c \in Seq(S), NEW d \in Seq(S)
    PROVE  /\ Begins(b, c) /\ Begins(c, d) => Begins(b, d)
           /\ Begins(b, d) /\ Begins(c, d) /\ Len(b) <= Len(c) => Begins(b, c)
           /\ Begins(b, c) /\ Len(b) = Len(c) => b = c
<1>1. Begins(b, c) /\ Begins(c, d) => Begins(b, d)
  BY DEF Begins
<1>2. Begins(b, d) /\ Begins(c, d) /\ Len(b) <= Len(c) => Begins(b, c)
  BY DEF Begins
<1>3. Begins(b, c) /\ Len(b) = Len(c) => b = c
  BY DEF Begins
<1> QED
  BY <1>1, <1>2, <1>3

\* A cell names a chain.
LEMMA CellChain ==
    ASSUME NEW cells \in Seq(CellType), NEW n \in 1 .. Len(cells)
    PROVE  cells[n].chain \in Seq(Frameable)
<1>1. cells[n] \in CellType
  OBVIOUS
<1> QED
  BY <1>1, Zenon DEF CellType

\* Once a further frame is complete, the file holds the longer chain.
LEMMA NextCommitted ==
    ASSUME NEW cells \in Seq(CellType), NEW c \in Seq(Frameable), NEW r \in Records,
           Committed(c, cells), Written(Append(c, r), cells)
    PROVE  Loaded(cells) = Append(c, r) /\ Committed(Append(c, r), cells)
<1> DEFINE d == Append(c, r)
           l == Loaded(cells)
<1>1. /\ d \in Seq(Frameable) /\ Len(d) = Len(c) + 1 /\ Begins(c, d) /\ Len(c) \in Nat
  BY AppendBegins DEF Frameable
<1>2. l \in Seq(Frameable) /\ Written(l, cells) /\ OneMore(c, l) /\ Len(d) <= Len(l)
  BY <1>1, LoadedLongest, LoadedCommitted, Zenon
<1> SUFFICES l = d /\ Committed(d, cells)
  OBVIOUS
<1>3. Written(d, cells)
  OBVIOUS
<1> HIDE DEF d, l
<1>4. Len(l) = Len(d)
  BY <1>1, <1>2 DEF OneMore
<1>5. l = d
  <2>1. Begins(d, l)
    BY <1>1, <1>2, <1>3, OneFile, Zenon
  <2> QED
    BY <1>1, <1>2, <1>4, <2>1, BeginsTwice
<1>6. ASSUME NEW n \in 1 .. Len(cells), n > Len(Layout(d)), Begins(d, cells[n].chain),
             Len(d) < Len(cells[n].chain)
      PROVE  FALSE
  <2>1. cells[n].chain \in Seq(Frameable)
    BY CellChain, Zenon
  <2>2. Len(Layout(c)) < Len(Layout(d)) /\ Len(Layout(c)) \in Nat /\ Len(Layout(d)) \in Nat
    <3>1. Len(c) < Len(d)
      BY <1>1
    <3> QED
      BY <1>1, <3>1, LayoutBegins, LayoutCells, Zenon
  <2>3. n > Len(Layout(c))
    BY <1>6, <2>2
  <2>4. Begins(c, cells[n].chain)
    BY <1>1, <1>6, <2>1, BeginsTwice
  <2>5. Len(c) < Len(cells[n].chain)
    BY <1>1, <1>6, <2>1
  <2>6. Len(cells[n].chain) = Len(c) + 1
    BY <2>3, <2>4, <2>5, Zenon DEF Committed
  <2> QED
    BY <1>1, <1>6, <2>6
<1> QED
  BY <1>3, <1>5, <1>6, Zenon DEF Committed

\* A file of the frames of a chain and nothing else.
LEMMA ExactCommitted ==
    ASSUME NEW c \in Seq(Frameable)
    PROVE  Committed(c, Layout(c)) /\ Loaded(Layout(c)) = c
<1> DEFINE cells == Layout(c)
           l == Loaded(cells)
<1>1. cells \in Seq(CellType) /\ Len(cells) \in Nat
  BY LayoutCells, Zenon
<1>2. Written(c, cells)
  BY <1>1 DEF Written, Begins
<1>3. \A n \in 1 .. Len(cells) : ~(n > Len(cells))
  BY <1>1
<1>4. Committed(c, cells)
  BY <1>2, <1>3, Zenon DEF Committed
<1>5. OneMore(c, l) /\ l \in Seq(Frameable) /\ Written(l, cells)
  BY <1>1, <1>4, LoadedLongest, LoadedCommitted, Zenon
<1>6. Len(Layout(l)) <= Len(cells)
  BY <1>5 DEF Written, Begins
<1>7. ~(Len(c) < Len(l))
  <2> SUFFICES ASSUME Len(c) < Len(l) PROVE FALSE
    OBVIOUS
  <2>1. Len(Layout(c)) < Len(Layout(l)) /\ Len(Layout(l)) \in Nat
    BY <1>5, LayoutBegins, LayoutCells, Zenon DEF OneMore
  <2> QED
    BY <1>1, <1>6, <2>1
<1>8. l = c
  BY <1>5, <1>7 DEF OneMore
<1> QED
  BY <1>4, <1>8

-----------------------------------------------------------------------------
(***************************************************************************)
(* What a write, and what a power loss, leave of a committed chain.        *)
(***************************************************************************)
\* What a write leaves in each cell.
LEMMA OverlayAt ==
    ASSUME NEW S, NEW cells \in Seq(S), NEW data \in Seq(S),
           NEW offset \in 0 .. Len(cells), NEW n \in 0 .. Len(data),
           NEW new, new = Overlay(cells, offset, data, n)
    PROVE  /\ new \in Seq(S)
           /\ Len(new) >= offset + n /\ (Len(new) = offset + n \/ Len(new) = Len(cells))
           /\ Len(new) >= Len(cells)
           /\ \A i \in 1 .. offset : new[i] = cells[i]
           /\ \A i \in offset + 1 .. offset + n : new[i] = data[i - offset]
           /\ \A i \in offset + n + 1 .. Len(new) : i <= Len(cells) /\ new[i] = cells[i]
<1> DEFINE a == SubSeq(cells, 1, offset)
           b == SubSeq(data, 1, n)
           t == SubSeq(cells, offset + n + 1, Len(cells))
<1>0. Len(cells) \in Nat /\ offset \in Nat /\ n \in Nat
  OBVIOUS
<1>1. a \in Seq(S) /\ Len(a) = offset /\ \A i \in 1 .. offset : a[i] = cells[i]
  OBVIOUS
<1>2. b \in Seq(S) /\ Len(b) = n /\ \A i \in 1 .. n : b[i] = data[i]
  OBVIOUS
<1>3. /\ t \in Seq(S) /\ Len(t) \in Nat
      /\ \/ Len(t) = 0 /\ Len(cells) <= offset + n
         \/ Len(t) = Len(cells) - (offset + n)
      /\ \A i \in 1 .. Len(t) : t[i] = cells[offset + n + i]
  OBVIOUS
<1>4. new = (a \o b) \o t
  <2> DEFINE hole == [i \in 1 .. offset - Len(cells) |-> Rot]
  <2>1. hole = << >>
    BY <1>0
  <2> HIDE DEF hole
  <2>2. cells \o hole = cells
    BY <2>1
  <2>3. new = (SubSeq(cells \o hole, 1, offset) \o SubSeq(data, 1, n))
                  \o SubSeq(cells, offset + n + 1, Len(cells))
    BY Zenon DEF Overlay, hole
  <2> QED
    BY <2>2, <2>3, Zenon
<1> HIDE DEF a, b, t
<1>5. /\ a \o b \in Seq(S) /\ Len(a \o b) = offset + n
      /\ \A i \in 1 .. offset : (a \o b)[i] = a[i]
      /\ \A i \in offset + 1 .. offset + n : (a \o b)[i] = b[i - offset]
  <2>0. a \in Seq(S) /\ b \in Seq(S)
    BY <1>1, <1>2
  <2>1. /\ a \o b \in Seq(S) /\ Len(a \o b) = Len(a) + Len(b)
        /\ \A i \in 1 .. Len(a) : (a \o b)[i] = a[i]
        /\ \A i \in Len(a) + 1 .. Len(a) + Len(b) : (a \o b)[i] = b[i - Len(a)]
    BY <2>0, Joined, Zenon
  <2> QED
    BY <1>1, <1>2, <2>1, Zenon
<1> DEFINE m == a \o b
<1> HIDE DEF m
<1>6. /\ m \in Seq(S) /\ Len(m) = offset + n
      /\ \A i \in 1 .. offset : m[i] = cells[i]
      /\ \A i \in offset + 1 .. offset + n : m[i] = data[i - offset]
  BY <1>0, <1>1, <1>2, <1>5 DEF m
<1>7. /\ new \in Seq(S) /\ Len(new) = offset + n + Len(t)
      /\ \A i \in 1 .. offset + n : new[i] = m[i]
      /\ \A i \in offset + n + 1 .. offset + n + Len(t) : new[i] = t[i - (offset + n)]
  <2>1. new = m \o t
    BY <1>4 DEF m
  <2>2. /\ m \o t \in Seq(S) /\ Len(m \o t) = Len(m) + Len(t)
        /\ \A i \in 1 .. Len(m) : (m \o t)[i] = m[i]
        /\ \A i \in Len(m) + 1 .. Len(m) + Len(t) : (m \o t)[i] = t[i - Len(m)]
    BY <1>3, <1>6, Joined, ZenonT(40)
  <2> QED
    BY <1>6, <2>1, <2>2, Zenon
<1>8. /\ Len(new) >= offset + n /\ Len(new) >= Len(cells)
      /\ Len(new) = offset + n \/ Len(new) = Len(cells)
  <2>1. Len(new) = offset + n + Len(t) /\ Len(t) \in Nat
    BY <1>3, <1>7, Zenon
  <2>2. (Len(t) = 0 /\ Len(cells) <= offset + n) \/ Len(t) = Len(cells) - (offset + n)
    BY <1>3, Zenon
  <2> QED
    BY <1>0, <2>1, <2>2
<1>9. ASSUME NEW i \in 1 .. offset PROVE new[i] = cells[i]
  <2>1. i \in 1 .. offset + n
    BY <1>0
  <2> QED
    BY <1>6, <1>7, <2>1, Zenon
<1>10. ASSUME NEW i \in offset + 1 .. offset + n PROVE new[i] = data[i - offset]
  <2>1. i \in 1 .. offset + n
    BY <1>0
  <2> QED
    BY <1>6, <1>7, <2>1, Zenon
<1>11. ASSUME NEW i \in offset + n + 1 .. Len(new) PROVE i <= Len(cells) /\ new[i] = cells[i]
  <2>1. i \in offset + n + 1 .. offset + n + Len(t)
    BY <1>7
  <2>2. i - (offset + n) \in 1 .. Len(t) /\ offset + n + (i - (offset + n)) = i
    BY <1>0, <1>3, <2>1
  <2>3. new[i] = cells[offset + n + (i - (offset + n))]
    BY <1>3, <1>7, <2>1, <2>2, Zenon
  <2> QED
    BY <1>0, <1>3, <2>1, <2>2, <2>3
<1> QED
  BY <1>7, <1>8, <1>9, <1>10, <1>11

\* Writing a frame, or the beginning of one, behind the chain keeps the chain.
LEMMA WriteCommitted ==
    ASSUME NEW cells \in Seq(CellType), NEW c \in Seq(Frameable), NEW r \in Records,
           Committed(c, cells), NEW n \in 0 .. FrameCells(r),
           NEW new, new = Overlay(cells, Len(Layout(c)), Frame(Append(c, r)), n)
    PROVE  /\ new \in Seq(CellType) /\ Committed(c, new)
           /\ n = FrameCells(r) => Written(Append(c, r), new)
<1> DEFINE d == Append(c, r)
           f == Frame(d)
           k == Len(Layout(c))
<1>1. r \in Frameable /\ d \in Seq(Frameable) /\ Len(d) = Len(c) + 1
      /\ d[Len(c) + 1] \in Records /\ Len(c) \in Nat
  BY AppendBegins DEF Frameable
<1>2. /\ f \in Seq(CellType) /\ Len(f) = FrameCells(r) /\ FrameCells(r) \in Nat
      /\ \A i \in 1 .. FrameCells(r) : f[i] = [chain |-> d, part |-> i]
  BY <1>1, FrameShape, Zenon
<1>3. /\ k <= Len(cells) /\ \A i \in 1 .. k : Layout(c)[i] = cells[i]
  BY Zenon DEF Committed, Written, Begins
<1>4. k \in Nat
  BY LayoutCells, Zenon
<1>12. new = Overlay(cells, k, f, n)
  OBVIOUS
<1> HIDE DEF d, f, k
<1>5. k \in 0 .. Len(cells) /\ n \in 0 .. Len(f)
  BY <1>2, <1>3, <1>4
<1>6. /\ new \in Seq(CellType)
      /\ Len(new) >= k + n /\ (Len(new) = k + n \/ Len(new) = Len(cells))
      /\ \A i \in 1 .. k : new[i] = cells[i]
      /\ \A i \in k + 1 .. k + n : new[i] = f[i - k]
      /\ \A i \in k + n + 1 .. Len(new) : i <= Len(cells) /\ new[i] = cells[i]
  BY <1>2, <1>5, <1>12, OverlayAt
<1>7. \A i \in k + 1 .. k + n : new[i] = [chain |-> d, part |-> i - k]
  <2> SUFFICES ASSUME NEW i \in k + 1 .. k + n PROVE new[i] = [chain |-> d, part |-> i - k]
    OBVIOUS
  <2>1. i - k \in 1 .. FrameCells(r)
    BY <1>2, <1>4
  <2> QED
    BY <1>2, <1>6, <2>1, Zenon
<1>8. Written(c, new)
  <2>1. k <= Len(new)
    BY <1>4, <1>6
  <2>2. \A i \in 1 .. k : Layout(c)[i] = new[i]
    BY <1>3, <1>6, Zenon
  <2> QED
    BY <2>1, <2>2 DEF Written, Begins, k
<1>9. ASSUME NEW i \in 1 .. Len(new), i > k, Begins(c, new[i].chain), Len(c) < Len(new[i].chain)
      PROVE  /\ new[i].part = i - k
             /\ Len(new[i].chain) = Len(c) + 1 /\ new[i].chain[Len(c) + 1] \in Records
  <2>1. CASE i <= k + n
    <3>1. i \in k + 1 .. k + n
      BY <1>4, <1>9, <2>1
    <3>2. new[i] = [chain |-> d, part |-> i - k]
      BY <1>7, <3>1, Zenon
    <3>3. new[i].chain = d /\ new[i].part = i - k
      BY <3>2
    <3> QED
      BY <1>1, <3>3, Zenon
  <2>2. CASE i > k + n
    <3>1. i \in k + n + 1 .. Len(new)
      BY <1>4, <2>2
    <3>2. new[i] = cells[i] /\ i <= Len(cells)
      BY <1>6, <3>1, Zenon
    <3>3. i \in 1 .. Len(cells)
      BY <3>2
    <3> QED
      BY <1>9, <3>2, <3>3, Zenon DEF Committed, k
  <2>3. i <= k + n \/ i > k + n
    BY <1>4
  <2> QED
    BY <2>1, <2>2, <2>3, Zenon
<1>10. Committed(c, new)
  BY <1>8, <1>9, Zenon DEF Committed, k
<1>11. ASSUME n = FrameCells(r) PROVE Written(d, new)
  <2>1. /\ Len(Layout(d)) = k + n
        /\ \A i \in 1 .. k : Layout(d)[i] = Layout(c)[i]
        /\ \A i \in k + 1 .. k + n : Layout(d)[i] = [chain |-> d, part |-> i - k]
    BY <1>1, <1>11, LayoutNext, Zenon DEF d, k
  <2>2. ASSUME NEW i \in 1 .. k + n PROVE Layout(d)[i] = new[i]
    <3>1. i \in 1 .. k \/ i \in k + 1 .. k + n
      BY <1>4
    <3> QED
      BY <1>3, <1>6, <1>7, <2>1, <3>1, Zenon
  <2> QED
    BY <1>6, <2>1, <2>2, Zenon DEF Written, Begins
<1> QED
  BY <1>6, <1>10, <1>11, Zenon DEF d

\* The longest first part of c, from b on, that fits into n cells.
LEMMA LongestFit ==
    ASSUME NEW b \in Seq(Frameable), NEW c \in Seq(Frameable), Begins(b, c),
           NEW n \in Nat, Len(Layout(b)) <= n
    PROVE  \E k \in Len(b) .. Len(c) :
              /\ Len(Layout(First(c, k))) <= n
              /\ k < Len(c) => Len(Layout(First(c, k + 1))) > n
<1> DEFINE fits(k) == k \in Len(b) .. Len(c) /\ Len(Layout(First(c, k))) <= n
           gaps == {g \in Nat : g <= Len(c) /\ fits(Len(c) - g)}
<1>1. Len(b) \in Nat /\ Len(c) \in Nat /\ Len(b) <= Len(c) /\ b = First(c, Len(b))
  BY BeginsFirst
<1>2. fits(Len(b))
  BY <1>1
<1>3. \A k \in Nat : k <= Len(c) => Len(Layout(First(c, k))) \in Nat
  <2> SUFFICES ASSUME NEW k \in Nat, k <= Len(c) PROVE Len(Layout(First(c, k))) \in Nat
    OBVIOUS
  <2>1. k \in 0 .. Len(c)
    BY <1>1
  <2>2. First(c, k) \in Seq(Frameable)
    BY <2>1, BeginsFirst, Zenon
  <2> QED
    BY <2>2, LayoutCells, Zenon
<1>4. gaps \in SUBSET Nat /\ gaps # {}
  <2>1. Len(c) - Len(b) \in Nat /\ Len(c) - Len(b) <= Len(c) /\ Len(c) - (Len(c) - Len(b)) = Len(b)
    BY <1>1
  <2>2. fits(Len(c) - (Len(c) - Len(b)))
    BY <1>2, <2>1
  <2> HIDE DEF fits
  <2> QED
    BY <2>1, <2>2, Zenon
<1>5. PICK g \in gaps : \A h \in gaps : g <= h
  BY <1>4, LeastNatural, Zenon
<1> DEFINE k == Len(c) - g
<1>6. g \in Nat /\ g <= Len(c) /\ fits(k)
  BY <1>5
<1>7. ASSUME k < Len(c) PROVE Len(Layout(First(c, k + 1))) > n
  <2>1. g - 1 \in Nat /\ g - 1 <= Len(c) /\ Len(c) - (g - 1) = k + 1 /\ ~(g <= g - 1)
    BY <1>1, <1>6, <1>7
  <2>2. g - 1 \notin gaps
    BY <1>5, <2>1, Zenon
  <2>3. ~fits(Len(c) - (g - 1))
    <3> HIDE DEF fits
    <3> QED
      BY <2>1, <2>2
  <2>4. ~fits(k + 1)
    BY <2>1, <2>3
  <2>5. k + 1 \in Len(b) .. Len(c) /\ k + 1 \in Nat /\ k + 1 <= Len(c)
    BY <1>1, <1>6, <1>7
  <2> QED
    BY <1>3, <2>4, <2>5
<1> QED
  BY <1>6, <1>7, Zenon

\* A power loss leaves a first part of the new cells over the old ones: the file then
\* holds a chain between the one that was on the disk and the one that was not yet.
LEMMA MixCommitted ==
    ASSUME NEW new \in Seq(CellType), NEW old \in Seq(CellType),
           NEW b \in Seq(Frameable), NEW c \in Seq(Frameable), Begins(b, c),
           \A k \in Len(b) + 1 .. Len(c) : c[k] \in Records,
           Committed(c, new), Committed(b, old), NEW n \in 0 .. Len(new),
           NEW mix, mix = Overlay(old, 0, new, n)
    PROVE  /\ mix \in Seq(CellType)
           /\ \E d \in Seq(Frameable) : Begins(b, d) /\ Begins(d, c) /\ Committed(d, mix)
<1>1. /\ mix \in Seq(CellType)
      /\ Len(mix) >= n /\ Len(mix) >= Len(old)
      /\ \A i \in 1 .. n : mix[i] = new[i]
      /\ \A i \in n + 1 .. Len(mix) : i <= Len(old) /\ mix[i] = old[i]
  <2>0. 0 \in 0 .. Len(old)
    OBVIOUS
  <2>1. /\ mix \in Seq(CellType)
        /\ Len(mix) >= 0 + n /\ Len(mix) >= Len(old)
        /\ \A i \in 0 + 1 .. 0 + n : mix[i] = new[i - 0]
        /\ \A i \in 0 + n + 1 .. Len(mix) : i <= Len(old) /\ mix[i] = old[i]
    BY <2>0, OverlayAt
  <2> QED
    BY <2>1
<1> DEFINE Size(x) == Len(Layout(x))
<1>2. Size(b) \in Nat /\ Size(c) \in Nat /\ n \in Nat
  <2>1. Size(b) \in Nat /\ Size(c) \in Nat
    BY LayoutCells, Zenon
  <2> QED
    BY <2>1
<1>3. /\ Size(c) <= Len(new) /\ \A i \in 1 .. Size(c) : Layout(c)[i] = new[i]
      /\ Size(b) <= Len(old) /\ \A i \in 1 .. Size(b) : Layout(b)[i] = old[i]
  BY Zenon DEF Committed, Written, Begins
<1>4. Size(b) <= Size(c) /\ \A i \in 1 .. Size(b) : Layout(b)[i] = Layout(c)[i]
  BY LayoutBegins, Zenon DEF Begins
<1> HIDE DEF Size
<1>5. CASE n <= Size(b)
  <2>1. Size(b) <= Len(mix)
    BY <1>1, <1>2, <1>3, <1>5
  <2>2. ASSUME NEW i \in 1 .. Size(b) PROVE Layout(b)[i] = mix[i]
    <3>1. CASE i \in 1 .. n
      <4>1. i \in 1 .. Size(c)
        BY <1>2, <1>4
      <4> QED
        BY <1>1, <1>3, <1>4, <3>1, <4>1, Zenon
    <3>2. CASE i \in n + 1 .. Len(mix)
      BY <1>1, <1>3, <3>2, Zenon
    <3>3. i \in 1 .. n \/ i \in n + 1 .. Len(mix)
      BY <1>1, <1>2, <2>1
    <3> QED
      BY <3>1, <3>2, <3>3, Zenon
  <2>3. Written(b, mix)
    BY <2>1, <2>2, Zenon DEF Written, Begins, Size
  <2>4. ASSUME NEW i \in 1 .. Len(mix), i > Size(b)
        PROVE  i \in 1 .. Len(old) /\ mix[i] = old[i]
    <3>1. i \in n + 1 .. Len(mix)
      BY <1>2, <1>5, <2>4
    <3>2. i <= Len(old) /\ mix[i] = old[i]
      BY <1>1, <3>1, Zenon
    <3> QED
      BY <3>2
  <2>5. Committed(b, mix)
    BY <2>3, <2>4, Zenon DEF Committed, Size
  <2>6. Begins(b, b)
    BY BeginsFirst, Zenon
  <2> QED
    BY <1>1, <2>5, <2>6, Zenon
<1>6. CASE Size(b) <= n
  <2>1. PICK k \in Len(b) .. Len(c) :
              /\ Size(First(c, k)) <= n
              /\ k < Len(c) => Size(First(c, k + 1)) > n
    <3>1. n \in Nat /\ Len(Layout(b)) <= n
      BY <1>2, <1>6 DEF Size
    <3>2. \E k \in Len(b) .. Len(c) :
              /\ Len(Layout(First(c, k))) <= n
              /\ k < Len(c) => Len(Layout(First(c, k + 1))) > n
      BY <3>1, LongestFit, Zenon
    <3> QED
      BY <3>2, Zenon DEF Size
  <2> DEFINE d == First(c, k)
  <2>2. Len(b) \in Nat /\ Len(c) \in Nat /\ Len(b) <= Len(c) /\ k \in 0 .. Len(c)
    BY DEF Begins
  <2>3. d \in Seq(Frameable) /\ Len(d) = k /\ Begins(d, c) /\ \A i \in 1 .. k : d[i] = c[i]
    BY <2>2, BeginsFirst
  <2> HIDE DEF d
  <2>4. Begins(b, d)
    BY <2>2, <2>3, BeginsTwice
  <2>5. /\ Size(d) \in Nat /\ Size(d) <= n /\ Size(b) <= Size(d) /\ Size(d) <= Size(c)
        /\ \A i \in 1 .. Size(d) : Layout(d)[i] = Layout(c)[i]
    BY <2>1, <2>3, <2>4, LayoutBegins, LayoutCells, Zenon DEF Begins, Size, d
  <2>6. ASSUME NEW i \in 1 .. Size(d) PROVE Layout(d)[i] = mix[i]
    <3>1. i \in 1 .. n /\ i \in 1 .. Size(c)
      BY <1>2, <2>5
    <3> QED
      BY <1>1, <1>3, <2>5, <3>1, Zenon
  <2>7. Written(d, mix)
    <3>1. Size(d) <= Len(mix)
      BY <1>1, <1>2, <2>5
    <3> QED
      BY <2>6, <3>1, Zenon DEF Written, Begins, Size
  <2>8. ASSUME NEW i \in 1 .. Len(mix), i > Size(d),
               Begins(d, mix[i].chain), Len(d) < Len(mix[i].chain)
        PROVE  /\ mix[i].part = i - Size(d)
               /\ Len(mix[i].chain) = Len(d) + 1 /\ mix[i].chain[Len(d) + 1] \in Records
    <3>0. mix[i].chain \in Seq(Frameable)
      BY <1>1, CellChain, Zenon
    <3>1. CASE i <= n /\ k = Len(c)
      <4>1. d = c
        BY <2>3, <3>1, BeginsTwice
      <4>2. i \in 1 .. n /\ i \in 1 .. Len(new)
        BY <3>1
      <4>3. mix[i] = new[i]
        BY <1>1, <4>2, Zenon
      <4> QED
        BY <2>8, <4>1, <4>2, <4>3, Zenon DEF Committed, Size
    <3>2. CASE i <= n /\ k # Len(c)
      <4> DEFINE e == First(c, k + 1)
                 r == c[k + 1]
      <4>1. /\ k + 1 \in 1 .. Len(c) /\ k + 1 \in 0 .. Len(c) /\ k + 1 \in Len(b) + 1 .. Len(c)
            /\ k < Len(c) /\ (k + 1) - 1 = k
        BY <2>2, <3>2
      <4>2. e = Append(d, r) /\ r \in Frameable /\ r \in Records
        BY <4>1, FirstNext DEF d
      <4>3. e \in Seq(Frameable) /\ Begins(e, c) /\ Len(e) = k + 1 /\ e[k + 1] = r
        <5>1. \A j \in 1 .. k + 1 : e[j] = c[j]
          BY <4>1, ChainFirst, Zenon
        <5>2. k + 1 \in 1 .. k + 1
          BY <2>2
        <5> QED
          BY <4>1, <5>1, <5>2, ChainFirst, Zenon
      <4>4. Size(e) > n
        BY <2>1, <4>1
      <4> HIDE DEF e, r
      <4>5. /\ FrameCells(r) \in Nat /\ Size(e) = Size(d) + FrameCells(r)
            /\ \A j \in Size(d) + 1 .. Size(d) + FrameCells(r) :
                  Layout(e)[j] = [chain |-> e, part |-> j - Size(d)]
        BY <2>3, <4>2, LayoutNext, Zenon DEF Size
      <4>6. Size(e) <= Size(c) /\ \A j \in 1 .. Size(e) : Layout(e)[j] = Layout(c)[j]
        BY <4>3, LayoutBegins, Zenon DEF Begins, Size
      <4>7. /\ i \in Size(d) + 1 .. Size(d) + FrameCells(r) /\ i \in 1 .. Size(e)
            /\ i \in 1 .. Size(c) /\ i \in 1 .. n
        <5>1. /\ FrameCells(r) \in Nat /\ Size(e) = Size(d) + FrameCells(r)
              /\ Size(e) <= Size(c)
          BY <4>5, <4>6, Zenon
        <5> QED
          BY <1>2, <2>5, <2>8, <3>2, <4>4, <5>1
      <4>8. mix[i] = [chain |-> e, part |-> i - Size(d)]
        BY <1>1, <1>3, <4>5, <4>6, <4>7, Zenon
      <4>9. mix[i].chain = e /\ mix[i].part = i - Size(d)
        BY <4>8
      <4> QED
        BY <2>3, <4>2, <4>3, <4>9, Zenon
    <3>3. CASE i > n
      <4>1. i \in n + 1 .. Len(mix)
        BY <1>2, <3>3
      <4>2. mix[i] = old[i] /\ i <= Len(old)
        BY <1>1, <4>1, Zenon
      <4>3. i \in 1 .. Len(old) /\ i > Size(b)
        BY <1>2, <1>6, <3>3, <4>2
      <4>4. Begins(b, mix[i].chain)
        BY <2>3, <2>4, <2>8, <3>0, BeginsTwice
      <4>5. Len(b) < Len(mix[i].chain)
        BY <2>2, <2>3, <2>8, <3>0
      <4>6. /\ mix[i].part = i - Size(b)
            /\ Len(mix[i].chain) = Len(b) + 1 /\ mix[i].chain[Len(b) + 1] \in Records
        BY <4>2, <4>3, <4>4, <4>5, Zenon DEF Committed, Size
      <4>7. Len(d) = Len(b)
        BY <2>2, <2>3, <2>8, <4>6
      <4>8. b = d
        BY <2>3, <2>4, <4>7, BeginsTwice
      <4> QED
        BY <4>6, <4>8
    <3> QED
      BY <1>2, <3>1, <3>2, <3>3
  <2>9. Committed(d, mix)
    BY <2>7, <2>8, Zenon DEF Committed, Size
  <2> QED
    BY <1>1, <2>3, <2>4, <2>9, Zenon
<1> QED
  BY <1>2, <1>5, <1>6

-----------------------------------------------------------------------------
(***************************************************************************)
(* The records behind a chain, and the files that can be met.              *)
(***************************************************************************)
\* A chain the bounds allow.
IsChain(c) ==
    /\ c \in Seq(Frameable)
    /\ Contents(c) \in Seq(Records) /\ Len(Contents(c)) <= MaxRecords

\* The state an image holds is a sequence of records.
LEMMA ImageHolds ==
    ASSUME NEW x \in Frameable, x \notin Records
    PROVE  x.image \in Seq(Records)
<1>1. PICK n \in 0 .. MaxRecords : \E h \in [1 .. n -> Records] : x = Image(h)
  BY DEF Frameable, Images
<1>2. PICK h \in [1 .. n -> Records] : x = Image(h)
  BY <1>1
<1>3. n \in Nat
  BY StoreAssumption
<1> QED
  BY <1>2, <1>3 DEF Image

\* What stands behind a chain is a sequence.
LEMMA ContentsType ==
    ASSUME NEW c \in Seq(Frameable)
    PROVE  Contents(c) \in Seq(Frameable)
<1>1. CASE c # << >> /\ Head(c) \notin Records
  <2>1. Head(c) \in Frameable /\ Tail(c) \in Seq(Frameable)
    BY <1>1
  <2>2. Head(c).image \in Seq(Records)
    BY <1>1, <2>1, ImageHolds
  <2>3. Head(c).image \in Seq(Frameable)
    BY <2>2 DEF Frameable
  <2>4. Head(c).image \o Tail(c) \in Seq(Frameable)
    BY <2>1, <2>3, Joined, Zenon
  <2> QED
    BY <1>1, <2>4, Zenon DEF Contents
<1>2. CASE ~(c # << >> /\ Head(c) \notin Records)
  BY <1>2, Zenon DEF Contents
<1> QED
  BY <1>1, <1>2

\* A record appended to a chain is appended to what stands behind it.
LEMMA ContentsAppend ==
    ASSUME NEW c \in Seq(Frameable), NEW r \in Records
    PROVE  Contents(Append(c, r)) = Append(Contents(c), r)
<1> DEFINE d == Append(c, r)
<1>0. r \in Frameable /\ d \in Seq(Frameable) /\ d # << >>
  BY DEF Frameable
<1>1. CASE c = << >>
  <2>1. Head(d) = r /\ d = <<r>>
    BY <1>1
  <2>2. Contents(d) = d
    BY <2>1, Zenon DEF Contents
  <2>3. Contents(c) = c
    BY <1>1, Zenon DEF Contents
  <2> QED
    BY <2>2, <2>3, Zenon
<1>2. CASE c # << >>
  <2>1. Head(d) = Head(c) /\ Tail(d) = Append(Tail(c), r) /\ Head(c) \in Frameable
        /\ Tail(c) \in Seq(Frameable)
    BY <1>0, <1>2
  <2>2. CASE Head(c) \in Records
    <3>1. Contents(d) = d
      BY <2>1, <2>2, Zenon DEF Contents
    <3>2. Contents(c) = c
      BY <2>2, Zenon DEF Contents
    <3> QED
      BY <3>1, <3>2, Zenon
  <2>3. CASE Head(c) \notin Records
    <3> DEFINE h == Head(c).image
               t == Tail(c)
    <3>1. h \in Seq(Frameable)
      <4>1. h \in Seq(Records)
        BY <2>1, <2>3, ImageHolds
      <4> QED
        BY <4>1 DEF Frameable
    <3>2. Contents(d) = h \o Append(t, r)
      BY <1>0, <2>1, <2>3, Zenon DEF Contents
    <3>3. Contents(c) = h \o t
      BY <1>2, <2>3, Zenon DEF Contents
    <3>4. t \in Seq(Frameable)
      BY <2>1
    <3> HIDE DEF h, t
    <3>5. h \o Append(t, r) = Append(h \o t, r)
      BY <1>0, <3>1, <3>4
    <3> QED
      BY <3>2, <3>3, <3>5, Zenon
  <2> QED
    BY <2>2, <2>3
<1> QED
  BY <1>1, <1>2

\* What stands behind a prefix comes first.
LEMMA ContentsBegins ==
    ASSUME NEW b \in Seq(Frameable), NEW c \in Seq(Frameable), Begins(b, c)
    PROVE  Begins(Contents(b), Contents(c))
<1>1. CASE b = << >>
  <2>1. Contents(b) = << >>
    BY <1>1, Zenon DEF Contents
  <2>2. Len(Contents(c)) \in Nat
    BY ContentsType
  <2> QED
    BY <2>1, <2>2 DEF Begins
<1>2. CASE b # << >>
  <2>1. /\ c # << >> /\ Head(b) = Head(c) /\ Head(c) \in Frameable
        /\ Tail(b) \in Seq(Frameable) /\ Tail(c) \in Seq(Frameable)
        /\ Begins(Tail(b), Tail(c))
    BY <1>2 DEF Begins
  <2>2. CASE Head(c) \in Records
    <3>1. Contents(b) = b
      BY <2>1, <2>2, Zenon DEF Contents
    <3>2. Contents(c) = c
      BY <2>2, Zenon DEF Contents
    <3> QED
      BY <3>1, <3>2, Zenon
  <2>3. CASE Head(c) \notin Records
    <3> DEFINE h == Head(c).image
               s == Tail(b)
               t == Tail(c)
    <3>1. h \in Seq(Frameable)
      <4>1. h \in Seq(Records)
        BY <2>1, <2>3, ImageHolds
      <4> QED
        BY <4>1 DEF Frameable
    <3>2. Contents(b) = h \o s
      BY <1>2, <2>1, <2>3, Zenon DEF Contents
    <3>3. Contents(c) = h \o t
      BY <2>1, <2>3, Zenon DEF Contents
    <3>4. s \in Seq(Frameable) /\ t \in Seq(Frameable) /\ Begins(s, t)
      BY <2>1
    <3> HIDE DEF h, s, t
    <3>5. Begins(h \o s, h \o t)
      BY <3>1, <3>4 DEF Begins
    <3> QED
      BY <3>2, <3>3, <3>5, Zenon
  <2> QED
    BY <2>2, <2>3
<1> QED
  BY <1>1, <1>2

\* A prefix of a chain the bounds allow is one too.
LEMMA ChainBegins ==
    ASSUME NEW b \in Seq(Frameable), NEW c, IsChain(c), Begins(b, c)
    PROVE  IsChain(b)
<1>1. Begins(Contents(b), Contents(c)) /\ Contents(b) \in Seq(Frameable)
  BY ContentsBegins, ContentsType DEF IsChain
<1> DEFINE s == Contents(b)
           t == Contents(c)
<1>2. t \in Seq(Records) /\ Len(t) <= MaxRecords /\ s \in Seq(Frameable) /\ Begins(s, t)
  BY <1>1 DEF IsChain
<1> HIDE DEF s, t
<1>3. s \in Seq(Records) /\ Len(s) <= MaxRecords
  <2>1. t \in Seq(Frameable)
    BY <1>2 DEF Frameable
  <2>2. Len(s) \in 0 .. Len(t) /\ s = First(t, Len(s))
    BY <1>2, <2>1, BeginsFirst
  <2>3. First(t, Len(s)) \in Seq(Records)
    BY <1>2, <2>2, BeginsFirst
  <2> QED
    BY <1>2, <2>2, <2>3, StoreAssumption
<1> QED
  BY <1>3 DEF IsChain, s

\* The chain of a rewritten log: the image, with the same records behind it.
LEMMA ImageChain ==
    ASSUME NEW c, IsChain(c)
    PROVE  /\ IsChain(<<Image(Contents(c))>>)
           /\ Contents(<<Image(Contents(c))>>) = Contents(c)
<1> DEFINE h == Contents(c)
           n == Len(h)
           i == Image(h)
<1>1. h \in Seq(Records) /\ n <= MaxRecords
  BY DEF IsChain
<1> HIDE DEF h
<1>2. n \in 0 .. MaxRecords /\ h \in [1 .. n -> Records]
  BY <1>1, StoreAssumption
<1>3. i \in Images /\ i \notin Records
  BY <1>2, ImageAssumption, Zenon DEF Images
<1>4. <<i>> \in Seq(Frameable) /\ Head(<<i>>) = i /\ Tail(<<i>>) = << >> /\ <<i>> # << >>
  BY <1>3 DEF Frameable
<1>5. Contents(<<i>>) = i.image \o << >>
  BY <1>3, <1>4, Zenon DEF Contents
<1>6. i.image = h
  BY DEF Image
<1> HIDE DEF i
<1>7. Contents(<<i>>) = h
  BY <1>1, <1>5, <1>6
<1> QED
  BY <1>1, <1>4, <1>7 DEF IsChain, i, h

\* The cells a store writes, or leaves behind when they rot.
ChainCells == {x \in CellType : IsChain(x.chain)}

\* Files of such cells.
FileType == [header : {"none", "torn", "ok"}, cells : Seq(ChainCells)]

\* They are cells.
LEMMA ChainCellsTyped ==
    ASSUME NEW cells \in Seq(ChainCells)
    PROVE  cells \in Seq(CellType) /\ \A n \in 1 .. Len(cells) : IsChain(cells[n].chain)
<1>1. ChainCells \subseteq CellType /\ \A x \in ChainCells : IsChain(x.chain)
  BY DEF ChainCells
<1> QED
  BY <1>1

\* No file, the empty log and a rotten cell are such.
LEMMA EmptyFiles ==
    /\ << >> \in Seq(ChainCells) /\ NoFile \in FileType /\ Formatted(<< >>) \in FileType
    /\ IsChain(<< >>) /\ Contents(<< >>) = << >> /\ Rot \in ChainCells
<1>1. Contents(<< >>) = << >>
  BY Zenon DEF Contents
<1>2. IsChain(<< >>)
  <2>1. << >> \in Seq(Frameable) /\ << >> \in Seq(Records) /\ Len(<< >>) <= MaxRecords
    BY StoreAssumption
  <2> QED
    BY <1>1, <2>1, Zenon DEF IsChain
<1>3. << >> \in Seq(ChainCells)
  OBVIOUS
<1>4. NoFile \in FileType /\ Formatted(<< >>) \in FileType
  BY <1>3 DEF NoFile, Formatted, FileType
<1>5. Rot \in CellType /\ Rot.chain = << >>
  BY DEF Rot, CellType
<1>6. Rot \in ChainCells
  BY <1>2, <1>5, Zenon DEF ChainCells
<1> QED
  BY <1>1, <1>2, <1>3, <1>4, <1>6

\* The frames of a chain are made of them.
LEMMA LayoutChainCells ==
    ASSUME NEW c, IsChain(c)
    PROVE  Layout(c) \in Seq(ChainCells)
<1>0. c \in Seq(Frameable)
  BY DEF IsChain
<1>1. /\ Layout(c) \in Seq(CellType)
      /\ \A n \in 1 .. Len(Layout(c)) : \E j \in 1 .. Len(c) : Layout(c)[n].chain = First(c, j)
  BY <1>0, LayoutCells, Zenon
<1>2. ASSUME NEW j \in 1 .. Len(c) PROVE IsChain(First(c, j))
  <2>1. j \in 0 .. Len(c)
    BY <1>0
  <2> QED
    BY <1>0, <2>1, BeginsFirst, ChainBegins, Zenon
<1>3. \A n \in 1 .. Len(Layout(c)) : Layout(c)[n] \in CellType /\ IsChain(Layout(c)[n].chain)
  BY <1>1, <1>2
<1>4. \A n \in 1 .. Len(Layout(c)) : Layout(c)[n] \in ChainCells
  BY <1>3, Zenon DEF ChainCells
<1> QED
  BY <1>1, <1>4

\* So is the next frame.
LEMMA FrameChainCells ==
    ASSUME NEW c, IsChain(c), NEW r \in Records, IsChain(Append(c, r))
    PROVE  Frame(Append(c, r)) \in Seq(ChainCells)
<1> DEFINE d == Append(c, r)
           f == Frame(d)
           k == FrameCells(r)
<1>1. /\ f \in Seq(CellType) /\ Len(f) = k
      /\ \A n \in 1 .. k : f[n] = [chain |-> d, part |-> n]
  BY FrameShape, Zenon DEF IsChain, Frameable
<1> HIDE DEF d, f, k
<1>2. \A n \in 1 .. k : f[n] \in CellType /\ f[n].chain = d
  BY <1>1
<1>3. \A n \in 1 .. k : f[n] \in ChainCells
  BY <1>2, Zenon DEF ChainCells, d
<1> QED
  BY <1>1, <1>3 DEF f, d

\* One more record is within the bound.
LEMMA ChainAppend ==
    ASSUME NEW c, IsChain(c), NEW r \in Records, Len(Contents(c)) < MaxRecords
    PROVE  IsChain(Append(c, r)) /\ Contents(Append(c, r)) = Append(Contents(c), r)
<1>1. c \in Seq(Frameable) /\ Append(c, r) \in Seq(Frameable)
  BY DEF IsChain, Frameable
<1>2. Contents(Append(c, r)) = Append(Contents(c), r)
  BY <1>1, ContentsAppend, Zenon
<1>3. Append(Contents(c), r) \in Seq(Records) /\ Len(Append(Contents(c), r)) <= MaxRecords
  BY StoreAssumption DEF IsChain
<1> QED
  BY <1>1, <1>2, <1>3, Zenon DEF IsChain

\* What the scan finds is within the bound.
LEMMA LoadedChain ==
    ASSUME NEW cells \in Seq(ChainCells)
    PROVE  IsChain(Loaded(cells)) /\ Written(Loaded(cells), cells)
<1> DEFINE d == Loaded(cells)
           k == Len(Layout(d))
<1>1. d \in Seq(Frameable) /\ Written(d, cells)
  BY ChainCellsTyped, LoadedLongest, Zenon
<1> SUFFICES IsChain(d)
  BY <1>1
<1> HIDE DEF d
<1>2. CASE Len(d) = 0
  <2>1. d = << >>
    BY <1>1, <1>2
  <2> QED
    BY <2>1, EmptyFiles, Zenon
<1>3. CASE Len(d) # 0
  <2>1. k > 0 /\ Layout(d)[k].chain = d
    BY <1>1, <1>3, LastCell, Zenon
  <2>2. k \in Nat
    BY <1>1, LayoutCells, Zenon
  <2>3. k <= Len(cells) /\ \A i \in 1 .. k : Layout(d)[i] = cells[i]
    BY <1>1, Zenon DEF Written, Begins
  <2> HIDE DEF k
  <2>4. k \in 1 .. k /\ k \in 1 .. Len(cells)
    BY <2>1, <2>2, <2>3
  <2>5. cells[k].chain = d
    BY <2>1, <2>3, <2>4, Zenon
  <2> QED
    BY <2>4, <2>5, ChainCellsTyped, Zenon
<1> QED
  BY <1>2, <1>3

\* A file of which a cell rotted.
LEMMA RottenFile ==
    ASSUME NEW f \in FileType, NEW n \in DOMAIN f.cells, NEW g, g = [f EXCEPT !.cells[n] = Rot]
    PROVE  /\ g \in FileType /\ n \in 1 .. Len(f.cells)
           /\ g.header = f.header /\ g.cells = [f.cells EXCEPT ![n] = Rot]
<1>1. f.cells \in Seq(ChainCells) /\ Rot \in ChainCells
  BY EmptyFiles DEF FileType
<1>2. [f.cells EXCEPT ![n] = Rot] \in Seq(ChainCells) /\ n \in 1 .. Len(f.cells)
  BY <1>1
<1> DEFINE cells == [f.cells EXCEPT ![n] = Rot]
<1>3. g = [f EXCEPT !.cells = cells]
  BY Zenon
<1> HIDE DEF cells
<1>4. cells \in Seq(ChainCells)
  BY <1>2, Zenon DEF cells
<1>5. g \in FileType /\ g.header = f.header /\ g.cells = cells
  BY <1>3, <1>4 DEF FileType
<1> QED
  BY <1>2, <1>5, Zenon DEF cells

-----------------------------------------------------------------------------
(***************************************************************************)
(* The bookkeeping. Not both failures of a rewrite can happen to one       *)
(* store: a rename that fails after one whose log could not be opened      *)
(* again puts back a handle with the bookkeeping of a log that is gone     *)
(* (RestoredUsable).                                                       *)
(***************************************************************************)
\* A rewrite whose rename succeeded and whose reopen failed is not followed by one whose
\* rename fails: the two do not happen to the same store.
OneRewriteFault == ~(RenameFails /\ ReopenFails)

\* The store is where its bookkeeping says.  A log that a failed rename gives back is the
\* one the bookkeeping is about, so the chain must be that of the file while the handle is
\* closed, too.
BookInv ==
    /\ file \in FileType /\ synced \in FileType
    /\ entry = << >> \/ \E x \in FileType : entry = <<x>>
    /\ pc \in {"down", "idle", "sync", "rename"} /\ handle \in BOOLEAN
    /\ IsChain(chain)
    /\ handle => pc # "down"
    /\ handle \/ (RenameFails /\ pc # "down") =>
          file.header = "ok" /\ Written(chain, file.cells)
    /\ pc = "sync" =>
          /\ handle
          /\ \E r \in Records : /\ pending = <<r>> /\ IsChain(Append(chain, r))
                                /\ Written(Append(chain, r), file.cells)
    /\ pc = "rename" => ~handle /\ pending = <<Image(Contents(chain))>>

\* What a write of n cells of the next frame leaves.
LEMMA AppendKeeps ==
    ASSUME BookInv, handle, NEW r \in Records, Len(Contents(chain)) < MaxRecords,
           NEW n \in 0 .. FrameCells(r), NEW new,
           new = Overlay(file.cells, Len(Layout(chain)), Frame(Append(chain, r)), n)
    PROVE  /\ new \in Seq(ChainCells) /\ Formatted(new) \in FileType
           /\ Written(chain, new) /\ IsChain(Append(chain, r))
           /\ n = FrameCells(r) => Written(Append(chain, r), new)
<1> DEFINE k == Len(Layout(chain))
           d == Append(chain, r)
           f == Frame(d)
           cells == file.cells
<1>1. /\ IsChain(d) /\ chain \in Seq(Frameable) /\ d \in Seq(Frameable) /\ r \in Frameable
      /\ f \in Seq(ChainCells) /\ cells \in Seq(ChainCells) /\ Written(chain, cells)
  <2>1. IsChain(d)
    BY ChainAppend, Zenon DEF BookInv
  <2>2. f \in Seq(ChainCells)
    BY <2>1, FrameChainCells DEF BookInv
  <2> QED
    BY <2>1, <2>2 DEF BookInv, FileType, IsChain, Frameable
<1>2. /\ Len(f) = FrameCells(r) /\ FrameCells(r) \in Nat
      /\ \A i \in 1 .. FrameCells(r) : f[i] = [chain |-> d, part |-> i]
  BY <1>1, FrameShape, Zenon
<1>3. k <= Len(cells) /\ \A i \in 1 .. k : Layout(chain)[i] = cells[i]
  BY <1>1, Zenon DEF Written, Begins
<1>4. k \in Nat
  BY <1>1, LayoutCells, Zenon
<1>5. /\ Len(Layout(d)) = k + FrameCells(r)
      /\ \A i \in 1 .. k : Layout(d)[i] = Layout(chain)[i]
      /\ \A i \in k + 1 .. k + FrameCells(r) : Layout(d)[i] = [chain |-> d, part |-> i - k]
  BY <1>1, LayoutNext, Zenon
<1>6. new = Overlay(cells, k, f, n)
  OBVIOUS
<1> HIDE DEF k, d, f, cells
<1>7. /\ new \in Seq(ChainCells) /\ Len(new) >= k + n
      /\ \A i \in 1 .. k : new[i] = cells[i]
      /\ \A i \in k + 1 .. k + n : new[i] = f[i - k]
  <2>1. k \in 0 .. Len(cells) /\ n \in 0 .. Len(f)
    BY <1>1, <1>2, <1>3, <1>4
  <2> QED
    BY <1>1, <1>6, <2>1, OverlayAt
<1>8. Formatted(new) \in FileType
  BY <1>7 DEF Formatted, FileType
<1>9. Written(chain, new)
  <2>1. k <= Len(new)
    BY <1>4, <1>7
  <2>2. \A i \in 1 .. k : Layout(chain)[i] = new[i]
    BY <1>3, <1>7, Zenon
  <2> QED
    BY <2>1, <2>2 DEF Written, Begins, k
<1>10. ASSUME n = FrameCells(r) PROVE Written(d, new)
  <2>1. ASSUME NEW i \in 1 .. k + n PROVE Layout(d)[i] = new[i]
    <3>1. CASE i \in 1 .. k
      BY <1>3, <1>5, <1>7, <3>1, Zenon
    <3>2. CASE i \in k + 1 .. k + n
      <4>1. i - k \in 1 .. FrameCells(r)
        BY <1>2, <1>4, <3>2
      <4> QED
        BY <1>2, <1>5, <1>7, <1>10, <3>2, <4>1, Zenon
    <3>3. i \in 1 .. k \/ i \in k + 1 .. k + n
      BY <1>4
    <3> QED
      BY <3>1, <3>2, <3>3, Zenon
  <2> QED
    BY <1>5, <1>7, <1>10, <2>1, Zenon DEF Written, Begins
<1> QED
  BY <1>1, <1>7, <1>8, <1>9, <1>10, Zenon DEF d

\* A new store: an empty log.
LEMMA BookCreate == ASSUME BookInv, Create PROVE BookInv'
<1>1. /\ file' = Formatted(<< >>) /\ synced' = file' /\ entry' \in {<< >>, <<NoFile>>}
      /\ pc' = "idle" /\ chain' = << >> /\ handle' = TRUE
  BY DEF Create, NameFile
<1>2. file'.header = "ok" /\ file'.cells = << >>
  BY <1>1 DEF Formatted
<1>3. Written(<< >>, << >>)
  BY LayoutEmpty DEF Written, Begins
<1>4. file' \in FileType /\ synced' \in FileType /\ IsChain(chain')
  BY <1>1, EmptyFiles, Zenon
<1>5. entry' = << >> \/ \E x \in FileType : entry' = <<x>>
  BY <1>1, EmptyFiles, Zenon
<1>6. Written(chain', file'.cells)
  BY <1>1, <1>2, <1>3, Zenon
<1>7. pc' = "idle" /\ handle' = TRUE
  BY <1>1
<1> QED
  BY <1>2, <1>4, <1>5, <1>6, <1>7 DEF BookInv

\* A header that was torn.
LEMMA BookCreateTorn == ASSUME BookInv, CreateTorn PROVE BookInv'
<1>1. PICK h \in {"torn", "ok"} : file' = [file EXCEPT !.header = h]
  BY DEF CreateTorn
<1>2. UNCHANGED <<synced, entry, process>> /\ pc = "down"
  BY DEF CreateTorn
<1>3. file' \in FileType
  BY <1>1 DEF BookInv, FileType
<1> QED
  BY <1>2, <1>3 DEF BookInv, process

\* An open that succeeds: the bookkeeping is what the scan found.
LEMMA BookOpenLog == ASSUME BookInv, OpenLog PROVE BookInv'
<1> DEFINE kept == Loaded(file.cells)
<1>1. PICK stop \in ScanStop(file.cells) :
          IF stop # "corrupt" \/ ~Strict
              THEN /\ file' = IF stop = "clean" THEN file ELSE Formatted(Layout(kept))
                   /\ synced' = IF stop = "clean" THEN synced ELSE file'
                   /\ pc' = "idle" /\ chain' = kept /\ handle' = TRUE
                   /\ served' = Contents(kept) /\ refused' = FALSE
              ELSE /\ refused' = TRUE
                   /\ UNCHANGED <<file, synced, pc, chain, handle, served>>
  BY Zenon DEF OpenLog
<1>2. /\ pc = "down" /\ file.header = "ok" /\ UNCHANGED <<entry, pending>>
      /\ file.cells \in Seq(ChainCells)
  BY Zenon DEF OpenLog, BookInv, FileType
<1>3. /\ IsChain(kept) /\ Written(kept, file.cells) /\ Layout(kept) \in Seq(ChainCells)
      /\ Committed(kept, Layout(kept))
  BY <1>2, LoadedChain, LayoutChainCells, ExactCommitted, Zenon DEF IsChain
<1>4. Written(kept, Layout(kept))
  BY <1>3 DEF Committed
<1> HIDE DEF kept
<1>5. CASE ~(stop # "corrupt" \/ ~Strict)
  <2>1. UNCHANGED <<file, synced, entry, pc, pending, chain, handle>>
    BY <1>1, <1>2, <1>5
  <2> QED
    BY <2>1 DEF BookInv
<1>6. CASE stop # "corrupt" \/ ~Strict
  <2>1. pc' = "idle" /\ chain' = kept /\ handle' = TRUE /\ entry' = entry
    BY <1>1, <1>2, <1>6
  <2>2. /\ file' \in FileType /\ synced' \in FileType
        /\ file'.header = "ok" /\ Written(kept, file'.cells)
    <3>1. CASE stop = "clean"
      <4>1. file' = file /\ synced' = synced
        BY <1>1, <1>6, <3>1
      <4> QED
        BY <1>2, <1>3, <4>1 DEF BookInv
    <3>2. CASE stop # "clean"
      <4>1. file' = Formatted(Layout(kept)) /\ synced' = file'
        BY <1>1, <1>6, <3>2
      <4>2. Formatted(Layout(kept)) \in FileType
        BY <1>3 DEF Formatted, FileType
      <4>3. file'.header = "ok" /\ file'.cells = Layout(kept)
        BY <4>1 DEF Formatted
      <4> QED
        BY <1>4, <4>1, <4>2, <4>3, Zenon
    <3> QED
      BY <3>1, <3>2
  <2> QED
    BY <1>3, <2>1, <2>2 DEF BookInv
<1> QED
  BY <1>5, <1>6

\* A frame is written behind the chain, whole or in part.
LEMMA BookAppendWrite ==
    ASSUME BookInv, NEW r \in Records, AppendWrite(r)
    PROVE  BookInv'
<1> DEFINE f == Frame(Append(chain, r))
           new(n) == Overlay(file.cells, Len(Layout(chain)), f, n)
<1>1. /\ handle /\ pc = "idle" /\ Len(Contents(chain)) < MaxRecords
      /\ UNCHANGED <<synced, entry, chain, handle>>
  BY DEF AppendWrite
<1>2. Len(f) = FrameCells(r) /\ FrameCells(r) \in Nat
  BY FrameShape DEF BookInv, IsChain, Frameable
<1>3. \/ file' = Formatted(new(Len(f))) /\ pc' = "sync" /\ pending' = <<r>>
      \/ (\E n \in 0 .. Len(f) - 1 : file' = Formatted(new(n))) /\ UNCHANGED <<pc, pending>>
  BY Zenon DEF AppendWrite
<1>4. ASSUME NEW n \in 0 .. FrameCells(r)
      PROVE  /\ Formatted(new(n)) \in FileType
             /\ Written(chain, new(n)) /\ IsChain(Append(chain, r))
             /\ n = FrameCells(r) => Written(Append(chain, r), new(n))
  BY <1>1, AppendKeeps, Zenon
<1>5. \A x : Formatted(x).header = "ok" /\ Formatted(x).cells = x
  BY DEF Formatted
<1> HIDE DEF new, f
<1>6. CASE file' = Formatted(new(Len(f))) /\ pc' = "sync" /\ pending' = <<r>>
  <2>1. Len(f) \in 0 .. FrameCells(r)
    BY <1>2
  <2>2. /\ file' \in FileType /\ file'.header = "ok"
        /\ Written(chain, file'.cells) /\ Written(Append(chain, r), file'.cells)
        /\ IsChain(Append(chain, r))
    BY <1>2, <1>4, <1>5, <1>6, <2>1, Zenon
  <2> QED
    BY <1>1, <1>6, <2>2 DEF BookInv
<1>7. CASE (\E n \in 0 .. Len(f) - 1 : file' = Formatted(new(n))) /\ UNCHANGED <<pc, pending>>
  <2>1. PICK n \in 0 .. Len(f) - 1 : file' = Formatted(new(n))
    BY <1>7
  <2>2. n \in 0 .. FrameCells(r)
    BY <1>2
  <2>3. file' \in FileType /\ file'.header = "ok" /\ Written(chain, file'.cells)
    BY <1>4, <1>5, <2>1, <2>2, Zenon
  <2> QED
    BY <1>1, <1>7, <2>3 DEF BookInv
<1> QED
  BY <1>3, <1>6, <1>7

\* The append returns.
LEMMA BookAppendCommit == ASSUME BookInv, AppendCommit PROVE BookInv'
<1>1. /\ pc = "sync" /\ pc' = "idle" /\ UNCHANGED <<file, entry, handle>>
      /\ chain' \in {chain, chain \o pending} /\ synced' \in {synced, file}
  BY DEF AppendCommit
<1>2. PICK r \in Records : /\ pending = <<r>> /\ IsChain(Append(chain, r))
                           /\ Written(Append(chain, r), file.cells)
  BY <1>1 DEF BookInv
<1>3. chain \o pending = Append(chain, r)
  BY <1>2 DEF BookInv, IsChain, Frameable
<1>4. handle /\ file.header = "ok" /\ Written(chain, file.cells) /\ IsChain(chain)
  BY <1>1 DEF BookInv
<1>5. IsChain(chain') /\ Written(chain', file.cells)
  BY <1>1, <1>2, <1>3, <1>4, Zenon
<1> QED
  BY <1>1, <1>4, <1>5 DEF BookInv

\* The temporary of a rewrite is written.
LEMMA BookRewriteTarget == ASSUME BookInv, RewriteTarget PROVE BookInv'
<1>1. /\ pc = "idle" /\ UNCHANGED <<file, synced, entry, chain>>
      /\ \/ pc' = "rename" /\ pending' = <<Image(Contents(chain))>> /\ handle' = FALSE
         \/ UNCHANGED <<pc, pending, handle>>
  BY Zenon DEF RewriteTarget
<1>2. CASE UNCHANGED <<pc, pending, handle>>
  BY <1>1, <1>2 DEF BookInv
<1>3. CASE pc' = "rename" /\ pending' = <<Image(Contents(chain))>> /\ handle' = FALSE
  <2>1. pending' = <<Image(Contents(chain'))>>
    BY <1>1, <1>3, Zenon
  <2> HIDE DEF Image
  <2> QED
    BY <1>1, <1>3, <2>1, Zenon DEF BookInv
<1> QED
  BY <1>1, <1>2, <1>3, Zenon

\* The new log takes the place of the old one.
LEMMA BookRewriteCommit == ASSUME OneRewriteFault, BookInv, RewriteCommit PROVE BookInv'
<1>1. /\ pc = "rename" /\ pc' = "idle" /\ file' = Formatted(Layout(pending))
      /\ synced' = file' /\ entry' \in {<< >>, <<synced>>}
      /\ \/ chain' = pending /\ handle' = TRUE
         \/ ReopenFails /\ UNCHANGED <<chain, handle>>
  BY DEF RewriteCommit, NameFile
<1>2. IsChain(chain) /\ pending = <<Image(Contents(chain))>> /\ ~handle /\ synced \in FileType
  BY <1>1 DEF BookInv
<1>3. IsChain(pending)
  BY <1>2, ImageChain, Zenon
<1>4. Layout(pending) \in Seq(ChainCells) /\ Written(pending, Layout(pending))
  BY <1>3, LayoutChainCells, ExactCommitted, Zenon DEF IsChain, Committed
<1>5. /\ file' \in FileType /\ synced' \in FileType
      /\ file'.header = "ok" /\ file'.cells = Layout(pending)
  BY <1>1, <1>4 DEF Formatted, FileType
<1>6. entry' = << >> \/ \E x \in FileType : entry' = <<x>>
  BY <1>1, <1>2, Zenon
<1>7. CASE chain' = pending /\ handle' = TRUE
  <2>1. IsChain(chain') /\ Written(chain', file'.cells)
    BY <1>3, <1>4, <1>5, <1>7, Zenon
  <2> QED
    BY <1>1, <1>5, <1>6, <1>7, <2>1 DEF BookInv
<1>8. CASE ReopenFails /\ UNCHANGED <<chain, handle>>
  <2>1. ~RenameFails
    BY <1>8 DEF OneRewriteFault
  <2> QED
    BY <1>1, <1>2, <1>5, <1>6, <1>8, <2>1 DEF BookInv
<1> QED
  BY <1>1, <1>7, <1>8, Zenon

\* The old log stays.
LEMMA BookRewriteAbort == ASSUME BookInv, RewriteAbort PROVE BookInv'
<1>1. /\ pc = "rename" /\ pc' = "idle" /\ RenameFails /\ handle' \in BOOLEAN
      /\ UNCHANGED <<file, synced, entry, chain>>
  BY DEF RewriteAbort
<1> QED
  BY <1>1 DEF BookInv

\* A store that is not open has no bookkeeping to be wrong.
LEMMA BookDown ==
    ASSUME BookInv, Down, file' \in FileType, synced' \in FileType,
           entry' = << >> \/ entry' = entry
    PROVE  BookInv'
<1>1. pc' = "down" /\ chain' = << >> /\ handle' = FALSE
  BY DEF Down
<1>2. IsChain(chain')
  BY <1>1, EmptyFiles, Zenon
<1> QED
  BY <1>1, <1>2, Zenon DEF BookInv

\* What a power loss leaves is a file.
LEMMA BookPowerLoss == ASSUME BookInv, PowerLoss PROVE BookInv'
<1>1. file' \in FileType
  <2>1. file \in FileType /\ synced \in FileType
    BY DEF BookInv
  <2>2. CASE file' \in Survivors
    <3>1. PICK n \in 0 .. Len(file.cells) :
                  file' = Formatted(Overlay(synced.cells, 0, file.cells, n))
      BY <2>2 DEF Survivors
    <3>2. file.cells \in Seq(ChainCells) /\ synced.cells \in Seq(ChainCells)
      BY <2>1 DEF FileType
    <3>3. 0 \in 0 .. Len(synced.cells)
      BY <3>2
    <3>4. Overlay(synced.cells, 0, file.cells, n) \in Seq(ChainCells)
      BY <3>2, <3>3, OverlayAt, Zenon
    <3> QED
      BY <3>1, <3>4 DEF Formatted, FileType
  <2>3. CASE file' \in {file, synced}
    BY <2>1, <2>3
  <2>4. CASE entry # << >> /\ file' = entry[1]
    <3>1. PICK x \in FileType : entry = <<x>>
      BY <2>4 DEF BookInv
    <3> QED
      BY <2>4, <3>1
  <2> QED
    BY <2>2, <2>3, <2>4 DEF PowerLoss
<1>2. synced' = file' /\ entry' = << >> /\ Down
  BY DEF PowerLoss
<1> QED
  BY <1>1, <1>2, BookDown

\* A cell rots on a file nobody has open.
LEMMA BookDamage == ASSUME BookInv, Damage PROVE BookInv'
<1>1. PICK n \in DOMAIN file.cells : file' = [file EXCEPT !.cells[n] = Rot]
  BY Zenon DEF Damage
<1>2. pc = "down" /\ synced' = file' /\ UNCHANGED <<entry, process>>
  BY DEF Damage
<1>3. file \in FileType
  BY Zenon DEF BookInv
<1>4. file' \in FileType
  BY <1>1, <1>3, RottenFile, Zenon
<1> QED
  BY <1>2, <1>4 DEF BookInv, process

\* Every step keeps the bookkeeping.
LEMMA BookStep == ASSUME OneRewriteFault, BookInv, [Next]_vars PROVE BookInv'
<1>1. CASE UNCHANGED vars
  BY <1>1 DEF BookInv, vars, disk, process
<1>2. CASE OpenRefused
  BY <1>2 DEF OpenRefused, BookInv, process
<1>3. CASE Exit
  <2>1. Down /\ UNCHANGED <<file, synced, entry>>
    BY <1>3 DEF Exit, disk
  <2> QED
    BY <2>1, BookDown, Zenon DEF BookInv
<1> QED
  BY <1>1, <1>2, <1>3, BookCreate, BookCreateTorn, BookOpenLog, BookAppendWrite,
     BookAppendCommit, BookRewriteTarget, BookRewriteCommit, BookRewriteAbort,
     BookPowerLoss, BookDamage, Zenon DEF Next

\* It holds in every state.
LEMMA BookHolds == ASSUME OneRewriteFault PROVE Spec => []BookInv
<1>1. Init => BookInv
  <2> SUFFICES ASSUME Init PROVE BookInv
    OBVIOUS
  <2>1. /\ file = NoFile /\ synced = NoFile /\ entry = << >> /\ pc = "down"
        /\ chain = << >> /\ handle = FALSE
    BY DEF Init
  <2>2. file \in FileType /\ synced \in FileType /\ IsChain(chain)
    BY <2>1, EmptyFiles, Zenon
  <2> QED
    BY <2>1, <2>2, Zenon DEF BookInv
<1>2. BookInv /\ [Next]_vars => BookInv'
  BY BookStep
<1> QED
  BY <1>1, <1>2, PTL DEF Spec

\* The offset, the sequence number and the chain digest in memory describe the file the
\* handle is on, whatever fails, crashes, loses power or rots in between.
THEOREM BookkeepingHolds ==
    ASSUME OneRewriteFault
    PROVE  Spec => []BookkeepingMatchesFile
<1>1. BookInv => BookkeepingMatchesFile
  <2> SUFFICES ASSUME BookInv, handle
               PROVE  file.header = "ok" /\ IsPrefix(Layout(chain), file.cells)
    BY DEF BookkeepingMatchesFile
  <2>1. /\ file.header = "ok" /\ Written(chain, file.cells) /\ chain \in Seq(Frameable)
        /\ file.cells \in Seq(ChainCells)
    BY DEF BookInv, FileType, IsChain
  <2>2. Layout(chain) \in Seq(CellType) /\ file.cells \in Seq(CellType)
    BY <2>1, LayoutCells, ChainCellsTyped, Zenon
  <2> QED
    BY <2>1, <2>2, PrefixBegins, Zenon DEF Written
<1> QED
  BY <1>1, BookHolds, PTL

-----------------------------------------------------------------------------
(***************************************************************************)
(* The promise. The invariant names the chain the file holds and the one   *)
(* the disk is sure of; every step of the store is then a step of          *)
(* AtomicLog or does not show there.                                       *)
(***************************************************************************)
\* The environment the promise is made for: nothing rots, and if power can fail, commits
\* are synced and a created or renamed file keeps its name.
Environment ==
    /\ MaxDamage = 0 /\ OneRewriteFault
    /\ PowerFails => Fsync /\ DirectoryDurable

\* The file holds chain c, the disk a prefix b of it, and what was acknowledged is behind
\* b.  Between b and c are records an open found although they were never synced.  While
\* the store is open, c is its chain, or the image a rewrite made of it.
Holding(b, c) ==
    /\ IsChain(c) /\ b \in Seq(Frameable) /\ Begins(b, c)
    /\ \A k \in Len(b) + 1 .. Len(c) : c[k] \in Records
    /\ Committed(c, file.cells)
    /\ acked \in Seq(Records) /\ Begins(acked, Contents(b))
    /\ file.header # "ok" => file.cells = << >>
    /\ PowerFails => /\ Committed(b, synced.cells) /\ entry = << >>
                     /\ synced.header # "ok" => synced.cells = << >>
    /\ pc # "down" => /\ file.header = "ok" /\ Contents(chain) = Contents(c)
                      /\ handle \/ RenameFails => chain = c

SafeInv == \E b, c : Holding(b, c)

\* A chain is held whole.
LEMMA HoldingWhole ==
    ASSUME NEW c, IsChain(c)
    PROVE  /\ c \in Seq(Frameable) /\ Begins(c, c)
           /\ \A k \in Len(c) + 1 .. Len(c) : c[k] \in Records
<1>1. c \in Seq(Frameable)
  BY DEF IsChain
<1>2. Begins(c, c)
  BY <1>1, BeginsFirst, Zenon
<1>3. \A k \in Len(c) + 1 .. Len(c) : FALSE
  BY <1>1
<1> QED
  BY <1>1, <1>2, <1>3, Zenon

\* An empty file holds the empty chain.
LEMMA HoldsNothing ==
    /\ Committed(<< >>, << >>) /\ Loaded(<< >>) = << >>
    /\ \A c \in Seq(Frameable) : Committed(c, << >>) => c = << >>
<1>1. << >> \in Seq(Frameable)
  OBVIOUS
<1>2. Committed(<< >>, << >>) /\ Loaded(<< >>) = << >>
  BY <1>1, LayoutEmpty, ExactCommitted, Zenon
<1>3. ASSUME NEW c \in Seq(Frameable), Committed(c, << >>) PROVE c = << >>
  <2>1. Len(Layout(c)) <= Len(<< >>)
    BY <1>3, Zenon DEF Committed, Written, Begins
  <2>2. Len(Layout(c)) \in Nat /\ Len(Layout(c)) >= Len(c)
    BY LayoutCells, Zenon
  <2>3. Len(c) = 0
    BY <2>1, <2>2
  <2> QED
    BY <2>3
<1> QED
  BY <1>2, <1>3, Zenon

\* What an open would load: the records behind the chain the file holds, or one more.
LEMMA LoadsOneMore ==
    ASSUME NEW cells \in Seq(ChainCells), NEW c, IsChain(c), Committed(c, cells)
    PROVE  IsChain(Loaded(cells)) /\ OneMore(c, Loaded(cells))
<1>1. cells \in Seq(CellType) /\ c \in Seq(Frameable)
  BY ChainCellsTyped, Zenon DEF IsChain
<1> QED
  BY <1>1, LoadedChain, LoadedCommitted, Zenon

\* What opening a file would load.
Content(f) == IF f.header = "ok" THEN Contents(Loaded(f.cells)) ELSE << >>

\* An open of a file that holds chain c loads c, or one record more.
LEMMA Opens ==
    ASSUME NEW f \in FileType, NEW c, IsChain(c), Committed(c, f.cells),
           f.header # "ok" => f.cells = << >>
    PROVE  /\ IsChain(Loaded(f.cells)) /\ OneMore(c, Loaded(f.cells))
           /\ Content(f) = Contents(Loaded(f.cells))
<1>1. f.cells \in Seq(ChainCells)
  BY DEF FileType
<1>2. Content(f) = Contents(Loaded(f.cells))
  BY HoldsNothing, EmptyFiles, Zenon DEF Content
<1> QED
  BY <1>1, <1>2, LoadsOneMore, Zenon

\* If the file goes from chain c to chain d, behind which are a first part of the records
\* behind c and all that were acknowledged, that is a step the promise allows.
LEMMA Promised ==
    ASSUME NEW c, IsChain(c), NEW l, IsChain(l), OneMore(c, l), Recoverable = Contents(l),
           NEW d, IsChain(d), NEW m, IsChain(m), OneMore(d, m), Recoverable' = Contents(m),
           acked \in Seq(Records), acked' = acked,
           Begins(acked, Contents(d)), Begins(Contents(d), Contents(c))
    PROVE  Promise!Next
<1> DEFINE s == Contents(d)
           t == Contents(l)
<1>1. /\ c \in Seq(Frameable) /\ l \in Seq(Frameable)
      /\ d \in Seq(Frameable) /\ m \in Seq(Frameable)
      /\ s \in Seq(Records) /\ t \in Seq(Records) /\ Contents(c) \in Seq(Records)
  BY DEF IsChain
<1>2. Begins(s, t)
  <2>1. Begins(Contents(c), t)
    BY <1>1, ContentsBegins, Zenon DEF OneMore
  <2> HIDE DEF s, t
  <2> QED
    BY <1>1, <2>1, BeginsTwice DEF s
<1> HIDE DEF s, t
<1>3. s \in Promise!Kept
  <2>1. s = SubSeq(t, 1, Len(s)) /\ Len(s) \in Len(acked) .. Len(t)
    <3>1. Len(s) \in 0 .. Len(t) /\ s = First(t, Len(s))
      BY <1>1, <1>2, BeginsFirst
    <3>2. Len(acked) <= Len(s) /\ Len(acked) \in Nat
      BY DEF Begins, s
    <3> QED
      BY <3>1, <3>2 DEF First
  <2>2. Recoverable = t
    BY DEF t
  <2> QED
    BY <2>1, <2>2, Zenon DEF Promise!Kept
<1>4. CASE m = d
  <2>1. Recoverable' \in Promise!Kept
    BY <1>3, <1>4, Zenon DEF s
  <2>2. Promise!Lose
    BY <2>1, Zenon DEF Promise!Lose
  <2> QED
    BY <2>2, Zenon DEF Promise!Next
<1>5. CASE Len(m) = Len(d) + 1 /\ m[Len(d) + 1] \in Records
  <2> DEFINE r == m[Len(d) + 1]
  <2>0. r \in Frameable
    BY <1>5 DEF Frameable
  <2>1. m = Append(d, r)
    BY <1>1, <1>5, <2>0, AppendBegins, Zenon DEF OneMore
  <2>2. Recoverable' = Append(s, r)
    BY <1>1, <1>5, <2>1, ContentsAppend, Zenon DEF s
  <2>3. Promise!Write(r)
    BY <1>3, <2>2, Zenon DEF Promise!Write
  <2> QED
    BY <1>5, <2>3, Zenon DEF Promise!Next
<1> QED
  BY <1>4, <1>5 DEF OneMore

\* A step the promise allows, or that does not show.
Allowed == Promise!Next \/ UNCHANGED <<Recoverable, acked>>

\* A step that moves the file from chain c to chain d.
LEMMA Moved ==
    ASSUME NEW b, NEW c, BookInv, Holding(b, c), file' \in FileType, acked' = acked,
           NEW d, IsChain(d), Committed(d, file'.cells), file'.header # "ok" => file'.cells = << >>,
           Begins(acked, Contents(d)), Begins(Contents(d), Contents(c))
    PROVE  Allowed
<1> DEFINE l == Loaded(file.cells)
           m == Loaded(file'.cells)
<1>1. /\ file \in FileType /\ IsChain(c) /\ Committed(c, file.cells) /\ acked \in Seq(Records)
      /\ file.header # "ok" => file.cells = << >>
  BY Zenon DEF BookInv, Holding
<1>2. IsChain(l) /\ OneMore(c, l) /\ Content(file) = Contents(l)
  BY <1>1, Opens, Zenon
<1>3. IsChain(m) /\ OneMore(d, m) /\ Content(file') = Contents(m)
  BY Opens, Zenon
<1>4. Recoverable = Content(file) /\ Recoverable' = Content(file')
  BY Zenon DEF Recoverable, Content
<1> HIDE DEF l, m
<1> QED
  BY <1>1, <1>2, <1>3, <1>4, Promised, Zenon DEF Allowed

\* A step that leaves the disk alone and acknowledges nothing.
LEMMA Rests ==
    ASSUME NEW b, NEW c, Holding(b, c), UNCHANGED <<file, synced, entry, acked>>,
           pc' # "down" => /\ pc # "down" /\ chain' = chain
                           /\ handle' => handle \/ RenameFails
    PROVE  SafeInv' /\ Allowed
<1>1. Holding(b, c)'
  BY Zenon DEF Holding
<1>2. UNCHANGED <<Recoverable, acked>>
  BY DEF Recoverable
<1> QED
  BY <1>1, <1>2, Zenon DEF SafeInv, Allowed

\* A step after which the disk is as the file is.
LEMMA Settled ==
    ASSUME NEW d, IsChain(d), Committed(d, file'.cells), file'.header # "ok" => file'.cells = << >>,
           acked' \in Seq(Records), Begins(acked', Contents(d)),
           PowerFails => synced' = file' /\ entry' = << >>,
           pc' # "down" => /\ file'.header = "ok" /\ Contents(chain') = Contents(d)
                           /\ handle' \/ RenameFails => chain' = d
    PROVE  SafeInv'
<1>1. /\ d \in Seq(Frameable) /\ Begins(d, d)
      /\ \A k \in Len(d) + 1 .. Len(d) : d[k] \in Records
  BY HoldingWhole, Zenon
<1>2. PowerFails => /\ Committed(d, synced'.cells) /\ entry' = << >>
                    /\ synced'.header # "ok" => synced'.cells = << >>
  BY Zenon
<1>3. Holding(d, d)'
  BY <1>1, <1>2, Zenon DEF Holding
<1> QED
  BY <1>3, Zenon DEF SafeInv

\* What was acknowledged is behind every chain that continues what the disk holds.
LEMMA AckedBehind ==
    ASSUME NEW b, NEW c, Holding(b, c), NEW d, IsChain(d), Begins(b, d)
    PROVE  Begins(acked, Contents(d))
<1>1. /\ b \in Seq(Frameable) /\ d \in Seq(Frameable)
      /\ acked \in Seq(Records) /\ Begins(acked, Contents(b)) /\ Contents(d) \in Seq(Records)
  BY DEF Holding, IsChain
<1>2. Begins(Contents(b), Contents(d))
  BY <1>1, ContentsBegins, Zenon
<1>3. IsChain(b)
  BY <1>1, ChainBegins, Zenon
<1>4. Contents(b) \in Seq(Records)
  BY <1>3, Zenon DEF IsChain
<1> QED
  BY <1>1, <1>2, <1>4, BeginsTwice, Zenon

\* An empty log is created.
LEMMA SafeCreate ==
    ASSUME Environment, BookInv, BookInv', NEW b, NEW c, Holding(b, c), Create
    PROVE  SafeInv' /\ Allowed
<1>1. /\ file.header = "none" /\ file' = Formatted(<< >>) /\ synced' = file' /\ NameFile(NoFile)
      /\ pc' = "idle" /\ chain' = << >> /\ acked' = acked
  BY DEF Create
<1>2. file'.header = "ok" /\ file'.cells = << >> /\ file.header # "ok"
  BY <1>1 DEF Formatted
<1>3. c = << >> /\ Begins(b, c) /\ acked \in Seq(Records) /\ IsChain(c)
  <2>1. c \in Seq(Frameable) /\ Committed(c, << >>)
    BY <1>2, Zenon DEF Holding, IsChain
  <2> QED
    BY <2>1, HoldsNothing, Zenon DEF Holding
<1>4. Committed(c, file'.cells)
  BY <1>2, <1>3, HoldsNothing, Zenon
<1>5. Begins(acked, Contents(c))
  BY <1>3, AckedBehind, Zenon
<1>6. Begins(Contents(c), Contents(c))
  BY <1>3, BeginsFirst, Zenon DEF IsChain
<1>7. PowerFails => entry' = << >>
  BY <1>1, Zenon DEF Environment, NameFile
<1>8. SafeInv'
  BY <1>1, <1>2, <1>3, <1>4, <1>5, <1>7, Settled, Zenon
<1>9. file' \in FileType
  BY DEF BookInv
<1> QED
  BY <1>1, <1>2, <1>3, <1>4, <1>5, <1>6, <1>8, <1>9, Moved, Zenon

\* A header reaches an empty file.
LEMMA SafeCreateTorn ==
    ASSUME BookInv, BookInv', NEW b, NEW c, Holding(b, c), CreateTorn
    PROVE  SafeInv' /\ Allowed
<1>1. /\ file.header = "none" /\ pc = "down" /\ UNCHANGED <<synced, entry, pc, acked>>
      /\ \E header \in {"torn", "ok"} : file' = [file EXCEPT !.header = header]
  BY DEF CreateTorn, process
<1>2. file'.cells = file.cells /\ file.cells = << >>
  BY <1>1 DEF Holding, BookInv, FileType
<1>3. Holding(b, c)'
  BY <1>1, <1>2, Zenon DEF Holding
<1>4. Recoverable' = << >> /\ Recoverable = << >>
  BY <1>1, <1>2, HoldsNothing, EmptyFiles DEF Recoverable
<1> QED
  BY <1>1, <1>3, <1>4, Zenon DEF SafeInv, Allowed

\* After an open the file holds exactly what was loaded.
LEMMA OpenedLog ==
    ASSUME BookInv, OpenLog, NEW d, d = Loaded(file.cells)
    PROVE  /\ pc = "down" /\ file.header = "ok" /\ UNCHANGED <<entry, acked>>
           /\ IsChain(d) /\ Written(d, file.cells)
           /\ \/ UNCHANGED <<file, synced, pc, served>>
              \/ /\ pc' = "idle" /\ chain' = d /\ handle' = TRUE /\ served' = Contents(d)
                 /\ file'.header = "ok" /\ Committed(d, file'.cells)
                 /\ UNCHANGED <<file, synced>> \/ (file'.cells = Layout(d) /\ synced' = file')
<1>1. /\ pc = "down" /\ file.header = "ok" /\ UNCHANGED <<entry, acked>>
      /\ \E stop \in ScanStop(file.cells) :
            \/ UNCHANGED <<file, synced, pc, served>>
            \/ /\ pc' = "idle" /\ chain' = d /\ handle' = TRUE /\ served' = Contents(d)
               /\ file' = IF stop = "clean" THEN file ELSE Formatted(Layout(d))
               /\ synced' = IF stop = "clean" THEN synced ELSE file'
  BY Zenon DEF OpenLog
<1>2. file.cells \in Seq(ChainCells)
  BY DEF BookInv, FileType
<1>3. IsChain(d) /\ d \in Seq(Frameable) /\ Written(d, file.cells)
  BY <1>2, LoadedChain, Zenon DEF IsChain
<1>4. ASSUME "clean" \in ScanStop(file.cells) PROVE Committed(d, file.cells)
  <2>1. Len(file.cells) - Len(Layout(d)) = 0
    BY <1>4 DEF ScanStop
  <2>2. Len(file.cells) \in Nat /\ Len(Layout(d)) \in Nat
    BY <1>2, <1>3, LayoutCells
  <2>3. \A n \in Len(Layout(d)) + 1 .. Len(file.cells) : FALSE
    BY <2>1, <2>2
  <2> QED
    BY <1>3, <2>3 DEF Committed
<1>5. Committed(d, Layout(d))
  BY <1>3, ExactCommitted, Zenon
<1>6. /\ Formatted(Layout(d)).header = "ok" /\ Formatted(Layout(d)).cells = Layout(d)
  BY DEF Formatted
<1> QED
  BY <1>1, <1>3, <1>4, <1>5, <1>6

\* A write at the committed end leaves the chain committed.
LEMMA WroteFrame ==
    ASSUME BookInv, NEW r \in Records, AppendWrite(r), Committed(chain, file.cells)
    PROVE  file'.header = "ok" /\ Committed(chain, file'.cells)
<1>1. chain \in Seq(Frameable) /\ r \in Frameable /\ file.cells \in Seq(ChainCells)
  BY DEF BookInv, IsChain, Frameable, FileType
<1>2. Len(Frame(Append(chain, r))) = FrameCells(r) /\ FrameCells(r) \in Nat
  BY <1>1, FrameShape, Zenon
<1>3. PICK n \in 0 .. FrameCells(r) :
              file' = Formatted(Overlay(file.cells, Len(Layout(chain)), Frame(Append(chain, r)), n))
  BY <1>2 DEF AppendWrite
<1>4. /\ file'.header = "ok"
      /\ file'.cells = Overlay(file.cells, Len(Layout(chain)), Frame(Append(chain, r)), n)
  BY <1>3 DEF Formatted
<1>5. file.cells \in Seq(CellType)
  BY <1>1, ChainCellsTyped, Zenon
<1> QED
  BY <1>1, <1>4, <1>5, WriteCommitted, Zenon

\* When an append returns, the file holds the chain with the new record.
LEMMA AppendedFrame ==
    ASSUME BookInv, pc = "sync", Committed(chain, file.cells), NEW d, d = chain \o pending
    PROVE  /\ handle /\ file.header = "ok" /\ IsChain(d)
           /\ Loaded(file.cells) = d /\ Committed(d, file.cells)
<1>1. PICK r \in Records : /\ pending = <<r>> /\ IsChain(Append(chain, r))
                           /\ Written(Append(chain, r), file.cells)
  BY DEF BookInv
<1>2. d = Append(chain, r) /\ chain \in Seq(Frameable)
  BY <1>1 DEF BookInv, IsChain, Frameable
<1>3. file.cells \in Seq(CellType) /\ handle /\ file.header = "ok"
  BY ChainCellsTyped DEF BookInv, FileType
<1>4. /\ Loaded(file.cells) = Append(chain, r) /\ Committed(Append(chain, r), file.cells)
  BY <1>1, <1>2, <1>3, NextCommitted, Zenon
<1> QED
  BY <1>1, <1>2, <1>3, <1>4, Zenon

\* A rewrite replaces the log by the image of its chain.
LEMMA Rewritten ==
    ASSUME OneRewriteFault, BookInv, RewriteCommit, NEW d, d = pending
    PROVE  /\ pc = "rename" /\ pc' = "idle" /\ synced' = file' /\ NameFile(synced)
           /\ UNCHANGED <<acked, served>> /\ IsChain(d) /\ Contents(d) = Contents(chain)
           /\ file'.header = "ok" /\ Committed(d, file'.cells)
           /\ Contents(chain') = Contents(d) /\ (handle' \/ RenameFails => chain' = d)
<1>1. /\ pc = "rename" /\ pc' = "idle" /\ file' = Formatted(Layout(d)) /\ synced' = file'
      /\ NameFile(synced) /\ UNCHANGED <<acked, served>>
      /\ \/ chain' = d
         \/ ReopenFails /\ UNCHANGED <<chain, handle>>
  BY DEF RewriteCommit
<1>2. IsChain(chain) /\ d = <<Image(Contents(chain))>> /\ ~handle
  BY <1>1 DEF BookInv
<1>3. IsChain(d) /\ Contents(d) = Contents(chain)
  BY <1>2, ImageChain, Zenon
<1>4. file'.header = "ok" /\ file'.cells = Layout(d)
  BY <1>1 DEF Formatted
<1>5. Committed(d, file'.cells)
  BY <1>3, <1>4, ExactCommitted, Zenon DEF IsChain
<1>6. Contents(chain') = Contents(d) /\ (handle' \/ RenameFails => chain' = d)
  BY <1>1, <1>2, <1>3 DEF OneRewriteFault
<1> QED
  BY <1>1, <1>3, <1>4, <1>5, <1>6, Zenon

\* An open loads what the file holds, or one more record, and makes that the log.
LEMMA SafeOpenLog ==
    ASSUME BookInv, BookInv', NEW b, NEW c, Holding(b, c), OpenLog, NEW d, d = Loaded(file.cells)
    PROVE  SafeInv' /\ Allowed
<1>0. /\ pc = "down" /\ file.header = "ok" /\ UNCHANGED <<entry, acked>>
      /\ IsChain(d) /\ Written(d, file.cells)
      /\ \/ UNCHANGED <<file, synced, pc, served>>
         \/ /\ pc' = "idle" /\ chain' = d /\ handle' = TRUE /\ served' = Contents(d)
            /\ file'.header = "ok" /\ Committed(d, file'.cells)
            /\ UNCHANGED <<file, synced>> \/ (file'.cells = Layout(d) /\ synced' = file')
  BY OpenedLog, Zenon
<1>1. /\ file \in FileType /\ IsChain(c) /\ Committed(c, file.cells) /\ acked \in Seq(Records)
      /\ b \in Seq(Frameable) /\ Begins(b, c) /\ c \in Seq(Frameable)
  BY Zenon DEF BookInv, Holding, IsChain
<1>2. file.cells \in Seq(ChainCells)
  BY <1>1 DEF FileType
<1>3. IsChain(d) /\ OneMore(c, d) /\ d \in Seq(Frameable) /\ Written(d, file.cells)
  BY <1>1, <1>2, LoadsOneMore, LoadedChain, Zenon DEF IsChain
<1>4. Begins(b, d)
  BY <1>1, <1>3, BeginsTwice, Zenon DEF OneMore
<1>5. Begins(acked, Contents(d))
  BY <1>3, <1>4, AckedBehind, Zenon
<1>6. ASSUME UNCHANGED <<file, synced, pc>> PROVE SafeInv' /\ Allowed
  BY <1>0, <1>6, Rests, Zenon
<1>7. ASSUME UNCHANGED <<file, synced>>, pc' = "idle", chain' = d, Committed(d, file'.cells)
      PROVE  SafeInv' /\ Allowed
  <2>2. Committed(d, file.cells)
    BY <1>7, Zenon
  <2>3. \A k \in Len(b) + 1 .. Len(d) : d[k] \in Records
    <3>1. \A k \in Len(b) + 1 .. Len(c) : c[k] \in Records
      BY DEF Holding
    <3>2. Len(b) \in Nat /\ Len(c) \in Nat /\ Len(d) \in Nat
      BY <1>1, <1>3
    <3> QED
      BY <3>1, <3>2, <1>3, <1>1 DEF OneMore, Begins
  <2>4. /\ file.header # "ok" => file.cells = << >>
        /\ PowerFails => /\ Committed(b, synced.cells) /\ entry = << >>
                         /\ synced.header # "ok" => synced.cells = << >>
        /\ Begins(acked, Contents(b))
    BY Zenon DEF Holding
  <2>5. Holding(b, d)'
    BY <1>0, <1>1, <1>3, <1>4, <1>7, <2>2, <2>3, <2>4, Zenon DEF Holding
  <2>6. UNCHANGED <<Recoverable, acked>>
    BY <1>0, <1>7 DEF Recoverable
  <2> QED
    BY <2>5, <2>6, Zenon DEF SafeInv, Allowed
<1>8. ASSUME file'.header = "ok", file'.cells = Layout(d), synced' = file', pc' = "idle",
             chain' = d
      PROVE  SafeInv' /\ Allowed
  <2>2. Committed(d, Layout(d)) /\ Loaded(Layout(d)) = d
    BY <1>3, ExactCommitted, Zenon
  <2>3. PowerFails => entry' = << >>
    BY <1>0, Zenon DEF Holding
  <2>4. SafeInv'
    BY <1>0, <1>1, <1>3, <1>5, <1>8, <2>2, <2>3, Settled, Zenon
  <2>5. Recoverable' = Contents(d) /\ Recoverable = Contents(d)
    BY <1>0, <1>8, <2>2, Zenon DEF Recoverable
  <2> QED
    BY <1>0, <2>4, <2>5, Zenon DEF Allowed
<1> QED
  BY <1>0, <1>6, <1>7, <1>8

\* The frame of a new record is written, or a part of it.
LEMMA SafeAppendWrite ==
    ASSUME BookInv, BookInv', NEW b, NEW c, Holding(b, c), NEW r \in Records, AppendWrite(r)
    PROVE  SafeInv' /\ Allowed
<1>1. /\ pc = "idle" /\ handle /\ UNCHANGED <<synced, entry, chain, handle, acked>>
      /\ pc' \in {"idle", "sync"}
  BY DEF AppendWrite
<1>2. /\ IsChain(c) /\ b \in Seq(Frameable) /\ Begins(b, c) /\ chain = c
      /\ \A k \in Len(b) + 1 .. Len(c) : c[k] \in Records
      /\ Committed(c, file.cells) /\ acked \in Seq(Records) /\ Begins(acked, Contents(b))
      /\ PowerFails => /\ Committed(b, synced.cells) /\ entry = << >>
                       /\ synced.header # "ok" => synced.cells = << >>
  BY <1>1, Zenon DEF Holding
<1>3. file'.header = "ok" /\ Committed(c, file'.cells)
  BY <1>2, WroteFrame, Zenon
<1>4. Holding(b, c)'
  BY <1>1, <1>2, <1>3, Zenon DEF Holding
<1>5. Begins(acked, Contents(c)) /\ Begins(Contents(c), Contents(c)) /\ file' \in FileType
  BY <1>2, AckedBehind, BeginsFirst, Zenon DEF IsChain, BookInv
<1>6. Allowed
  BY <1>1, <1>2, <1>3, <1>5, Moved, Zenon
<1> QED
  BY <1>4, <1>6, Zenon DEF SafeInv

\* The append returns.
LEMMA SafeAppendCommit ==
    ASSUME Environment, BookInv, NEW b, NEW c, Holding(b, c), AppendCommit,
           NEW d, d = chain \o pending
    PROVE  SafeInv' /\ Allowed
<1>1. /\ pc = "sync" /\ pc' = "idle" /\ UNCHANGED <<file, entry, handle>>
      /\ \/ /\ synced' = IF Fsync THEN file ELSE synced
            /\ chain' = d /\ acked' = Contents(d)
         \/ synced' \in {synced, file} /\ UNCHANGED <<chain, acked>>
  BY Zenon DEF AppendCommit
<1>2. /\ file \in FileType /\ handle /\ chain = c /\ IsChain(c) /\ Committed(c, file.cells)
      /\ acked \in Seq(Records) /\ file.header = "ok" /\ Begins(b, c) /\ c \in Seq(Frameable)
  BY <1>1, Zenon DEF BookInv, Holding, IsChain
<1>5. PowerFails => entry' = << >>
  BY <1>1, Zenon DEF Holding
<1>6. CASE /\ synced' = IF Fsync THEN file ELSE synced
           /\ chain' = d /\ acked' = Contents(d)
  <2>2. Loaded(file.cells) = d /\ Committed(d, file.cells) /\ IsChain(d)
    BY <1>1, <1>2, AppendedFrame, Zenon
  <2>3. acked' \in Seq(Records) /\ Begins(acked', Contents(d))
    BY <1>6, <2>2, BeginsFirst, Zenon DEF IsChain
  <2>4. PowerFails => synced' = file'
    BY <1>1, <1>6, Zenon DEF Environment
  <2>5. SafeInv'
    BY <1>1, <1>2, <1>5, <1>6, <2>2, <2>3, <2>4, Settled, Zenon
  <2>6. Recoverable = Contents(d) /\ Recoverable' = Recoverable
    BY <1>1, <1>2, <2>2, Zenon DEF Recoverable
  <2>7. Promise!Acknowledge
    BY <1>6, <2>6, Zenon DEF Promise!Acknowledge
  <2> QED
    BY <2>5, <2>7, Zenon DEF Allowed, Promise!Next
<1>7. CASE synced' \in {synced, file} /\ UNCHANGED <<chain, acked>>
  <2>1. CASE synced' = synced
    BY <1>1, <1>7, <2>1, Rests, Zenon
  <2>2. CASE synced' = file
    <3>1. Begins(acked', Contents(c))
      BY <1>2, <1>7, AckedBehind, Zenon
    <3>2. SafeInv'
      BY <1>1, <1>2, <1>5, <1>7, <2>2, <3>1, Settled, Zenon
    <3>3. UNCHANGED <<Recoverable, acked>>
      BY <1>1, <1>7 DEF Recoverable
    <3> QED
      BY <3>2, <3>3, Zenon DEF Allowed
  <2> QED
    BY <1>7, <2>1, <2>2, Zenon
<1> QED
  BY <1>1, <1>6, <1>7, Zenon

\* The image of the log takes its place.
LEMMA SafeRewriteCommit ==
    ASSUME Environment, BookInv, BookInv', NEW b, NEW c, Holding(b, c), RewriteCommit,
           NEW d, d = pending
    PROVE  SafeInv' /\ Allowed
<1>1. /\ pc = "rename" /\ pc' = "idle" /\ synced' = file' /\ NameFile(synced)
      /\ UNCHANGED <<acked, served>> /\ IsChain(d) /\ Contents(d) = Contents(chain)
      /\ file'.header = "ok" /\ Committed(d, file'.cells)
      /\ Contents(chain') = Contents(d) /\ (handle' \/ RenameFails => chain' = d)
  BY Rewritten, Zenon DEF Environment
<1>2. Contents(chain) = Contents(c) /\ Begins(b, c) /\ IsChain(c) /\ acked \in Seq(Records)
  BY <1>1, Zenon DEF Holding
<1>3. Begins(acked, Contents(d)) /\ Begins(Contents(d), Contents(c))
  BY <1>1, <1>2, AckedBehind, BeginsFirst, Zenon DEF IsChain
<1>4. PowerFails => entry' = << >>
  BY <1>1, Zenon DEF NameFile, Environment
<1>5. acked' = acked /\ file' \in FileType
  BY <1>1 DEF BookInv
<1>6. SafeInv'
  BY <1>1, <1>2, <1>3, <1>4, <1>5, Settled, Zenon
<1> QED
  BY <1>1, <1>3, <1>5, <1>6, Moved, Zenon

\* The power fails: the file is cut back to a chain that continues what the disk held.
LEMMA SafePowerLoss ==
    ASSUME Environment, BookInv, BookInv', NEW b, NEW c, Holding(b, c), PowerLoss
    PROVE  SafeInv' /\ Allowed
<1>1. /\ PowerFails /\ synced' = file' /\ entry' = << >> /\ pc' = "down" /\ acked' = acked
      /\ \/ file.header = "ok" /\ synced.header = "ok" /\ file' \in Survivors
         \/ file' \in {file, synced}
         \/ entry # << >>
  BY DEF PowerLoss, Down
<1>2. /\ file \in FileType /\ synced \in FileType /\ file' \in FileType
      /\ IsChain(c) /\ b \in Seq(Frameable) /\ c \in Seq(Frameable) /\ Begins(b, c)
      /\ \A k \in Len(b) + 1 .. Len(c) : c[k] \in Records
      /\ Committed(c, file.cells) /\ Committed(b, synced.cells) /\ acked \in Seq(Records)
      /\ file.header # "ok" => file.cells = << >>
      /\ synced.header # "ok" => synced.cells = << >>
      /\ entry = << >>
  BY <1>1, Zenon DEF BookInv, Holding, IsChain
<1>3. Begins(b, b) /\ Begins(c, c)
  BY <1>2, BeginsFirst, Zenon
<1>4. PICK d \in Seq(Frameable) :
              /\ Begins(b, d) /\ Begins(d, c) /\ Committed(d, file'.cells)
              /\ file'.header # "ok" => file'.cells = << >>
  <2>1. CASE file' = file
    BY <1>2, <1>3, <2>1, Zenon
  <2>2. CASE file' = synced
    BY <1>2, <1>3, <2>2, Zenon
  <2>3. CASE file' \in Survivors
    <3>1. PICK n \in 0 .. Len(file.cells) :
                  file' = Formatted(Overlay(synced.cells, 0, file.cells, n))
      BY <2>3 DEF Survivors
    <3>2. file'.header = "ok" /\ file'.cells = Overlay(synced.cells, 0, file.cells, n)
      BY <3>1 DEF Formatted
    <3>3. file.cells \in Seq(CellType) /\ synced.cells \in Seq(CellType)
      BY <1>2, ChainCellsTyped, Zenon DEF FileType
    <3> QED
      BY <1>2, <3>2, <3>3, MixCommitted, Zenon
  <2> QED
    BY <1>1, <1>2, <2>1, <2>2, <2>3, Zenon
<1>5. IsChain(d)
  BY <1>2, <1>4, ChainBegins, Zenon
<1>6. Begins(acked, Contents(d)) /\ Begins(Contents(d), Contents(c))
  BY <1>2, <1>4, <1>5, AckedBehind, ContentsBegins, Zenon
<1>7. SafeInv'
  BY <1>1, <1>2, <1>4, <1>5, <1>6, Settled, Zenon
<1> QED
  BY <1>1, <1>2, <1>4, <1>5, <1>6, <1>7, Moved, Zenon

\* Every step keeps what was acknowledged and is one the promise allows.
LEMMA SafeStep ==
    ASSUME Environment, BookInv, BookInv', damaged \in Nat, SafeInv, [Next]_vars
    PROVE  SafeInv' /\ Allowed
<1> PICK b, c : Holding(b, c)
  BY Zenon DEF SafeInv
<1>1. CASE UNCHANGED vars
  <2>1. UNCHANGED <<file, synced, entry, acked, pc, chain, handle>>
    BY <1>1 DEF vars, disk, process, history
  <2> QED
    BY <2>1, Rests, Zenon
<1>2. CASE OpenRefused
  <2>1. UNCHANGED <<file, synced, entry, acked, pc, chain, handle>>
    BY <1>2 DEF OpenRefused, process
  <2> QED
    BY <2>1, Rests, Zenon
<1>3. CASE Exit
  <2>1. UNCHANGED <<file, synced, entry, acked>> /\ pc' = "down"
    BY <1>3 DEF Exit, disk, Down
  <2> QED
    BY <2>1, Rests, Zenon
<1>4. CASE RewriteTarget
  <2>1. /\ UNCHANGED <<file, synced, entry, acked, chain>> /\ pc = "idle"
        /\ handle' => handle
    BY <1>4 DEF RewriteTarget
  <2> QED
    BY <2>1, Rests, Zenon
<1>5. CASE RewriteAbort
  <2>1. UNCHANGED <<file, synced, entry, acked, chain>> /\ pc = "rename" /\ RenameFails
    BY <1>5 DEF RewriteAbort
  <2> QED
    BY <2>1, Rests, Zenon
<1>6. CASE OpenLog
  BY <1>6, SafeOpenLog, Zenon
<1>7. CASE AppendCommit
  BY <1>7, SafeAppendCommit, Zenon
<1>8. CASE RewriteCommit
  BY <1>8, SafeRewriteCommit, Zenon
<1>9. CASE Damage
  BY <1>9 DEF Damage, Environment
<1> QED
  BY <1>1, <1>2, <1>3, <1>4, <1>5, <1>6, <1>7, <1>8, <1>9, SafeCreate, SafeCreateTorn,
     SafeAppendWrite, SafePowerLoss, Zenon DEF Next

\* No file holds the empty chain.
LEMMA SafeInit == ASSUME Init PROVE SafeInv
<1>1. /\ file = NoFile /\ synced = NoFile /\ entry = << >> /\ pc = "down" /\ acked = << >>
  BY DEF Init
<1>2. file.cells = << >> /\ synced.cells = << >>
  BY <1>1 DEF NoFile
<1>3. /\ Committed(<< >>, << >>) /\ IsChain(<< >>) /\ Contents(<< >>) = << >>
  BY HoldsNothing, EmptyFiles, Zenon
<1>4. /\ << >> \in Seq(Frameable) /\ Begins(<< >>, << >>)
      /\ \A k \in Len(<< >>) + 1 .. Len(<< >>) : << >>[k] \in Records
  BY <1>3, HoldingWhole, Zenon
<1>5. << >> \in Seq(Records)
  OBVIOUS
<1>6. Holding(<< >>, << >>)
  BY <1>1, <1>2, <1>3, <1>4, <1>5, Zenon DEF Holding
<1> QED
  BY <1>6, Zenon DEF SafeInv

\* Nothing has rotted before something rots.
LEMMA DamageCounted == Spec => [](damaged \in Nat)
<1>1. Init => damaged \in Nat
  BY DEF Init
<1>2. damaged \in Nat /\ [Next]_vars => (damaged \in Nat)'
  BY DEF Next, vars, disk, process, history, Create, CreateTorn, OpenLog, OpenRefused,
         AppendWrite, AppendCommit, RewriteTarget, RewriteCommit, RewriteAbort, Exit,
         PowerLoss, Damage
<1> QED
  BY <1>1, <1>2, PTL DEF Spec

\* The chain the file holds always covers what was acknowledged.
LEMMA SafeHolds == ASSUME Environment PROVE Spec => []SafeInv
<1> OneRewriteFault
  BY DEF Environment
<1>1. Init => SafeInv
  BY SafeInit
<1>2. BookInv /\ BookInv' /\ damaged \in Nat /\ SafeInv /\ [Next]_vars => SafeInv'
  BY SafeStep
<1>3. Spec => []BookInv
  BY BookHolds
<1> QED
  BY <1>1, <1>2, <1>3, DamageCounted, PTL DEF Spec

\* Everything acknowledged is in the hands of the registry while the store is open,
\* whatever writes, syncs, renames, processes and power supplies failed before.
THEOREM AcknowledgedStaysServed == ASSUME Environment PROVE Spec => []AcknowledgedServed
<1>1. ASSUME BookInv, SafeInv PROVE AcknowledgedServed
  <2> SUFFICES ASSUME pc # "down" PROVE IsPrefix(acked, Contents(chain))
    BY DEF AcknowledgedServed
  <2>1. PICK b, c : Holding(b, c)
    BY <1>1, Zenon DEF SafeInv
  <2>2. IsChain(c) /\ Begins(b, c) /\ Contents(chain) = Contents(c) /\ acked \in Seq(Records)
    BY <2>1, Zenon DEF Holding
  <2>3. Begins(acked, Contents(c))
    BY <2>1, <2>2, AckedBehind, Zenon
  <2> QED
    BY <2>2, <2>3, PrefixBegins, Zenon DEF IsChain
<1>2. Spec => []BookInv
  <2>1. OneRewriteFault
    BY DEF Environment
  <2> QED
    BY <2>1, BookHolds
<1> QED
  BY <1>1, <1>2, SafeHolds, PTL

\* The store implements the log the registry relies on: what an open would load changes
\* only as AtomicLog allows, so no acknowledged record is ever lost, altered or reordered.
THEOREM StoreKeepsPromise == ASSUME Environment PROVE Spec => KeepsPromise
<1>0. OneRewriteFault
  BY DEF Environment
<1>1. Init => Promise!Init
  BY DEF Init, Promise!Init, Recoverable, NoFile
<1>2. BookInv /\ BookInv' /\ damaged \in Nat /\ SafeInv /\ [Next]_vars
      => [Promise!Next]_(Promise!vars)
  BY SafeStep DEF Allowed, Promise!vars
<1>3. Spec => []BookInv
  BY <1>0, BookHolds
<1> QED
  BY <1>1, <1>2, <1>3, SafeHolds, DamageCounted, PTL DEF Spec, KeepsPromise, Promise!Spec

-----------------------------------------------------------------------------
(***************************************************************************)
(* Damage. No power loss here: one can bring back an unacknowledged record *)
(* that was since overwritten, also unacknowledged, and served in between. *)
(***************************************************************************)
\* One log begins the other.
Comparable(s, t) == Begins(s, t) \/ Begins(t, s)

\* What the registry holds is behind the chain in the file; once the store is down, what
\* an open would load begins what the registry held, or continues it.
Serving(c) ==
    /\ IsChain(c) /\ Committed(c, file.cells) /\ Contents(c) = served
    /\ Contents(chain) = served /\ (handle \/ RenameFails => chain = c)

ServedInv ==
    /\ file.header # "ok" => file.cells = << >>
    /\ served \in Seq(Records)
    /\ pc = "down" => Comparable(Contents(Loaded(file.cells)), served)
    /\ pc # "down" => file.header = "ok" /\ \E c : Serving(c)

\* A rotten cell ends the log: the scan cannot skip it.
LEMMA RotEnds ==
    ASSUME NEW cells \in Seq(ChainCells), NEW n \in 1 .. Len(cells),
           NEW new, new = [cells EXCEPT ![n] = Rot]
    PROVE  new \in Seq(ChainCells) /\ Begins(Loaded(new), Loaded(cells))
<1> DEFINE d == Loaded(new)
           k == Len(Layout(d))
<1>1. new \in Seq(ChainCells) /\ Len(new) = Len(cells)
      /\ \A i \in 1 .. Len(cells) : new[i] = IF i = n THEN Rot ELSE cells[i]
  BY EmptyFiles
<1>2. cells \in Seq(CellType) /\ new \in Seq(CellType)
  BY <1>1, ChainCellsTyped, Zenon
<1>3. d \in Seq(Frameable) /\ Written(d, new)
  BY <1>2, LoadedLongest, Zenon
<1>4. /\ k \in Nat /\ k <= Len(new) /\ \A i \in 1 .. k : Layout(d)[i] = new[i]
  BY <1>3, LayoutCells, Zenon DEF Written, Begins
<1>5. \A i \in 1 .. k : i # n
  <2> SUFFICES ASSUME n \in 1 .. k PROVE FALSE
    OBVIOUS
  <2>1. Layout(d)[n] = Rot
    BY <1>1, <1>4, Zenon
  <2>2. PICK j \in 1 .. Len(d) : Layout(d)[n].chain = First(d, j)
    BY <1>3, LayoutCells, Zenon
  <2>3. Len(First(d, j)) = j
    BY <1>3, BeginsFirst
  <2>4. Rot.chain = << >>
    BY DEF Rot
  <2>5. Len(<< >>) = j
    BY <2>1, <2>2, <2>3, <2>4, Zenon
  <2> QED
    BY <2>5
<1>6. \A i \in 1 .. k : Layout(d)[i] = cells[i]
  <2>1. \A i \in 1 .. k : i \in 1 .. Len(cells)
    BY <1>1, <1>4
  <2> HIDE DEF d, k
  <2> QED
    BY <1>1, <1>4, <1>5, <2>1, Zenon
<1>7. Written(d, cells)
  BY <1>1, <1>4, <1>6, Zenon DEF Written, Begins
<1>8. /\ Loaded(cells) \in Seq(Frameable) /\ Written(Loaded(cells), cells)
      /\ Len(d) <= Len(Loaded(cells))
  BY <1>2, <1>3, <1>7, LoadedLongest, Zenon
<1> QED
  BY <1>1, <1>3, <1>7, <1>8, OneFile, Zenon

\* What begins one of two comparable logs is comparable to the other.
LEMMA StillComparable ==
    ASSUME NEW S, NEW r \in Seq(S), NEW s \in Seq(S), NEW t \in Seq(S),
           Begins(r, s), Comparable(s, t)
    PROVE  Comparable(r, t)
<1>1. CASE Begins(s, t)
  BY <1>1, BeginsTwice, Zenon DEF Comparable
<1>2. CASE Begins(t, s)
  <2>1. Len(r) <= Len(t) \/ Len(t) <= Len(r)
    OBVIOUS
  <2> QED
    BY <1>2, <2>1, BeginsTwice, Zenon DEF Comparable
<1> QED
  BY <1>1, <1>2, Zenon DEF Comparable

\* When the store goes down, an open would load what the registry held, or one more.
LEMMA ServedAtExit ==
    ASSUME BookInv, ServedInv
    PROVE  Comparable(Contents(Loaded(file.cells)), served)
<1>1. CASE pc = "down"
  BY <1>1, Zenon DEF ServedInv
<1>2. CASE pc # "down"
  <2>1. PICK c : Serving(c)
    BY <1>2, Zenon DEF ServedInv
  <2>2. file.cells \in Seq(ChainCells)
    BY DEF BookInv, FileType
  <2>3. IsChain(Loaded(file.cells)) /\ OneMore(c, Loaded(file.cells)) /\ IsChain(c)
    BY <2>1, <2>2, LoadsOneMore, Zenon DEF Serving
  <2>4. Begins(Contents(c), Contents(Loaded(file.cells)))
    BY <2>3, ContentsBegins, Zenon DEF OneMore, IsChain
  <2> QED
    BY <2>1, <2>4, Zenon DEF Serving, Comparable
<1> QED
  BY <1>1, <1>2

\* Every step keeps what an open would load in line with what the registry held.
LEMMA ServedStep ==
    ASSUME OneRewriteFault, ~PowerFails, BookInv, BookInv', ServedInv, [Next]_vars
    PROVE  ServedInv'
<1>0. /\ file.header # "ok" => file.cells = << >>
      /\ served \in Seq(Records)
      /\ pc # "down" => file.header = "ok" /\ \E c : Serving(c)
      /\ Comparable(Contents(Loaded(file.cells)), served)
      /\ file.cells \in Seq(ChainCells)
  <2>1. file.cells \in Seq(ChainCells)
    BY DEF BookInv, FileType
  <2> QED
    BY <2>1, ServedAtExit, Zenon DEF ServedInv
<1>1. ASSUME UNCHANGED <<file, served>>,
             pc' # "down" => pc # "down" /\ chain' = chain /\ (handle' => handle \/ RenameFails)
      PROVE  ServedInv'
  <2>1. ASSUME pc' # "down" PROVE file'.header = "ok" /\ \E c : Serving(c)'
    <3>1. PICK c : Serving(c)
      BY <1>0, <1>1, <2>1, Zenon
    <3>2. Serving(c)'
      BY <1>1, <2>1, <3>1 DEF Serving
    <3>3. file'.header = "ok"
      BY <1>0, <1>1, <2>1
    <3> QED
      BY <3>2, <3>3, Zenon
  <2> QED
    BY <1>0, <1>1, <2>1, Zenon DEF ServedInv
<1>2. ASSUME NEW c, IsChain(c), Committed(c, file'.cells), Contents(c) = served',
             file'.header = "ok", Contents(chain') = served',
             handle' \/ RenameFails => chain' = c, pc' # "down"
      PROVE  ServedInv'
  <2>1. Serving(c)' /\ served' \in Seq(Records)
    BY <1>2, Zenon DEF Serving, IsChain
  <2> QED
    BY <1>2, <2>1, Zenon DEF ServedInv
<1>3. CASE UNCHANGED vars \/ OpenRefused
  <2>1. UNCHANGED <<file, served, pc, chain, handle>>
    BY <1>3 DEF vars, disk, process, history, OpenRefused
  <2> QED
    BY <1>1, <2>1, Zenon
<1>4. CASE Exit
  <2>1. UNCHANGED <<file, served>> /\ pc' = "down"
    BY <1>4 DEF Exit, disk, Down
  <2> QED
    BY <1>1, <2>1, Zenon
<1>5. CASE RewriteTarget \/ RewriteAbort
  <2>1. /\ UNCHANGED <<file, served, chain>> /\ pc \in {"idle", "rename"}
        /\ handle' => handle \/ RenameFails
    BY <1>5 DEF RewriteTarget, RewriteAbort
  <2> QED
    BY <1>1, <2>1
<1>6. CASE Create
  <2>1. file' = Formatted(<< >>) /\ pc' = "idle" /\ chain' = << >> /\ served' = << >>
    BY <1>6 DEF Create
  <2>2. file'.header = "ok" /\ file'.cells = << >> /\ pc' # "down"
    BY <2>1 DEF Formatted
  <2>3. IsChain(<< >>) /\ Contents(<< >>) = << >> /\ Committed(<< >>, << >>)
    BY EmptyFiles, HoldsNothing, Zenon
  <2> QED
    BY <1>2, <2>1, <2>2, <2>3, Zenon
<1>7. CASE CreateTorn
  <2>1. /\ file.header = "none" /\ pc = "down" /\ UNCHANGED <<pc, served>>
        /\ \E header \in {"torn", "ok"} : file' = [file EXCEPT !.header = header]
    BY <1>7 DEF CreateTorn, process
  <2>2. file'.cells = file.cells /\ file.cells = << >>
    BY <1>0, <2>1 DEF BookInv, FileType
  <2> QED
    BY <1>0, <2>1, <2>2, Zenon DEF ServedInv
<1>8. CASE OpenLog
  <2> PICK d : d = Loaded(file.cells)
    OBVIOUS
  <2>1. /\ pc = "down" /\ IsChain(d)
        /\ \/ UNCHANGED <<file, pc, served>>
           \/ /\ pc' = "idle" /\ chain' = d /\ served' = Contents(d)
              /\ file'.header = "ok" /\ Committed(d, file'.cells)
    BY <1>8, OpenedLog, Zenon
  <2> QED
    BY <1>1, <1>2, <2>1
<1>9. ASSUME NEW r \in Records, AppendWrite(r) PROVE ServedInv'
  <2>1. pc = "idle" /\ handle /\ pc' \in {"idle", "sync"} /\ UNCHANGED <<served, chain, handle>>
    BY <1>9 DEF AppendWrite
  <2>2. Serving(chain)
    BY <1>0, <2>1, Zenon DEF Serving
  <2>3. file'.header = "ok" /\ Committed(chain, file'.cells)
    BY <1>9, <2>2, WroteFrame, Zenon DEF Serving
  <2> PICK c : c = chain
    OBVIOUS
  <2> QED
    BY <1>2, <2>1, <2>2, <2>3, Zenon DEF Serving
<1>10. CASE AppendCommit
  <2> PICK d : d = chain \o pending
    BY Zenon
  <2>1. /\ pc = "sync" /\ pc' = "idle" /\ UNCHANGED <<file, handle>>
        /\ \/ chain' = d /\ served' = Contents(d)
           \/ UNCHANGED <<chain, served>>
    BY <1>10, Zenon DEF AppendCommit
  <2>2. handle
    BY <2>1 DEF BookInv
  <2>3. Committed(chain, file.cells)
    BY <1>0, <2>1, <2>2, Zenon DEF Serving
  <2>4. file.header = "ok" /\ IsChain(d) /\ Committed(d, file.cells)
    BY <2>1, <2>3, AppendedFrame, Zenon
  <2> QED
    BY <1>1, <1>2, <2>1, <2>4, Zenon
<1>11. CASE RewriteCommit
  <2> PICK d : d = pending
    OBVIOUS
  <2>1. /\ pc = "rename" /\ pc' = "idle" /\ served' = served
        /\ IsChain(d) /\ Contents(d) = Contents(chain)
        /\ file'.header = "ok" /\ Committed(d, file'.cells)
        /\ Contents(chain') = Contents(d) /\ (handle' \/ RenameFails => chain' = d)
    BY <1>11, Rewritten
  <2>2. Contents(chain) = served
    BY <1>0, <2>1, Zenon DEF Serving
  <2> QED
    BY <1>2, <2>1, <2>2
<1>12. CASE Damage
  <2>1. PICK n \in DOMAIN file.cells : file' = [file EXCEPT !.cells[n] = Rot]
    BY <1>12, Zenon DEF Damage
  <2>2. pc = "down" /\ UNCHANGED <<pc, served>>
    BY <1>12 DEF Damage, process
  <2>3. /\ n \in 1 .. Len(file.cells)
        /\ file'.cells = [file.cells EXCEPT ![n] = Rot] /\ file'.header = file.header
    <3>1. file \in FileType
      BY Zenon DEF BookInv
    <3> QED
      BY <2>1, <3>1, RottenFile, Zenon
  <2>5. file'.cells \in Seq(ChainCells) /\ Begins(Loaded(file'.cells), Loaded(file.cells))
    BY <1>0, <2>3, RotEnds, Zenon
  <2>6. IsChain(Loaded(file.cells)) /\ IsChain(Loaded(file'.cells))
    BY <1>0, <2>5, LoadedChain, Zenon
  <2>7. Begins(Contents(Loaded(file'.cells)), Contents(Loaded(file.cells)))
    BY <2>5, <2>6, ContentsBegins, Zenon DEF IsChain
  <2>8. Comparable(Contents(Loaded(file'.cells)), served)
    BY <1>0, <2>6, <2>7, StillComparable, Zenon DEF IsChain
  <2>9. file.header = "ok"
    BY <1>0, <2>3
  <2> QED
    BY <1>0, <2>2, <2>3, <2>8, <2>9, Zenon DEF ServedInv
<1>13. CASE PowerLoss
  BY <1>13 DEF PowerLoss
<1> QED
  BY <1>3, <1>4, <1>5, <1>6, <1>7, <1>8, <1>9, <1>10, <1>11, <1>12, <1>13, Zenon DEF Next

\* README: "the chain catches a removed, reordered or spliced one".  Whichever cells of the
\* file rot, and however many, an open hands over a first part of what the registry held
\* before, or all of it and more.
THEOREM ChainCatchesSplices ==
    ASSUME OneRewriteFault, ~PowerFails
    PROVE  Spec => NothingSpliced
<1>1. Init => ServedInv
  <2> SUFFICES ASSUME Init PROVE ServedInv
    OBVIOUS
  <2>1. file.cells = << >> /\ pc = "down" /\ served = << >>
    BY DEF Init, NoFile
  <2>2. Loaded(<< >>) = << >> /\ Contents(<< >>) = << >> /\ Begins(<< >>, << >>)
    BY HoldsNothing, EmptyFiles, HoldingWhole, Zenon
  <2>3. << >> \in Seq(Records)
    OBVIOUS
  <2> QED
    BY <2>1, <2>2, <2>3, Zenon DEF ServedInv, Comparable
<1>2. BookInv /\ BookInv' /\ ServedInv /\ [Next]_vars => ServedInv'
  BY ServedStep
<1>3. Spec => []BookInv
  BY BookHolds
<1>4. ASSUME BookInv, ServedInv, Next, pc = "down", pc' = "idle"
      PROVE  IsPrefix(served', served) \/ IsPrefix(served, served')
  <2>1. /\ served \in Seq(Records) /\ Comparable(Contents(Loaded(file.cells)), served)
        /\ file.cells \in Seq(ChainCells)
    BY <1>4 DEF ServedInv, BookInv, FileType
  <2>2. CASE Create
    <3>1. served' = << >>
      BY <2>2 DEF Create
    <3>2. << >> \in Seq(Records) /\ Begins(<< >>, served)
      BY <2>1 DEF Begins
    <3> QED
      BY <2>1, <3>1, <3>2, PrefixBegins, Zenon
  <2>3. CASE OpenLog
    <3>1. served' = Contents(Loaded(file.cells))
      BY <1>4, <2>3, OpenedLog, Zenon
    <3>2. Contents(Loaded(file.cells)) \in Seq(Records)
      BY <2>1, LoadedChain, Zenon DEF IsChain
    <3> QED
      BY <2>1, <3>1, <3>2, PrefixBegins, Zenon DEF Comparable
  <2>4. CASE ~Create /\ ~OpenLog
    BY <1>4, <2>4 DEF Next, CreateTorn, OpenRefused, AppendWrite, AppendCommit, RewriteTarget,
       RewriteCommit, RewriteAbort, Exit, PowerLoss, Down, Damage, process
  <2> QED
    BY <2>2, <2>3, <2>4
<1>5. BookInv /\ ServedInv /\ [Next]_vars
      => [pc = "down" /\ pc' = "idle" =>
             IsPrefix(served', served) \/ IsPrefix(served, served')]_vars
  BY <1>4
<1> QED
  BY <1>1, <1>2, <1>3, <1>5, PTL DEF Spec, NothingSpliced
==================================================================================
