------------------------- MODULE DroidReviewProofs -------------------------
(***************************************************************************)
(* Proofs about DroidReview: the planned shards partition the changed      *)
(* files, for any number of files, directories and places in a shard, and  *)
(* a posted summary accounts for every finding, whatever comments fail.    *)
(***************************************************************************)
EXTENDS DroidReview, ListProofs, FiniteSetTheorems

(***************************************************************************)
(* plan_shards.                                                            *)
(***************************************************************************)
Bins == Seq(FileList)

\* What is cut from a list of files: no chunk is empty or too long, and no file
\* is in two places.
Chunked(l) ==
    /\ l \in Bins /\ Apart(l)
    /\ \A n \in DOMAIN l : Len(l[n]) \in 1 .. MaxFiles

LEMMA NoneHeldLemma == Held(<<>>) = {} /\ Apart(<<>>)
BY DEF Held, Apart

LEMMA OneLemma ==
    ASSUME NEW f \in Paths
    PROVE  /\ <<f>> \in FileList /\ Len(<<f>>) = 1
           /\ Elements(<<f>>) = {f} /\ Distinct(<<f>>)
BY DEF FileList, Elements, Distinct

LEMMA AddFileType ==
    ASSUME NEW l \in Bins, NEW f \in Paths
    PROVE  AddFile(l, f) \in Bins
<1>1. <<f>> \in FileList
    BY DEF FileList
<1>2. CASE l = <<>> \/ Len(l[Len(l)]) >= MaxFiles
    BY <1>1, <1>2 DEF AddFile, Bins
<1>3. CASE ~(l = <<>> \/ Len(l[Len(l)]) >= MaxFiles)
    <2>1. Len(l) \in DOMAIN l /\ l[Len(l)] \in FileList
        BY <1>3 DEF Bins
    <2>2. l[Len(l)] \o <<f>> \in FileList
        BY <1>1, <2>1 DEF FileList
    <2> QED
        BY <1>3, <2>1, <2>2 DEF AddFile, Bins
<1> QED
    BY <1>2, <1>3

LEMMA AddFileLemma ==
    ASSUME ReviewConstants, NEW l, Chunked(l), NEW f \in Paths, f \notin Held(l)
    PROVE  Chunked(AddFile(l, f)) /\ Held(AddFile(l, f)) = Held(l) \cup {f}
<1> DEFINE c == <<f>>
           S == Paths
<1>1. /\ c \in Seq(S) /\ Len(c) = 1 /\ Elements(c) = {f} /\ Distinct(c)
      /\ MaxFiles \in Nat \ {0}
    BY OneLemma DEF FileList, ReviewConstants
<1>2. l \in Seq(Seq(S)) /\ Apart(l) /\ Elements(c) \cap Held(l) = {}
    BY <1>1 DEF Chunked, Bins, FileList
<1> HIDE DEF c, S
<1>3. CASE l = <<>> \/ Len(l[Len(l)]) >= MaxFiles
    <2>1. AddFile(l, f) = Append(l, c)
        BY <1>3 DEF AddFile, c
    <2>2. /\ Append(l, c) \in Seq(Seq(S)) /\ Apart(Append(l, c))
          /\ Held(Append(l, c)) = Held(l) \cup Elements(c)
        BY <1>1, <1>2, AppendHeldLemma
    <2>3. \A n \in DOMAIN Append(l, c) : Len(Append(l, c)[n]) \in 1 .. MaxFiles
        <3>1. /\ DOMAIN Append(l, c) = DOMAIN l \cup {Len(l) + 1} /\ Append(l, c)[Len(l) + 1] = c
              /\ \A n \in DOMAIN l : Append(l, c)[n] = l[n]
            BY <1>1, <1>2
        <3>2. Len(c) \in 1 .. MaxFiles
            BY <1>1
        <3> QED
            BY <3>1, <3>2 DEF Chunked
    <2> QED
        BY <1>1, <2>1, <2>2, <2>3 DEF Chunked, Bins, FileList, S
<1>4. CASE ~(l = <<>> \/ Len(l[Len(l)]) >= MaxFiles)
    <2> DEFINE p == Len(l)
               k == [l EXCEPT ![p] = @ \o c]
    <2>1. p \in DOMAIN l /\ AddFile(l, f) = k
        BY <1>2, <1>4 DEF AddFile, c
    <2>2. l[p] \in Seq(S) /\ Len(l[p]) \in 1 .. MaxFiles /\ ~(Len(l[p]) >= MaxFiles)
        BY <1>2, <1>4, <2>1 DEF Chunked
    <2> HIDE DEF p
    <2> DEFINE q == l[p]
    <2>3. k \in Seq(Seq(S)) /\ Apart(k) /\ Held(k) = Held(l) \cup Elements(c)
        <3>1. p \in DOMAIN l
            BY <2>1
        <3>2. c \in Seq(S) /\ Distinct(c) /\ Extended(k, l, p, c)
            BY <1>1 DEF Extended
        <3> HIDE DEF k
        <3> QED
            BY <1>2, <3>1, <3>2, ExtendHeldLemma
    <2>4. Len(l[p] \o c) \in 1 .. MaxFiles
        <3>1. q \in Seq(S) /\ c \in Seq(S) /\ Len(c) = 1
            BY <1>1, <2>2
        <3>2. Len(q) \in 1 .. MaxFiles /\ ~(Len(q) >= MaxFiles) /\ MaxFiles \in Nat
            BY <1>1, <2>2
        <3> HIDE DEF q
        <3>3. Len(q \o c) = Len(q) + Len(c)
            BY <3>1, LenConcatLemma
        <3>4. Len(q \o c) \in 1 .. MaxFiles
            BY <3>1, <3>2, <3>3
        <3> QED
            BY <3>4 DEF q
    <2>5. \A n \in DOMAIN k : Len(k[n]) \in 1 .. MaxFiles
        BY <2>1, <2>4 DEF Chunked
    <2> QED
        BY <1>1, <2>1, <2>3, <2>5 DEF Chunked, Bins, FileList, S
<1> QED
    BY <1>3, <1>4

\* The first n elements of a list.
First(s, n) == {s[m] : m \in 1 .. n}

LEMMA FirstLemma ==
    ASSUME NEW S, NEW s \in Seq(S)
    PROVE  /\ First(s, 0) = {} /\ First(s, Len(s)) = Elements(s)
           /\ \A n \in 1 .. Len(s) :
                 /\ First(s, n) = First(s, n - 1) \cup {s[n]}
                 /\ Distinct(s) => s[n] \notin First(s, n - 1)
<1>1. ASSUME NEW n \in 1 .. Len(s)
      PROVE  /\ First(s, n) = First(s, n - 1) \cup {s[n]}
             /\ Distinct(s) => s[n] \notin First(s, n - 1)
    BY DEF First, Distinct
<1>2. First(s, 0) = {} /\ First(s, Len(s)) = Elements(s)
    BY DEF First, Elements
<1> QED
    BY <1>1, <1>2

LEMMA CutType == ASSUME NEW group \in FileList PROVE Cut(group) \in Bins
<1> DEFINE step == [f \in Paths |-> [c \in Seq(FileList) |-> AddFile(c, f)]]
           inv == [n \in 0 .. Len(group) |-> Bins]
<1>1. step \in [Paths -> [Bins -> Bins]] /\ <<>> \in Bins
    BY AddFileType DEF Bins
<1>2. group \in Seq(Paths) /\ Len(group) \in Nat
    BY DEF FileList
<1> HIDE DEF step
<1>3. <<>> \in inv[0] /\ inv[Len(group)] = Bins
    BY <1>1, <1>2
<1>4. Preserves(group, step, inv)
    <2> SUFFICES ASSUME NEW n \in 1 .. Len(group), NEW d \in Bins PROVE step[group[n]][d] \in Bins
        BY DEF Preserves
    <2>1. group[n] \in Paths
        BY <1>2
    <2> QED
        BY <1>1, <2>1
<1> HIDE DEF inv
<1>5. FoldList(group, step, <<>>) \in inv[Len(group)]
    BY <1>1, <1>2, <1>3, <1>4, FoldLemma
<1> QED
    BY <1>3, <1>5 DEF Cut, step

LEMMA CutLemma ==
    ASSUME ReviewConstants, NEW group \in FileList, Distinct(group)
    PROVE  Chunked(Cut(group)) /\ Held(Cut(group)) = Elements(group)
<1> DEFINE step == [f \in Paths |-> [c \in Seq(FileList) |-> AddFile(c, f)]]
           Good(n) == {l \in Bins : Chunked(l) /\ Held(l) = First(group, n)}
           inv == [n \in 0 .. Len(group) |-> Good(n)]
<1>1. /\ step \in [Paths -> [Bins -> Bins]] /\ <<>> \in Bins
      /\ \A f \in Paths, l \in Bins : step[f][l] = AddFile(l, f)
    BY AddFileType DEF Bins
<1>2. group \in Seq(Paths) /\ Len(group) \in Nat /\ \A n \in 1 .. Len(group) : group[n] \in Paths
    BY DEF FileList
<1> HIDE DEF step
<1>3. <<>> \in inv[0] /\ inv[Len(group)] = Good(Len(group))
    <2>1. First(group, 0) = {}
        BY <1>2, FirstLemma
    <2>2. Chunked(<<>>)
        BY <1>1, NoneHeldLemma DEF Chunked
    <2>3. <<>> \in Good(0)
        BY <1>1, <2>1, <2>2, NoneHeldLemma
    <2> HIDE DEF Good
    <2> QED
        BY <1>2, <2>3
<1>4. Preserves(group, step, inv)
    <2> SUFFICES ASSUME NEW n \in 1 .. Len(group), NEW l \in Good(n - 1)
                 PROVE  step[group[n]][l] \in Good(n)
        BY DEF Preserves
    <2>1. /\ First(group, n) = First(group, n - 1) \cup {group[n]}
          /\ group[n] \notin First(group, n - 1)
        BY <1>2, FirstLemma
    <2>2. /\ Chunked(AddFile(l, group[n]))
          /\ Held(AddFile(l, group[n])) = Held(l) \cup {group[n]}
        BY <1>2, <2>1, AddFileLemma
    <2> QED
        BY <1>1, <1>2, <2>1, <2>2 DEF Chunked
<1> HIDE DEF inv, Good
<1>5. FoldList(group, step, <<>>) \in inv[Len(group)]
    BY <1>1, <1>2, <1>3, <1>4, FoldLemma
<1>6. First(group, Len(group)) = Elements(group)
    BY <1>2, FirstLemma
<1> QED
    BY <1>3, <1>5, <1>6 DEF Cut, step, Good

LEMMA ChunkedConcatLemma ==
    ASSUME NEW l, NEW k, Chunked(l), Chunked(k), Held(l) \cap Held(k) = {}
    PROVE  Chunked(l \o k) /\ Held(l \o k) = Held(l) \cup Held(k)
<1>1. l \in Seq(Seq(Paths)) /\ k \in Seq(Seq(Paths)) /\ Apart(l) /\ Apart(k)
    BY DEF Chunked, Bins, FileList
<1>2. /\ l \o k \in Seq(Seq(Paths)) /\ Apart(l \o k)
      /\ Held(l \o k) = Held(l) \cup Held(k)
    BY <1>1, ConcatHeldLemma
<1>3. ASSUME NEW n \in DOMAIN (l \o k) PROVE Len((l \o k)[n]) \in 1 .. MaxFiles
    <2>1. \/ n \in DOMAIN l /\ (l \o k)[n] = l[n]
          \/ n - Len(l) \in DOMAIN k /\ (l \o k)[n] = k[n - Len(l)]
        BY <1>1
    <2> QED
        BY <2>1 DEF Chunked
<1> QED
    BY <1>2, <1>3 DEF Chunked, Bins, FileList

LEMMA InDirLemma ==
    ASSUME NEW files \in FileList, NEW d
    PROVE  /\ InDir(files, d) \in FileList
           /\ Elements(InDir(files, d)) = {f \in Elements(files) : Dir[f] = d}
           /\ Distinct(files) => Distinct(InDir(files, d))
<1>1. files \in Seq(Paths) /\ Elements(files) \subseteq Paths
    BY DEF FileList, Elements
<1> QED
    BY <1>1, SelectLemma DEF InDir, FileList

\* All files of a directory come together.
Closed(files, l) ==
    \A f \in Held(l), g \in Elements(files) : Dir[f] = Dir[g] => g \in Held(l)

LEMMA AddDirectoryType ==
    ASSUME NEW files \in FileList, NEW l \in Bins, NEW f \in Paths
    PROVE  AddDirectory(files, l, f) \in Bins
<1>1. Cut(InDir(files, Dir[f])) \in Bins
    BY InDirLemma, CutType
<1> QED
    BY <1>1 DEF AddDirectory, Bins

LEMMA AddDirectoryLemma ==
    ASSUME ReviewConstants, NEW files \in FileList, Distinct(files),
           NEW l, Chunked(l), Held(l) \subseteq Elements(files), Closed(files, l),
           NEW f \in Elements(files)
    PROVE  LET k == AddDirectory(files, l, f)
           IN  /\ Chunked(k) /\ Held(k) \subseteq Elements(files) /\ Closed(files, k)
               /\ Held(l) \cup {f} \subseteq Held(k)
<1> DEFINE k == AddDirectory(files, l, f)
           group == InDir(files, Dir[f])
<1>1. CASE f \in Held(l)
    BY <1>1 DEF AddDirectory
<1>2. CASE f \notin Held(l)
    <2>1. /\ group \in FileList /\ Distinct(group)
          /\ Elements(group) = {g \in Elements(files) : Dir[g] = Dir[f]}
        BY InDirLemma
    <2> HIDE DEF group
    <2>2. Chunked(Cut(group)) /\ Held(Cut(group)) = Elements(group)
        BY <2>1, CutLemma
    <2>3. Held(l) \cap Elements(group) = {}
        BY <1>2, <2>1 DEF Closed
    <2>4. k = l \o Cut(group)
        BY <1>2 DEF AddDirectory, group
    <2> HIDE DEF k
    <2>5. Chunked(k) /\ Held(k) = Held(l) \cup Elements(group)
        BY <2>2, <2>3, <2>4, ChunkedConcatLemma
    <2>6. f \in Elements(group)
        BY <2>1
    <2>7. Closed(files, k)
        BY <2>1, <2>5 DEF Closed
    <2> QED
        BY <2>1, <2>5, <2>6, <2>7 DEF k
<1> QED
    BY <1>1, <1>2

LEMMA ChunksType == ASSUME NEW files \in FileList PROVE Chunks(files) \in Bins
<1> DEFINE step == [f \in Paths |-> [c \in Seq(FileList) |-> AddDirectory(files, c, f)]]
           inv == [n \in 0 .. Len(files) |-> Bins]
<1>1. step \in [Paths -> [Bins -> Bins]] /\ <<>> \in Bins
    BY AddDirectoryType DEF Bins
<1>2. files \in Seq(Paths) /\ Len(files) \in Nat
    BY DEF FileList
<1> HIDE DEF step
<1>3. <<>> \in inv[0] /\ inv[Len(files)] = Bins
    BY <1>1, <1>2
<1>4. Preserves(files, step, inv)
    <2> SUFFICES ASSUME NEW n \in 1 .. Len(files), NEW d \in Bins PROVE step[files[n]][d] \in Bins
        BY DEF Preserves
    <2>1. files[n] \in Paths
        BY <1>2
    <2> QED
        BY <1>1, <2>1
<1> HIDE DEF inv
<1>5. FoldList(files, step, <<>>) \in inv[Len(files)]
    BY <1>1, <1>2, <1>3, <1>4, FoldLemma
<1> QED
    BY <1>3, <1>5 DEF Chunks, step

LEMMA ChunksLemma ==
    ASSUME ReviewConstants, NEW files \in FileList, Distinct(files)
    PROVE  Chunked(Chunks(files)) /\ Held(Chunks(files)) = Elements(files)
<1> DEFINE step == [f \in Paths |-> [c \in Seq(FileList) |-> AddDirectory(files, c, f)]]
           Good(n) == {l \in Bins : /\ Chunked(l) /\ Held(l) \subseteq Elements(files)
                                    /\ Closed(files, l) /\ First(files, n) \subseteq Held(l)}
           inv == [n \in 0 .. Len(files) |-> Good(n)]
<1>1. /\ step \in [Paths -> [Bins -> Bins]] /\ <<>> \in Bins
      /\ \A f \in Paths, l \in Bins : step[f][l] = AddDirectory(files, l, f)
    BY AddDirectoryType DEF Bins
<1>2. /\ files \in Seq(Paths) /\ Len(files) \in Nat
      /\ \A n \in 1 .. Len(files) : files[n] \in Paths /\ files[n] \in Elements(files)
    BY DEF FileList, Elements
<1> HIDE DEF step
<1>3. <<>> \in inv[0] /\ inv[Len(files)] = Good(Len(files))
    <2>1. First(files, 0) = {}
        BY <1>2, FirstLemma
    <2>2. Chunked(<<>>) /\ Closed(files, <<>>)
        BY <1>1, NoneHeldLemma DEF Chunked, Closed
    <2>3. <<>> \in Good(0)
        BY <1>1, <2>1, <2>2, NoneHeldLemma
    <2> HIDE DEF Good
    <2> QED
        BY <1>2, <2>3
<1>4. Preserves(files, step, inv)
    <2> SUFFICES ASSUME NEW n \in 1 .. Len(files), NEW l \in Good(n - 1)
                 PROVE  step[files[n]][l] \in Good(n)
        BY DEF Preserves
    <2> DEFINE f == files[n]
               k == AddDirectory(files, l, f)
    <2>1. First(files, n) = First(files, n - 1) \cup {f}
        BY <1>2, FirstLemma
    <2>2. f \in Paths /\ f \in Elements(files)
        BY <1>2
    <2>3. /\ l \in Bins /\ Chunked(l) /\ Held(l) \subseteq Elements(files)
          /\ Closed(files, l) /\ First(files, n - 1) \subseteq Held(l)
        OBVIOUS
    <2> HIDE DEF f
    <2>4. /\ Chunked(k) /\ Held(k) \subseteq Elements(files) /\ Closed(files, k)
          /\ Held(l) \cup {f} \subseteq Held(k)
        BY <2>2, <2>3, AddDirectoryLemma
    <2>5. k \in Bins /\ step[f][l] = k
        BY <1>1, <2>2, <2>3, AddDirectoryType
    <2> HIDE DEF k
    <2>6. step[f][l] \in Good(n)
        BY <2>1, <2>3, <2>4, <2>5
    <2> QED
        BY <2>6 DEF f
<1> HIDE DEF inv, Good
<1>5. FoldList(files, step, <<>>) \in inv[Len(files)]
    BY <1>1, <1>2, <1>3, <1>4, FoldLemma
<1>6. First(files, Len(files)) = Elements(files)
    BY <1>2, FirstLemma
<1>7. FoldList(files, step, <<>>) \in Good(Len(files))
    BY <1>3, <1>5
<1> QED
    BY <1>6, <1>7 DEF Chunks, step, Good

\* The first bin that a chunk fits into.
FirstFit(bins, chunk) ==
    CHOOSE s \in DOMAIN bins :
        /\ Fits(bins[s], chunk)
        /\ \A t \in DOMAIN bins : Fits(bins[t], chunk) => s <= t

LEMMA FirstFitLemma ==
    ASSUME NEW bins \in Bins, NEW chunk, \E s \in DOMAIN bins : Fits(bins[s], chunk)
    PROVE  /\ FirstFit(bins, chunk) \in DOMAIN bins
           /\ Fits(bins[FirstFit(bins, chunk)], chunk)
<1> DEFINE A == {s \in DOMAIN bins : Fits(bins[s], chunk)}
<1>1. A \subseteq Nat /\ A # {}
    BY DEF Bins
<1> HIDE DEF A
<1>2. PICK s \in A : \A t \in A : s <= t
    BY <1>1, LeastNatural
<1>3. \E r \in DOMAIN bins : /\ Fits(bins[r], chunk)
                             /\ \A t \in DOMAIN bins : Fits(bins[t], chunk) => r <= t
    BY <1>2 DEF A
<1> QED
    BY <1>3 DEF FirstFit

LEMMA PackCases ==
    ASSUME NEW bins \in Bins, NEW chunk \in FileList
    PROVE  \/ /\ Pack(bins, chunk) = Append(bins, chunk)
              /\ \A s \in DOMAIN bins : ~Fits(bins[s], chunk)
           \/ \E p \in DOMAIN bins : /\ Fits(bins[p], chunk)
                                     /\ Extended(Pack(bins, chunk), bins, p, chunk)
<1>1. CASE \E s \in DOMAIN bins : Fits(bins[s], chunk)
    <2>1. /\ FirstFit(bins, chunk) \in DOMAIN bins
          /\ Fits(bins[FirstFit(bins, chunk)], chunk)
        BY <1>1, FirstFitLemma
    <2>2. Extended(Pack(bins, chunk), bins, FirstFit(bins, chunk), chunk)
        BY <1>1 DEF Pack, FirstFit, Extended
    <2> QED
        BY <2>1, <2>2
<1>2. CASE ~\E s \in DOMAIN bins : Fits(bins[s], chunk)
    BY <1>2 DEF Pack
<1> QED
    BY <1>1, <1>2

LEMMA PackType ==
    ASSUME NEW bins \in Bins, NEW chunk \in FileList
    PROVE  Pack(bins, chunk) \in Bins
<1>1. CASE Pack(bins, chunk) = Append(bins, chunk)
    BY <1>1 DEF Bins
<1>2. ASSUME NEW p \in DOMAIN bins, Extended(Pack(bins, chunk), bins, p, chunk)
      PROVE  Pack(bins, chunk) \in Bins
    <2>1. bins[p] \in Seq(Paths) /\ chunk \in Seq(Paths)
        BY DEF Bins, FileList
    <2>2. bins[p] \o chunk \in FileList
        BY <2>1 DEF FileList
    <2> QED
        BY <1>2, <2>2 DEF Extended, Bins
<1> QED
    BY <1>1, <1>2, PackCases

\* No two of them fit into one.
Tight(bins) ==
    \A s, t \in DOMAIN bins : s # t => Len(bins[s]) + Len(bins[t]) > MaxFiles

LEMMA LongerLemma ==
    ASSUME NEW max \in Nat, NEW a \in Nat, NEW b \in Nat, NEW c \in Nat, NEW d \in Nat,
           a <= c, b <= d, a + b > max
    PROVE  c + d > max
OBVIOUS

LEMMA PackLemma ==
    ASSUME ReviewConstants, NEW bins, Chunked(bins), Tight(bins),
           NEW chunk \in FileList, Len(chunk) \in 1 .. MaxFiles, Distinct(chunk),
           Elements(chunk) \cap Held(bins) = {}
    PROVE  LET k == Pack(bins, chunk)
           IN  Chunked(k) /\ Tight(k) /\ Held(k) = Held(bins) \cup Elements(chunk)
<1> DEFINE k == Pack(bins, chunk)
           S == Paths
<1>1. /\ bins \in Bins /\ bins \in Seq(Seq(S)) /\ chunk \in Seq(S) /\ Apart(bins)
      /\ MaxFiles \in Nat
      /\ \A s \in DOMAIN bins : bins[s] \in Seq(S) /\ Len(bins[s]) \in 1 .. MaxFiles
    BY DEF Chunked, Bins, FileList, ReviewConstants
<1> HIDE DEF S, k
<1>2. ASSUME k = Append(bins, chunk), \A s \in DOMAIN bins : ~Fits(bins[s], chunk)
      PROVE  Chunked(k) /\ Tight(k) /\ Held(k) = Held(bins) \cup Elements(chunk)
    <2> DEFINE N == Len(bins) + 1
    <2>1. /\ k \in Seq(Seq(S)) /\ Apart(k) /\ Held(k) = Held(bins) \cup Elements(chunk)
        BY <1>1, <1>2, AppendHeldLemma
    <2>2. /\ DOMAIN k = DOMAIN bins \cup {N} /\ k[N] = chunk
          /\ \A n \in DOMAIN bins : k[n] = bins[n]
        BY <1>1, <1>2
    <2> HIDE DEF N
    <2>3. \A n \in DOMAIN k : Len(k[n]) \in 1 .. MaxFiles
        BY <1>1, <2>2
    <2>4. \A n \in DOMAIN bins : Len(bins[n]) + Len(chunk) > MaxFiles
        BY <1>1, <1>2 DEF Fits
    <2>5. Tight(k)
        <3> SUFFICES ASSUME NEW s \in DOMAIN k, NEW t \in DOMAIN k, s # t
                     PROVE  Len(k[s]) + Len(k[t]) > MaxFiles
            BY DEF Tight
        <3>1. CASE s \in DOMAIN bins /\ t \in DOMAIN bins
            BY <2>2, <3>1 DEF Tight
        <3>2. CASE s \in DOMAIN bins /\ t = N
            BY <2>2, <2>4, <3>2
        <3>3. CASE s = N /\ t \in DOMAIN bins
            <4>1. Len(bins[t]) + Len(chunk) > MaxFiles /\ k[t] = bins[t] /\ k[s] = chunk
                BY <2>2, <2>4, <3>3
            <4>2. Len(bins[t]) \in Nat /\ Len(chunk) \in Nat
                BY <1>1, <3>3
            <4> QED
                BY <4>1, <4>2
        <3> QED
            BY <2>2, <3>1, <3>2, <3>3
    <2> QED
        BY <2>1, <2>3, <2>5 DEF Chunked, Bins, FileList, S
<1>3. ASSUME NEW p \in DOMAIN bins, Fits(bins[p], chunk), Extended(k, bins, p, chunk)
      PROVE  Chunked(k) /\ Tight(k) /\ Held(k) = Held(bins) \cup Elements(chunk)
    <2>1. /\ k \in Seq(Seq(S)) /\ Apart(k) /\ Held(k) = Held(bins) \cup Elements(chunk)
        BY <1>1, <1>3, ExtendHeldLemma
    <2>2. DOMAIN k = DOMAIN bins /\ \A n \in DOMAIN bins : n # p => k[n] = bins[n]
        BY <1>3 DEF Extended
    <2>3. Len(k[p]) = Len(bins[p]) + Len(chunk)
        <3>1. k[p] = bins[p] \o chunk
            BY <1>3 DEF Extended
        <3> QED
            BY <1>1, <3>1, LenConcatLemma
    <2>4. Len(k[p]) \in 1 .. MaxFiles
        BY <1>1, <1>3, <2>3 DEF Fits
    <2>5. \A n \in DOMAIN k : Len(k[n]) \in 1 .. MaxFiles
        BY <1>1, <2>2, <2>4
    <2>6. ASSUME NEW n \in DOMAIN k
          PROVE  Len(k[n]) \in Nat /\ Len(bins[n]) \in Nat /\ Len(bins[n]) <= Len(k[n])
        <3>1. Len(bins[n]) \in Nat /\ Len(bins[p]) \in Nat /\ Len(chunk) \in Nat
            BY <1>1, <2>2
        <3>2. CASE n = p
            BY <2>3, <3>1, <3>2
        <3>3. CASE n # p
            BY <2>2, <3>1, <3>3
        <3> QED
            BY <3>2, <3>3
    <2>7. Tight(k)
        <3> SUFFICES ASSUME NEW s \in DOMAIN k, NEW t \in DOMAIN k, s # t
                     PROVE  Len(k[s]) + Len(k[t]) > MaxFiles
            BY DEF Tight
        <3>1. Len(bins[s]) + Len(bins[t]) > MaxFiles
            BY <2>2 DEF Tight
        <3>2. /\ Len(k[s]) \in Nat /\ Len(bins[s]) \in Nat /\ Len(bins[s]) <= Len(k[s])
              /\ Len(k[t]) \in Nat /\ Len(bins[t]) \in Nat /\ Len(bins[t]) <= Len(k[t])
            BY <2>6
        <3>3. MaxFiles \in Nat
            BY <1>1
        <3> QED
            BY <3>1, <3>2, <3>3, LongerLemma
    <2> QED
        BY <2>1, <2>5, <2>7 DEF Chunked, Bins, FileList, S
<1>4. \/ /\ k = Append(bins, chunk)
         /\ \A s \in DOMAIN bins : ~Fits(bins[s], chunk)
      \/ \E p \in DOMAIN bins : Fits(bins[p], chunk) /\ Extended(k, bins, p, chunk)
    BY <1>1, PackCases DEF k
<1> QED
    BY <1>2, <1>3, <1>4 DEF k

\* What the first n lists hold.
HeldUpTo(l, n) == UNION {Elements(l[m]) : m \in 1 .. n}

LEMMA HeldUpToLemma ==
    ASSUME NEW l \in Bins, Apart(l)
    PROVE  /\ HeldUpTo(l, 0) = {} /\ HeldUpTo(l, Len(l)) = Held(l)
           /\ \A n \in 1 .. Len(l) :
                 /\ HeldUpTo(l, n) = HeldUpTo(l, n - 1) \cup Elements(l[n])
                 /\ Elements(l[n]) \cap HeldUpTo(l, n - 1) = {}
                 /\ Distinct(l[n])
<1>1. Len(l) \in Nat /\ DOMAIN l = 1 .. Len(l)
    BY DEF Bins
<1>2. \A m, n \in DOMAIN l : m # n => Elements(l[m]) \cap Elements(l[n]) = {}
    BY DEF Apart, Elements
<1>3. ASSUME NEW n \in 1 .. Len(l)
      PROVE  /\ HeldUpTo(l, n) = HeldUpTo(l, n - 1) \cup Elements(l[n])
             /\ Elements(l[n]) \cap HeldUpTo(l, n - 1) = {}
             /\ Distinct(l[n])
    <2>1. 1 .. n = (1 .. n - 1) \cup {n} /\ n \notin 1 .. n - 1 /\ 1 .. n \subseteq DOMAIN l
        BY <1>1
    <2>2. HeldUpTo(l, n) = HeldUpTo(l, n - 1) \cup Elements(l[n])
        BY <2>1 DEF HeldUpTo
    <2>3. Elements(l[n]) \cap HeldUpTo(l, n - 1) = {}
        BY <1>2, <2>1 DEF HeldUpTo
    <2>4. Distinct(l[n])
        BY <2>1 DEF Apart, Distinct
    <2> QED
        BY <2>2, <2>3, <2>4
<1>4. HeldUpTo(l, 0) = {} /\ HeldUpTo(l, Len(l)) = Held(l)
    BY <1>1 DEF HeldUpTo, Held
<1> QED
    BY <1>3, <1>4

\* The plan of any list of different files.
LEMMA PlanLemma ==
    ASSUME ReviewConstants, NEW files \in FileList, Distinct(files)
    PROVE  LET plan == PlanShards(files)
           IN  Chunked(plan) /\ Tight(plan) /\ Held(plan) = Elements(files)
<1> DEFINE step == [c \in FileList |-> [bins \in Seq(FileList) |-> Pack(bins, c)]]
           chunks == Chunks(files)
           Good(n) == {b \in Bins : Chunked(b) /\ Tight(b) /\ Held(b) = HeldUpTo(chunks, n)}
           inv == [n \in 0 .. Len(chunks) |-> Good(n)]
<1>1. /\ step \in [FileList -> [Bins -> Bins]] /\ <<>> \in Bins
      /\ \A c \in FileList, b \in Bins : step[c][b] = Pack(b, c)
    BY PackType DEF Bins
<1>2. /\ Chunked(chunks) /\ Held(chunks) = Elements(files)
      /\ chunks \in Seq(FileList) /\ Len(chunks) \in Nat
    BY ChunksLemma DEF Chunked, Bins
<1> HIDE DEF step, chunks
<1>3. /\ HeldUpTo(chunks, 0) = {} /\ HeldUpTo(chunks, Len(chunks)) = Held(chunks)
      /\ \A n \in 1 .. Len(chunks) :
            /\ HeldUpTo(chunks, n) = HeldUpTo(chunks, n - 1) \cup Elements(chunks[n])
            /\ Elements(chunks[n]) \cap HeldUpTo(chunks, n - 1) = {}
            /\ Distinct(chunks[n])
    BY <1>2, HeldUpToLemma DEF Chunked
<1>4. <<>> \in inv[0] /\ inv[Len(chunks)] = Good(Len(chunks))
    <2>1. Chunked(<<>>) /\ Tight(<<>>)
        BY <1>1, NoneHeldLemma DEF Chunked, Tight
    <2>2. <<>> \in Good(0)
        BY <1>1, <1>3, <2>1, NoneHeldLemma
    <2> HIDE DEF Good
    <2> QED
        BY <1>2, <2>2
<1>5. Preserves(chunks, step, inv)
    <2> SUFFICES ASSUME NEW n \in 1 .. Len(chunks), NEW b \in Good(n - 1)
                 PROVE  step[chunks[n]][b] \in Good(n)
        BY <1>2 DEF Preserves
    <2> DEFINE c == chunks[n]
               k == Pack(b, c)
    <2>1. c \in FileList /\ Len(c) \in 1 .. MaxFiles /\ Distinct(c)
        BY <1>2, <1>3 DEF Chunked
    <2>2. /\ b \in Bins /\ Chunked(b) /\ Tight(b) /\ Held(b) = HeldUpTo(chunks, n - 1)
          /\ Elements(c) \cap Held(b) = {}
          /\ HeldUpTo(chunks, n) = Held(b) \cup Elements(c)
        BY <1>3
    <2> HIDE DEF c
    <2>3. Chunked(k) /\ Tight(k) /\ Held(k) = Held(b) \cup Elements(c)
        BY <2>1, <2>2, PackLemma
    <2>4. k \in Bins /\ step[c][b] = k
        BY <1>1, <2>1, <2>2, PackType
    <2> HIDE DEF k
    <2>5. step[c][b] \in Good(n)
        BY <2>2, <2>3, <2>4
    <2> QED
        BY <2>5 DEF c
<1> HIDE DEF inv, Good
<1>6. FoldList(chunks, step, <<>>) \in inv[Len(chunks)]
    BY <1>1, <1>2, <1>4, <1>5, FoldLemma
<1>7. FoldList(chunks, step, <<>>) \in Good(Len(chunks))
    BY <1>4, <1>6
<1> QED
    BY <1>2, <1>3, <1>7 DEF PlanShards, step, chunks, Good

\* While a review runs, its shards are the plan of its files.
ShardsInv ==
    \/ changed = <<>> /\ shards = <<>>
    \/ changed \in FileList /\ Distinct(changed) /\ shards = PlanShards(changed)

LEMMA PlannedPartition == ASSUME ReviewConstants, ShardsInv PROVE ShardsPartition
<1>1. CASE changed = <<>> /\ shards = <<>>
    BY <1>1, NoneHeldLemma DEF ShardsPartition, Elements
<1>2. CASE changed \in FileList /\ Distinct(changed) /\ shards = PlanShards(changed)
    <2>1. Chunked(shards) /\ Tight(shards) /\ Held(shards) = Elements(changed)
        BY <1>2, PlanLemma
    <2>2. \A s \in DOMAIN shards : Len(shards[s]) <= MaxFiles
        BY <2>1 DEF Chunked
    <2> QED
        BY <2>1, <2>2 DEF ShardsPartition, Chunked, Tight
<1> QED
    BY <1>1, <1>2 DEF ShardsInv

\* The shards partition the changed files, none exceeds max_files and no two of
\* them would fit into one, whatever the files, their directories and max_files
\* are (plan_shards.py 25-97).
THEOREM ShardsAreAPartition == ASSUME ReviewConstants PROVE ReviewSpec => []ShardsPartition
<1>1. ReviewInit => ShardsInv
    BY DEF ReviewInit, ShardsInv
<1>2. ShardsInv /\ [ReviewNext]_reviewVars => ShardsInv'
    <2> SUFFICES ASSUME ShardsInv, [ReviewNext]_reviewVars PROVE ShardsInv'
        OBVIOUS
    <2>1. CASE UNCHANGED <<changed, shards>>
        BY <2>1 DEF ShardsInv
    <2>2. CASE changed' = <<>> /\ shards' = <<>>
        BY <2>2 DEF ShardsInv
    <2>3. ASSUME NEW F \in SUBSET Paths, Plan(F) PROVE ShardsInv'
        <3>1. PathOrder \in Seq(Paths) /\ Distinct(PathOrder)
            BY DEF ReviewConstants
        <3>2. Select(PathOrder, F) \in Seq(Paths) /\ Distinct(Select(PathOrder, F))
            BY <3>1, SelectLemma
        <3> QED
            BY <2>3, <3>2 DEF Plan, ShardsInv, FileList
    <2>4. \/ UNCHANGED <<changed, shards>>
          \/ changed' = <<>> /\ shards' = <<>>
          \/ \E F \in SUBSET Paths : Plan(F)
        BY DEF ReviewNext, reviewVars, ShardSucceeds, ShardFails, LoadFindings, NoFindings,
               SkipInline, PostInline, InlineDone, PostSummary, NoSummary, Published,
               Cancelled, Ends
    <2> QED
        BY <2>1, <2>2, <2>3, <2>4
<1>3. ShardsInv => ShardsPartition
    BY PlannedPartition
<1> QED
    BY <1>1, <1>2, <1>3, PTL DEF ReviewSpec

(***************************************************************************)
(* publish_findings.                                                       *)
(***************************************************************************)
\* Each finding the loop has reached has a comment on its line or counts as
\* failed; a summary details what it must or has more than fits.
FindingsInv ==
    /\ stage \in {"idle", "review"} => unique = {} /\ untried = {} /\ failedInline = {}
    /\ untried \subseteq unique /\ failedInline \subseteq unique \ untried
    /\ IsFiniteSet(unique)
    /\ \A u \in unique \ untried : Commented(u) \/ u \in failedInline
    /\ stage = "posted" =>
          \A u \in Degraded : \/ u.remark \in summary
                              \/ Cardinality(OfShard(Degraded, u.shard)) > PerShard

\* Findings that differ in their remark are no more than the remarks.
LEMMA UniqueFinite ==
    ASSUME ReviewConstants, NEW U, Deduplicated(U)
    PROVE  IsFiniteSet(U)
<1> DEFINE f == [u \in U |-> u.remark]
<1>1. \A u \in U : u.remark \in Remarks
    BY DEF Deduplicated
<1>2. \A u, v \in U : u.remark = v.remark => u = v
    BY DEF Deduplicated
<1>3. f \in Injection(U, Remarks)
    BY <1>1, <1>2 DEF Injection, IsInjective
<1> HIDE DEF f
<1> QED
    BY <1>3, FS_Injection DEF ReviewConstants

\* A shard with no more findings than a summary details has all of them there.
LEMMA DetailedLemma ==
    ASSUME ReviewConstants, IsFiniteSet(unique), failedInline \subseteq unique,
           NEW D, Detailed(D), NEW u \in Degraded
    PROVE  u \in D \/ Cardinality(OfShard(Degraded, u.shard)) > PerShard
<1> DEFINE A == OfShard(D, u.shard)
           B == OfShard(Degraded, u.shard)
<1>1. A \subseteq B /\ B \subseteq unique /\ u \in B /\ u \in unique
    BY DEF Detailed, Degraded, OfShard
<1>2. Cardinality(A) = IF Cardinality(B) < PerShard THEN Cardinality(B) ELSE PerShard
    BY <1>1 DEF Detailed
<1>3. A \subseteq D
    BY DEF OfShard
<1> HIDE DEF A, B
<1>4. IsFiniteSet(B)
    BY <1>1, FS_Subset
<1>5. Cardinality(B) \in Nat /\ PerShard \in Nat
    BY <1>4, FS_CardinalityType DEF ReviewConstants
<1>6. CASE Cardinality(B) <= PerShard
    <2>1. Cardinality(B) = Cardinality(A)
        BY <1>2, <1>5, <1>6
    <2>2. B = A
        BY <1>1, <1>4, <2>1, FS_Subset
    <2> QED
        BY <1>1, <1>3, <2>2
<1>7. CASE ~(Cardinality(B) <= PerShard)
    BY <1>5, <1>7 DEF B
<1> QED
    BY <1>6, <1>7

LEMMA FindingsInvInit == ReviewInit => FindingsInv
BY FS_EmptySet DEF ReviewInit, FindingsInv, Degraded

LEMMA FindingsInvNext ==
    ASSUME ReviewConstants, FindingsInv, [ReviewNext]_reviewVars
    PROVE  FindingsInv'
<1>1. CASE UNCHANGED reviewVars
    BY <1>1 DEF reviewVars, FindingsInv, Commented, Degraded, OfShard
<1>2. CASE Ends /\ UNCHANGED onGitHub
    <2>1. stage' = "idle" /\ unique' = {} /\ untried' = {} /\ failedInline' = {}
        BY <1>2 DEF Ends
    <2> QED
        BY <2>1, FS_EmptySet DEF FindingsInv
<1>3. ASSUME NEW F \in SUBSET Paths, Plan(F) PROVE FindingsInv'
    BY <1>3 DEF Plan, FindingsInv
<1>4. ASSUME NEW s \in DOMAIN shards, NEW R \in SUBSET Remarks, ShardSucceeds(s, R)
      PROVE  FindingsInv'
    BY <1>4 DEF ShardSucceeds, FindingsInv
<1>5. ASSUME NEW U, LoadFindings(U) PROVE FindingsInv'
    <2>1. IsFiniteSet(U)
        BY <1>5, UniqueFinite DEF LoadFindings
    <2>2. /\ unique' = U /\ untried' = U /\ stage' = "inline" /\ failedInline' = failedInline
          /\ failedInline = {}
        BY <1>5 DEF LoadFindings, FindingsInv
    <2> QED
        BY <2>1, <2>2 DEF FindingsInv
<1>6. ASSUME NEW u \in unique, SkipInline(u) PROVE FindingsInv'
    BY <1>6 DEF SkipInline, MoreInline, FindingsInv, Commented, onGitHub
<1>7. ASSUME NEW u \in unique, PostInline(u) PROVE FindingsInv'
    <2>1. /\ stage = "inline" /\ stage' = stage /\ u \in untried
          /\ unique' = unique /\ untried' = untried \ {u}
          /\ \/ inline' = inline \cup {u.remark} /\ failedInline' = failedInline
             \/ inline' = inline /\ failedInline' = failedInline \cup {u}
        BY <1>7 DEF PostInline, MoreInline
    <2>2. ASSUME NEW v \in unique' \ untried' PROVE Commented(v)' \/ v \in failedInline'
        <3>1. CASE v = u
            BY <2>1, <3>1 DEF Commented
        <3>2. CASE v # u
            <4>1. Commented(v) \/ v \in failedInline
                BY <2>1, <3>2 DEF FindingsInv
            <4> QED
                BY <2>1, <4>1 DEF Commented
        <3> QED
            BY <3>1, <3>2
    <2> QED
        BY <2>1, <2>2 DEF FindingsInv
<1>8. CASE InlineDone
    BY <1>8 DEF InlineDone, FindingsInv, Commented, onGitHub
<1>9. ASSUME NEW D \in SUBSET unique, PostSummary(D) PROVE FindingsInv'
    <2>1. /\ stage' = "posted" /\ Detailed(D)
          /\ UNCHANGED <<unique, untried, failedInline, inline>>
          /\ summary' = summary \cup {u.remark : u \in D}
        BY <1>9 DEF PostSummary
    <2>2. Degraded' = Degraded
        BY <2>1 DEF Degraded
    <2>3. ASSUME NEW u \in Degraded
          PROVE  \/ u.remark \in summary'
                 \/ Cardinality(OfShard(Degraded, u.shard)) > PerShard
        <3>1. u \in D \/ Cardinality(OfShard(Degraded, u.shard)) > PerShard
            BY <2>1, DetailedLemma DEF FindingsInv
        <3> QED
            BY <2>1, <3>1
    <2> QED
        BY <2>1, <2>2, <2>3 DEF FindingsInv, Commented, OfShard
<1>10. \/ UNCHANGED reviewVars
       \/ Ends /\ UNCHANGED onGitHub
       \/ \E F \in SUBSET Paths : Plan(F)
       \/ \E s \in DOMAIN shards, R \in SUBSET Remarks : ShardSucceeds(s, R)
       \/ \E U : LoadFindings(U)
       \/ \E u \in unique : SkipInline(u) \/ PostInline(u)
       \/ InlineDone
       \/ \E D \in SUBSET unique : PostSummary(D)
    BY DEF ReviewNext, ShardFails, NoFindings, NoSummary, Published, Cancelled
<1> QED
    BY <1>1, <1>2, <1>3, <1>4, <1>5, <1>6, <1>7, <1>8, <1>9, <1>10

\* When a summary is posted, every finding of the review can be read on the pull
\* request, or the limits of the batch and of the summary account for it,
\* whichever comments and listings fail (publish_findings.py 176-422).
THEOREM NoFindingVanishes == ASSUME ReviewConstants PROVE ReviewSpec => []FindingsShown
<1>1. FindingsInv /\ [ReviewNext]_reviewVars => FindingsInv'
    BY FindingsInvNext
<1>2. FindingsInv => FindingsShown
    BY DEF FindingsInv, FindingsShown, Degraded
<1> QED
    BY <1>1, <1>2, FindingsInvInit, PTL DEF ReviewSpec
=============================================================================
