----------------------------- MODULE ContextProofs -----------------------------
(***************************************************************************)
(* The JIT cache of the context manager, for any files, contents, ranges   *)
(* and names that are prefixes of others: what it serves for a file is     *)
(* never from before the file's last invalidate.                           *)
(***************************************************************************)
EXTENDS Context, Inductions

\* The types the cache depends on, and that the history knows what is on disk.
HistoryInv ==
    /\ DOMAIN disk = Paths /\ DOMAIN since = Paths
    /\ \A p \in Paths : disk[p] \in since[p]
    /\ \A key \in DOMAIN jit : key[1] \in Paths

CacheInv == HistoryInv /\ ServedSinceInvalidate

\* A cached text is a part of something its file held since its invalidate.
Served(key) ==
    \E content \in since[key[1]] \ {Absent} : jit[key] = Slice(content, key[2], key[3])

\* An edit adds to what a file held, so all that was served may still be served.
LEMMA EditKeeps ==
    ASSUME CacheInv, NEW p \in Paths, NEW content, Edit(p, content)
    PROVE  CacheInv'
<1>1. /\ DOMAIN disk' = Paths /\ DOMAIN since' = Paths
      /\ \A q \in Paths : since[q] \subseteq since'[q] /\ disk'[q] \in since'[q]
  BY DEF CacheInv, HistoryInv, Edit
<1>2. jit' = jit
  BY DEF Edit, manager
<1>3. \A key \in DOMAIN jit : key[1] \in Paths /\ Served(key)
  BY DEF CacheInv, HistoryInv, ServedSinceInvalidate, Served
<1>4. \A key \in DOMAIN jit' : Served(key)'
  BY <1>1, <1>2, <1>3 DEF Served
<1> QED
  BY <1>1, <1>2, <1>3, <1>4 DEF CacheInv, HistoryInv, ServedSinceInvalidate, Served

\* A miss caches what the file holds now; a hit changes nothing.
LEMMA ReadKeeps ==
    ASSUME CacheInv, NEW p \in Paths, NEW start, NEW end, ReadLines(p, start, end)
    PROVE  CacheInv'
<1> DEFINE key == <<p, start, end>>
<1>1. UNCHANGED <<disk, since>>
  BY DEF ReadLines, external
<1>2. CASE UNCHANGED jit
  BY <1>1, <1>2 DEF CacheInv, HistoryInv, ServedSinceInvalidate
<1>3. CASE /\ disk[p] # Absent
           /\ jit' = [k \in DOMAIN jit \cup {key} |->
                         IF k = key THEN Slice(disk[p], start, end) ELSE jit[k]]
  <2>1. \A k \in DOMAIN jit : k[1] \in Paths /\ Served(k)
    BY DEF CacheInv, HistoryInv, ServedSinceInvalidate, Served
  <2>2. DOMAIN jit' = DOMAIN jit \cup {key}
    BY <1>3
  <2>3. \A k \in DOMAIN jit : k # key => jit'[k] = jit[k]
    BY <1>3
  <2>4. jit'[key] = Slice(disk[p], start, end)
    BY <1>3
  <2>5. disk[p] \in since[p] \ {Absent}
    BY <1>3 DEF CacheInv, HistoryInv
  <2>6. Served(key)'
    BY <1>1, <2>4, <2>5 DEF Served
  <2>7. \A k \in DOMAIN jit' : k[1] \in Paths /\ Served(k)'
    BY <1>1, <2>1, <2>2, <2>3, <2>6 DEF Served
  <2> QED
    BY <1>1, <2>7 DEF CacheInv, HistoryInv, ServedSinceInvalidate, Served
<1> QED
  BY <1>2, <1>3 DEF ReadLines

\* The ranges of the invalidated file are all dropped; the others keep what they
\* were served from.
LEMMA InvalidateKeeps ==
    ASSUME CacheInv, NEW p \in Paths, Invalidate(p)
    PROVE  CacheInv'
<1>1. /\ disk' = disk
      /\ DOMAIN since' = Paths
      /\ since'[p] = {disk[p]}
      /\ \A q \in Paths \ {p} : since'[q] = since[q]
  BY DEF CacheInv, HistoryInv, Invalidate, external
<1>2. \A key \in DOMAIN jit : key[1] \in Paths /\ Served(key)
  BY DEF CacheInv, HistoryInv, ServedSinceInvalidate, Served
<1>3. /\ DOMAIN jit' = DOMAIN jit \ Dropped(p)
      /\ \A key \in DOMAIN jit' : jit'[key] = jit[key]
  BY DEF Invalidate
<1>4. \A key \in DOMAIN jit' : key \in DOMAIN jit /\ key[1] # p
  BY <1>3, ContextAssumption DEF Dropped
<1>5. \A key \in DOMAIN jit' : key[1] \in Paths /\ Served(key)'
  BY <1>1, <1>2, <1>3, <1>4 DEF Served
<1>6. \A q \in Paths : disk'[q] \in since'[q]
  BY <1>1 DEF CacheInv, HistoryInv
<1> QED
  BY <1>1, <1>5, <1>6 DEF CacheInv, HistoryInv, ServedSinceInvalidate, Served

\* No step of the manager or of another program breaks the cache.
LEMMA CacheStep == CacheInv /\ [Next]_vars => CacheInv'
<1> SUFFICES ASSUME CacheInv, [Next]_vars PROVE CacheInv'
  OBVIOUS
<1>1. ASSUME UNCHANGED <<disk, since, jit>> PROVE CacheInv'
  BY <1>1 DEF CacheInv, HistoryInv, ServedSinceInvalidate
<1>2. ASSUME NEW p \in Paths, NEW content, Edit(p, content) PROVE CacheInv'
  BY <1>2, EditKeeps
<1>3. ASSUME NEW p \in Paths, IndexFile(p) PROVE CacheInv'
  BY <1>1, <1>3 DEF IndexFile, external
<1>4. ASSUME NEW p \in Paths, NEW start, NEW end, ReadLines(p, start, end) PROVE CacheInv'
  BY <1>4, ReadKeeps
<1>5. ASSUME NEW p \in Paths, NEW name, ReadSymbol(p, name) PROVE CacheInv'
  BY <1>4, <1>5 DEF ReadSymbol
<1>6. ASSUME NEW p \in Paths, Invalidate(p) PROVE CacheInv'
  BY <1>6, InvalidateKeeps
<1>7. CASE StartIndex
  BY <1>1, <1>7 DEF StartIndex, external
<1>8. CASE FinishIndex
  BY <1>1, <1>8 DEF FinishIndex, external
<1>9. CASE UNCHANGED vars
  BY <1>1, <1>9 DEF vars, external, manager
<1> QED
  BY <1>2, <1>3, <1>4, <1>5, <1>6, <1>7, <1>8, <1>9 DEF Next

\* Whatever is edited, read, indexed and invalidated in whatever order, the cache
\* serves nothing from before the last invalidate of the file.
THEOREM CacheNotStale == Spec => []ServedSinceInvalidate
<1>1. Init => CacheInv
  BY DEF Init, CacheInv, HistoryInv, ServedSinceInvalidate
<1>2. CacheInv => ServedSinceInvalidate
  BY DEF CacheInv
<1> QED
  BY <1>1, <1>2, CacheStep, PTL DEF Spec

-----------------------------------------------------------------------------
(* What the scan of a file finds. *)

\* Symbols a scan of p may find, and the values of its loop.
SymbolsOf(p) ==
    [file : {p}, name : {line.name : line \in Lines}, line : Nat \ {0}, kind : Kinds]

Scans(p) == [found : Seq(SymbolsOf(p)), inClass : BOOLEAN]

\* What the loop does with line n.
ScanLine(p, content, acc, n) ==
    IF content[n].def = "text" THEN acc
    ELSE [found   |-> Append(acc.found,
                             [file |-> p, name |-> content[n].name, line |-> n,
                              kind |-> KindOf(content[n].def, acc.inClass)]),
          inClass |-> acc.inClass \/ content[n].def = "class"]

Scanned(scan, p, content) ==
    scan = [n \in 0 .. Len(content) |->
              IF n = 0 THEN [found |-> << >>, inClass |-> FALSE]
              ELSE ScanLine(p, content, scan[n - 1], n)]

\* The definition that line i of a file is.
DefinedAt(p, content, i) ==
    [file |-> p, name |-> content[i].name, line |-> i,
     kind |-> IF content[i].def # "def" THEN content[i].def
              ELSE IF \E j \in 1 .. i - 1 : content[j].def = "class" THEN "method"
              ELSE "function"]

DefinedUpTo(p, content, n) ==
    {DefinedAt(p, content, i) : i \in {j \in 1 .. n : content[j].def # "text"}}

\* A line leaves what was found or adds one symbol.
LEMMA ScanLineType ==
    ASSUME NEW p, NEW content \in Seq(Lines), NEW acc \in Scans(p), NEW n \in 1 .. Len(content)
    PROVE  ScanLine(p, content, acc, n) \in Scans(p)
<1>1. content[n] \in Lines /\ content[n].def \in {"text", "class", "def", "constant"}
  BY ContextAssumption DEF ContextAssumption
<1>2. CASE content[n].def = "text"
  BY <1>2 DEF ScanLine
<1>3. CASE content[n].def # "text"
  <2> DEFINE sym == [file |-> p, name |-> content[n].name, line |-> n,
                     kind |-> KindOf(content[n].def, acc.inClass)]
  <2>1. KindOf(content[n].def, acc.inClass) \in Kinds
    BY <1>1, <1>3 DEF KindOf, Kinds
  <2>2. sym \in SymbolsOf(p)
    BY <1>1, <2>1 DEF SymbolsOf
  <2>3. acc.found \in Seq(SymbolsOf(p)) /\ acc.inClass \in BOOLEAN
    BY DEF Scans
  <2> HIDE DEF sym
  <2>4. Append(acc.found, sym) \in Seq(SymbolsOf(p))
    BY <2>2, <2>3
  <2>5. ScanLine(p, content, acc, n) =
          [found |-> Append(acc.found, sym), inClass |-> acc.inClass \/ content[n].def = "class"]
    BY <1>3 DEF ScanLine, sym
  <2> QED
    BY <2>4, <2>5 DEF Scans
<1> QED
  BY <1>2, <1>3

\* The loop has a value after each line.
LEMMA ScannedExists ==
    ASSUME NEW p, NEW content \in Seq(Lines)
    PROVE  \E scan : Scanned(scan, p, content)
<1> DEFINE N    == Len(content)
           a    == [found |-> << >>, inClass |-> FALSE]
           step == [x \in Scans(p) \X (1 .. N) |-> ScanLine(p, content, x[1], x[2])]
<1>1. N \in Nat /\ a \in Scans(p)
  BY DEF Scans
<1>2. \A v \in Scans(p), n \in 1 .. N : step[<<v, n>>] = ScanLine(p, content, v, n)
  OBVIOUS
<1>3. \A v \in Scans(p), n \in 1 .. N : step[<<v, n>>] \in Scans(p)
  BY <1>2, ScanLineType
<1> HIDE DEF N, a, step
<1>4. PICK f : StepsFrom(f, N, a, step) /\ \A n \in 0 .. N : f[n] \in Scans(p)
  BY <1>1, <1>3, RecursionExists
<1>5. \A n \in 1 .. N : f[n] = ScanLine(p, content, f[n - 1], n)
  <2>1. \A n \in 1 .. N : n - 1 \in 0 .. N
    BY <1>1
  <2> QED
    BY <1>2, <1>4, <2>1 DEF StepsFrom
<1>6. ASSUME NEW n \in 0 .. N
      PROVE  f[n] = IF n = 0 THEN a ELSE ScanLine(p, content, f[n - 1], n)
  <2>1. n = 0 \/ n \in 1 .. N
    BY <1>1
  <2> QED
    BY <1>4, <1>5, <2>1 DEF StepsFrom
<1>7. f = [n \in 0 .. N |-> IF n = 0 THEN a ELSE ScanLine(p, content, f[n - 1], n)]
  BY <1>4, <1>6, Zenon DEF StepsFrom
<1>8. Scanned(f, p, content)
  BY <1>7, Zenon DEF Scanned, N, a
<1> QED
  BY <1>8

\* Extract is the last of them.
LEMMA ExtractIsScanned ==
    ASSUME NEW p, NEW content \in Seq(Lines)
    PROVE  \E scan : /\ Scanned(scan, p, content)
                     /\ Extract(p, content) = scan[Len(content)].found
<1> DEFINE scan == CHOOSE scan : Scanned(scan, p, content)
<1>1. Scanned(scan, p, content)
  BY ScannedExists
<1>2. Extract(p, content) = scan[Len(content)].found
  BY Zenon DEF Extract, Scanned, ScanLine
<1> QED
  BY <1>1, <1>2

\* After n lines the loop has found the definitions in them, and knows whether a
\* class was among them.
LEMMA ScanFinds ==
    ASSUME NEW p, NEW content \in Seq(Lines), NEW scan, Scanned(scan, p, content),
           NEW m \in 0 .. Len(content)
    PROVE  /\ scan[m] \in Scans(p)
           /\ Range(scan[m].found) = DefinedUpTo(p, content, m)
           /\ scan[m].inClass <=> \E j \in 1 .. m : content[j].def = "class"
<1> DEFINE Finds(n) ==
             /\ scan[n] \in Scans(p)
             /\ Range(scan[n].found) = DefinedUpTo(p, content, n)
             /\ scan[n].inClass <=> \E j \in 1 .. n : content[j].def = "class"
           S == {n \in Nat : n <= Len(content) => Finds(n)}
<1>0. Len(content) \in Nat
  OBVIOUS
<1>1. 0 \in S
  <2>1. scan[0] = [found |-> << >>, inClass |-> FALSE]
    BY <1>0 DEF Scanned
  <2>2. Finds(0)
    BY <2>1 DEF Scans, Range, DefinedUpTo
  <2> QED
    BY <2>2
<1>2. ASSUME NEW n \in Nat, n \in S PROVE n + 1 \in S
  <2>1. SUFFICES ASSUME n + 1 <= Len(content) PROVE Finds(n + 1)
    OBVIOUS
  <2> DEFINE acc  == scan[n]
             line == content[n + 1]
  <2>2. n + 1 \in 1 .. Len(content) /\ n + 1 \in 0 .. Len(content) /\ (n + 1) - 1 = n
    BY <1>0, <2>1
  <2>3. Finds(n)
    BY <1>0, <1>2, <2>1
  <2>4. scan[n + 1] = ScanLine(p, content, acc, n + 1)
    <3>1. scan[n + 1] = IF n + 1 = 0 THEN [found |-> << >>, inClass |-> FALSE]
                        ELSE ScanLine(p, content, scan[(n + 1) - 1], n + 1)
      BY <2>2, Zenon DEF Scanned
    <3> QED
      BY <2>2, <3>1
  <2>5. scan[n + 1] \in Scans(p)
    <3>1. acc \in Scans(p)
      BY <2>3
    <3> HIDE DEF acc
    <3> QED
      BY <2>2, <2>4, <3>1, ScanLineType
  <2>6. line \in Lines /\ line.def \in {"text", "class", "def", "constant"}
    BY <2>2, ContextAssumption DEF ContextAssumption
  <2>7. 1 .. n + 1 = (1 .. n) \cup {n + 1}
    OBVIOUS
  <2>8. CASE line.def = "text"
    <3>1. scan[n + 1] = acc
      BY <2>4, <2>8 DEF ScanLine
    <3>2. {j \in 1 .. n + 1 : content[j].def # "text"} = {j \in 1 .. n : content[j].def # "text"}
      BY <2>7, <2>8
    <3>3. (\E j \in 1 .. n + 1 : content[j].def = "class") <=> \E j \in 1 .. n : content[j].def = "class"
      BY <2>7, <2>8
    <3> HIDE DEF acc
    <3> QED
      BY <2>3, <2>5, <3>1, <3>2, <3>3 DEF acc, DefinedUpTo
  <2>9. CASE line.def # "text"
    <3> DEFINE sym == [file |-> p, name |-> line.name, line |-> n + 1,
                       kind |-> KindOf(line.def, acc.inClass)]
    <3>1. scan[n + 1] = [found |-> Append(acc.found, sym), inClass |-> acc.inClass \/ line.def = "class"]
      BY <2>4, <2>9 DEF ScanLine
    <3>2. sym = DefinedAt(p, content, n + 1)
      <4>1. (n + 1) - 1 = n
        OBVIOUS
      <4>2. KindOf(line.def, acc.inClass) =
              IF line.def # "def" THEN line.def
              ELSE IF \E j \in 1 .. n : content[j].def = "class" THEN "method" ELSE "function"
        BY <2>3 DEF KindOf
      <4> QED
        BY <4>1, <4>2 DEF DefinedAt
    <3>3. acc.found \in Seq(SymbolsOf(p)) /\ acc.inClass \in BOOLEAN
      BY <2>3 DEF Scans
    <3> HIDE DEF sym
    <3>4. Range(Append(acc.found, sym)) = Range(acc.found) \cup {sym}
      <4> DEFINE s == acc.found
      <4>1. s \in Seq(SymbolsOf(p))
        BY <3>3
      <4> HIDE DEF s
      <4>2. DOMAIN Append(s, sym) = 1 .. Len(s) + 1 /\ DOMAIN s = 1 .. Len(s) /\ Len(s) \in Nat
        BY <4>1
      <4>3. \A i \in 1 .. Len(s) + 1 : Append(s, sym)[i] = IF i = Len(s) + 1 THEN sym ELSE s[i]
        BY <4>1
      <4>4. 1 .. Len(s) + 1 = (1 .. Len(s)) \cup {Len(s) + 1}
        BY <4>2
      <4>5. Range(Append(s, sym)) = Range(s) \cup {sym}
        BY <4>2, <4>3, <4>4 DEF Range
      <4> QED
        BY <4>5 DEF s
    <3>5. {j \in 1 .. n + 1 : content[j].def # "text"} = {j \in 1 .. n : content[j].def # "text"} \cup {n + 1}
      BY <2>7, <2>9
    <3>6. Range(scan[n + 1].found) = DefinedUpTo(p, content, n + 1)
      <4>1. scan[n + 1].found = Append(acc.found, sym)
        BY <3>1
      <4>2. Range(acc.found) = DefinedUpTo(p, content, n)
        BY <2>3
      <4> HIDE DEF acc
      <4> QED
        BY <3>2, <3>4, <3>5, <4>1, <4>2 DEF DefinedUpTo
    <3>7. scan[n + 1].inClass <=> \E j \in 1 .. n + 1 : content[j].def = "class"
      <4>1. scan[n + 1].inClass = (acc.inClass \/ line.def = "class")
        BY <3>1
      <4>2. (\E j \in 1 .. n + 1 : content[j].def = "class") <=>
              (\E j \in 1 .. n : content[j].def = "class") \/ line.def = "class"
        BY <2>7
      <4>3. acc.inClass <=> \E j \in 1 .. n : content[j].def = "class"
        BY <2>3
      <4> HIDE DEF acc, line
      <4> QED
        BY <4>1, <4>2, <4>3, Zenon
    <3> QED
      BY <2>5, <3>6, <3>7
  <2> QED
    BY <2>8, <2>9
<1>3. Nat \subseteq S
  <2> HIDE DEF S
  <2> QED
    BY <1>1, <1>2, Induction
<1>4. m \in Nat /\ m <= Len(content)
  BY <1>0
<1> QED
  BY <1>3, <1>4

\* The scan of a file finds exactly what the file defines.
LEMMA ExtractFinds ==
    ASSUME NEW p, NEW content \in Seq(Lines)
    PROVE  /\ Extract(p, content) \in Seq(SymbolsOf(p))
           /\ Range(Extract(p, content)) = Defines(p, content)
<1>1. PICK scan : /\ Scanned(scan, p, content)
                  /\ Extract(p, content) = scan[Len(content)].found
  BY ExtractIsScanned
<1>2. Len(content) \in 0 .. Len(content) /\ DOMAIN content = 1 .. Len(content)
  OBVIOUS
<1>3. /\ scan[Len(content)] \in Scans(p)
      /\ Range(scan[Len(content)].found) = DefinedUpTo(p, content, Len(content))
  BY <1>1, <1>2, ScanFinds
<1> QED
  BY <1>1, <1>2, <1>3 DEF Scans, Defines, DefinedAt, DefinedUpTo

-----------------------------------------------------------------------------
(* The weights. *)

Symbols == [file : Indexed, name : {line.name : line \in Lines}, line : Nat \ {0}, kind : Kinds]

Keys(symbols) == {KeyOf(symbols[i]) : i \in DOMAIN symbols}

Positive(symbols) == [Keys(symbols) -> Nat \ {0}]

\* What the second loop does with symbol n.
WeighSymbol(symbols, w, n) == [w EXCEPT ![KeyOf(symbols[n])] = @ * Priority(symbols[n].kind)]

Weighed(weigh, symbols) ==
    weigh = [n \in 0 .. Len(symbols) |->
               IF n = 0 THEN [k \in Keys(symbols) |-> 1] ELSE WeighSymbol(symbols, weigh[n - 1], n)]

LEMMA WeighSymbolType ==
    ASSUME NEW symbols \in Seq(Symbols), NEW w \in Positive(symbols), NEW n \in 1 .. Len(symbols)
    PROVE  WeighSymbol(symbols, w, n) \in Positive(symbols)
<1> DEFINE k == KeyOf(symbols[n])
<1>1. symbols[n] \in Symbols /\ k \in Keys(symbols)
  BY DEF Keys
<1>2. Priority(symbols[n].kind) \in {1, 2, 3}
  BY <1>1 DEF Symbols, Kinds, Priority
<1>3. w[k] \in Nat \ {0}
  BY <1>1 DEF Positive
<1>4. w[k] * Priority(symbols[n].kind) \in Nat \ {0}
  <2> HIDE DEF k
  <2> QED
    BY <1>2, <1>3
<1> QED
  BY <1>1, <1>4 DEF Positive, WeighSymbol

\* Every weight is a product of priorities, so it is positive.
LEMMA WeightsPositive ==
    ASSUME NEW symbols \in Seq(Symbols)
    PROVE  Weights(symbols) \in Positive(symbols)
<1> DEFINE N    == Len(symbols)
           V    == Positive(symbols)
           a    == [k \in Keys(symbols) |-> 1]
           step == [x \in V \X (1 .. N) |-> WeighSymbol(symbols, x[1], x[2])]
<1>1. N \in Nat /\ a \in V
  BY DEF Positive
<1>2. \A v \in V, n \in 1 .. N : step[<<v, n>>] = WeighSymbol(symbols, v, n)
  OBVIOUS
<1>3. \A v \in V, n \in 1 .. N : step[<<v, n>>] \in V
  BY <1>2, WeighSymbolType
<1> HIDE DEF N, V, a, step
<1>4. PICK f : StepsFrom(f, N, a, step) /\ \A n \in 0 .. N : f[n] \in V
  BY <1>1, <1>3, RecursionExists
<1>5. \A n \in 1 .. N : f[n] = WeighSymbol(symbols, f[n - 1], n)
  <2>1. \A n \in 1 .. N : n - 1 \in 0 .. N
    BY <1>1
  <2> QED
    BY <1>2, <1>4, <2>1 DEF StepsFrom
<1>6. ASSUME NEW n \in 0 .. N
      PROVE  f[n] = IF n = 0 THEN a ELSE WeighSymbol(symbols, f[n - 1], n)
  <2>1. n = 0 \/ n \in 1 .. N
    BY <1>1
  <2> QED
    BY <1>4, <1>5, <2>1 DEF StepsFrom
<1>7. f = [n \in 0 .. N |-> IF n = 0 THEN a ELSE WeighSymbol(symbols, f[n - 1], n)]
  BY <1>4, <1>6, Zenon DEF StepsFrom
<1>8. Weighed(f, symbols)
  BY <1>7, Zenon DEF Weighed, N, a
<1> DEFINE weigh == CHOOSE weigh : Weighed(weigh, symbols)
<1>9. Weighed(weigh, symbols)
  BY <1>8
<1>10. Weights(symbols) = weigh[N]
  BY Zenon DEF Weights, Weighed, WeighSymbol, Keys, N
<1> HIDE DEF weigh
<1> DEFINE S == {n \in Nat : n <= N => weigh[n] \in V}
<1>11. weigh[0] = a
  BY <1>1, <1>9 DEF Weighed, N, a
<1>12. ASSUME NEW n \in Nat, n \in S PROVE n + 1 \in S
  <2>1. SUFFICES ASSUME n + 1 <= N PROVE weigh[n + 1] \in V
    OBVIOUS
  <2>2. weigh[n] \in V /\ n + 1 \in 1 .. N /\ n + 1 \in 0 .. N /\ (n + 1) - 1 = n
    BY <1>1, <1>12, <2>1
  <2>3. weigh[n + 1] = IF n + 1 = 0 THEN a ELSE WeighSymbol(symbols, weigh[(n + 1) - 1], n + 1)
    BY <1>9, <2>2, Zenon DEF Weighed, N, a
  <2>4. weigh[n + 1] = WeighSymbol(symbols, weigh[n], n + 1)
    BY <2>2, <2>3
  <2> QED
    BY <2>2, <2>4, WeighSymbolType DEF V, N
<1>13. N \in S
  <2>1. 0 \in S
    BY <1>1, <1>11
  <2> HIDE DEF S
  <2> QED
    BY <1>1, <1>12, <2>1, Induction
<1> QED
  BY <1>1, <1>10, <1>13 DEF V

-----------------------------------------------------------------------------
(* The walk over the files. *)

Own(symbols, p) == {symbols[i] : i \in {j \in DOMAIN symbols : symbols[j].file = p}}

\* The symbols of p are the definitions of one content it had, or it was absent.
OneOf(symbols, p) ==
    \/ Own(symbols, p) = {} /\ Absent \in during[p]
    \/ \E content \in during[p] \ {Absent} : Own(symbols, p) = Defines(p, content)

\* A walk has found nothing of the files it has not come to, and of each other
\* file what one content defines; when it ends, so has the index.
WalkInv ==
    /\ ~walk.busy => walk.left = {}
    /\ walk.busy => \A p \in Indexed :
         /\ p \in walk.left => Own(walk.found, p) = {}
         /\ p \notin walk.left => OneOf(walk.found, p)
    /\ ~walk.busy /\ index # << >> => \A p \in Indexed : OneOf(index, p)

\* The types of the state, all of it.
TypesInv ==
    /\ disk \in [Paths -> Contents \cup {Absent}]
    /\ edits \in 0 .. MaxEdits
    /\ index \in Seq(Symbols)
    /\ \A k \in DOMAIN centrality : centrality[k] \in Nat \ {0}
    /\ \A key \in DOMAIN jit : /\ key[1] \in Paths
                               /\ key[2] \in Nat \ {0}
                               /\ key[3] \in Nat \cup {NoEnd}
    /\ walk \in [busy : BOOLEAN, left : SUBSET Indexed, found : Seq(Symbols)]
    /\ since \in [Paths -> SUBSET (Contents \cup {Absent})]
    /\ during \in [Paths -> SUBSET (Contents \cup {Absent})]
    /\ \A p \in Paths : disk[p] \in since[p] \cap during[p]

IndexInv == TypesInv /\ WalkInv

\* A file's symbols in two sequences put together.
LEMMA OwnOfConcat ==
    ASSUME NEW s \in Seq(Symbols), NEW t \in Seq(Symbols), NEW p
    PROVE  Own(s \o t, p) = Own(s, p) \cup Own(t, p)
<1>1. /\ Len(s) \in Nat /\ Len(t) \in Nat
      /\ DOMAIN s = 1 .. Len(s) /\ DOMAIN t = 1 .. Len(t)
      /\ DOMAIN (s \o t) = 1 .. Len(s) + Len(t)
  OBVIOUS
<1>2. \A i \in DOMAIN s : i \in DOMAIN (s \o t) /\ (s \o t)[i] = s[i]
  OBVIOUS
<1>3. \A i \in DOMAIN t : i + Len(s) \in DOMAIN (s \o t) /\ (s \o t)[i + Len(s)] = t[i]
  OBVIOUS
<1>4. \A i \in DOMAIN (s \o t) :
        \/ i \in DOMAIN s /\ (s \o t)[i] = s[i]
        \/ i - Len(s) \in DOMAIN t /\ (s \o t)[i] = t[i - Len(s)]
  OBVIOUS
<1> DEFINE st == s \o t
<1> HIDE DEF st
<1>5. Own(st, p) \subseteq Own(s, p) \cup Own(t, p)
  BY <1>4 DEF Own, st
<1>6. Own(s, p) \subseteq Own(st, p)
  BY <1>2 DEF Own, st
<1>7. Own(t, p) \subseteq Own(st, p)
  BY <1>3 DEF Own, st
<1> QED
  BY <1>5, <1>6, <1>7 DEF st

\* The symbols of a scan are all of the file scanned, and what it defines.
LEMMA OwnOfExtract ==
    ASSUME NEW p \in Indexed, NEW content \in Seq(Lines), NEW q
    PROVE  /\ Extract(p, content) \in Seq(Symbols)
           /\ Own(Extract(p, content), q) = IF q = p THEN Defines(p, content) ELSE {}
<1> DEFINE e == Extract(p, content)
<1>1. e \in Seq(SymbolsOf(p)) /\ Range(e) = Defines(p, content)
  BY ExtractFinds
<1> HIDE DEF e
<1>2. \A i \in DOMAIN e : e[i] \in SymbolsOf(p)
  BY <1>1
<1>3. SymbolsOf(p) \subseteq Symbols /\ \A x \in SymbolsOf(p) : x.file = p
  BY DEF SymbolsOf, Symbols
<1>4. e \in Seq(Symbols)
  BY <1>1, <1>2, <1>3
<1>5. Own(e, q) = IF q = p THEN Range(e) ELSE {}
  BY <1>2, <1>3 DEF Own, Range
<1> QED
  BY <1>1, <1>4, <1>5 DEF e

\* What Lookup answers with is a symbol of that file and name, when there is one.
LEMMA LookupFinds ==
    ASSUME TypesInv, NEW p, NEW name
    PROVE  /\ Lookup(p, name) # 0 =>
                /\ Lookup(p, name) \in DOMAIN index
                /\ index[Lookup(p, name)].file = p
                /\ index[Lookup(p, name)].name = name
           /\ Lookup(p, name) = 0 =>
                ~ \E i \in DOMAIN index : index[i].file = p /\ index[i].name = name
<1> DEFINE I == {i \in 1 .. Len(index) : index[i].file = p /\ index[i].name = name}
<1>1. Lookup(p, name) = IF I # {} THEN Min(I) ELSE 0
  BY Zenon DEF Lookup, SelectInSeq
<1>2. DOMAIN index = 1 .. Len(index) /\ I \subseteq Nat /\ 0 \notin I
  BY DEF TypesInv
<1>3. I # {} => Min(I) \in I
  <2> HIDE DEF I
  <2> QED
    BY <1>2, MinIsIn
<1> QED
  BY <1>1, <1>2, <1>3

\* The lines around a symbol are numbered from 1.
LEMMA WindowIsPositive ==
    ASSUME NEW line \in Nat \ {0}
    PROVE  /\ WindowStart(line) \in Nat \ {0}
           /\ WindowStart(line) <= line
           /\ WindowEnd(line) \in Nat \ {0}
           /\ line <= WindowEnd(line)
<1>1. Around \in Nat
  BY ContextAssumption DEF ContextAssumption
<1>2. Max({1, line - Around}) = IF 1 >= line - Around THEN 1 ELSE line - Around
  BY <1>1, MaxOfTwo
<1> QED
  BY <1>1, <1>2 DEF WindowStart, WindowEnd

-----------------------------------------------------------------------------
(* The actions. *)

\* Edits add to what a file held during the walk.
LEMMA EditKeepsIndex ==
    ASSUME IndexInv, NEW p \in Paths, NEW content \in Contents \cup {Absent}, Edit(p, content)
    PROVE  IndexInv'
<1>1. UNCHANGED <<index, centrality, jit, walk>>
  BY DEF Edit, manager
<1>2. \A q \in Paths : during[q] \subseteq during'[q]
  BY DEF Edit, IndexInv, TypesInv
<1>3. TypesInv'
  <2>1. edits' \in 0 .. MaxEdits
    <3>1. MaxEdits \in Nat
      BY ContextAssumption DEF ContextAssumption
    <3>2. edits \in 0 .. MaxEdits /\ edits < MaxEdits /\ edits' = edits + 1
      BY DEF Edit, IndexInv, TypesInv
    <3> QED
      BY <3>1, <3>2
  <2>2. /\ disk' \in [Paths -> Contents \cup {Absent}]
        /\ since' \in [Paths -> SUBSET (Contents \cup {Absent})]
        /\ during' \in [Paths -> SUBSET (Contents \cup {Absent})]
    BY DEF Edit, IndexInv, TypesInv
  <2>3. \A q \in Paths : disk'[q] \in since'[q] \cap during'[q]
    BY DEF Edit, IndexInv, TypesInv
  <2> QED
    BY <1>1, <2>1, <2>2, <2>3 DEF IndexInv, TypesInv
<1>4. ASSUME NEW q \in Indexed, NEW symbols, OneOf(symbols, q)
      PROVE  \/ Own(symbols, q) = {} /\ Absent \in during'[q]
             \/ \E c \in during'[q] \ {Absent} : Own(symbols, q) = Defines(q, c)
  <2>1. during[q] \subseteq during'[q]
    BY <1>2, ContextAssumption DEF ContextAssumption
  <2> QED
    BY <1>4, <2>1 DEF OneOf
<1>5. WalkInv'
  BY <1>1, <1>4 DEF IndexInv, WalkInv, OneOf
<1> QED
  BY <1>3, <1>5 DEF IndexInv

\* A walk begins with nothing found.
LEMMA StartIndexKeeps == ASSUME IndexInv, StartIndex PROVE IndexInv'
<1>1. /\ walk' = [busy |-> TRUE, left |-> Indexed, found |-> << >>]
      /\ during' = [p \in Paths |-> {disk[p]}]
      /\ UNCHANGED <<disk, edits, index, centrality, jit, since>>
  BY DEF StartIndex, external
<1>2. TypesInv'
  <2>1. walk' \in [busy : BOOLEAN, left : SUBSET Indexed, found : Seq(Symbols)]
    BY <1>1
  <2>2. during' \in [Paths -> SUBSET (Contents \cup {Absent})]
    BY <1>1 DEF IndexInv, TypesInv
  <2>3. \A p \in Paths : disk'[p] \in since'[p] \cap during'[p]
    BY <1>1 DEF IndexInv, TypesInv
  <2> QED
    BY <1>1, <2>1, <2>2, <2>3 DEF IndexInv, TypesInv
<1>3. walk'.busy /\ walk'.left = Indexed /\ walk'.found = << >>
  BY <1>1
<1>4. \A p \in Indexed : Own(<< >>, p) = {}
  BY DEF Own
<1>5. WalkInv'
  BY <1>3, <1>4 DEF WalkInv
<1> QED
  BY <1>2, <1>5 DEF IndexInv

\* One more file adds the definitions of what it holds now, or nothing.
LEMMA IndexFileKeeps == ASSUME IndexInv, NEW p \in Paths, IndexFile(p) PROVE IndexInv'
<1>1. /\ p \in walk.left /\ p \in Indexed /\ walk.busy
      /\ walk \in [busy : BOOLEAN, left : SUBSET Indexed, found : Seq(Symbols)]
      /\ UNCHANGED <<disk, edits, index, centrality, jit, since, during>>
  BY DEF IndexFile, external, IndexInv, TypesInv, WalkInv
<1>2. \A q \in Indexed : /\ q \in walk.left => Own(walk.found, q) = {}
                         /\ q \notin walk.left => OneOf(walk.found, q)
  BY <1>1 DEF IndexInv, WalkInv
<1> DEFINE e == Extract(p, disk[p])
<1>3. CASE disk[p] # Absent /\ walk' = [walk EXCEPT !.left = @ \ {p}, !.found = @ \o e]
  <2>1. disk[p] \in Contents /\ disk[p] \in Seq(Lines) /\ disk[p] \in during[p] \ {Absent}
    BY <1>3, ContextAssumption DEF ContextAssumption, IndexInv, TypesInv
  <2>2. e \in Seq(Symbols) /\ \A q \in Indexed : Own(e, q) = IF q = p THEN Defines(p, disk[p]) ELSE {}
    BY <1>1, <2>1, OwnOfExtract
  <2> HIDE DEF e
  <2>3. walk'.busy /\ walk'.left = walk.left \ {p} /\ walk'.found = walk.found \o e
    BY <1>1, <1>3
  <2>4. walk' \in [busy : BOOLEAN, left : SUBSET Indexed, found : Seq(Symbols)]
    <3>1. walk.found \o e \in Seq(Symbols)
      BY <1>1, <2>2
    <3>2. walk.left \ {p} \in SUBSET Indexed
      BY <1>1
    <3> QED
      BY <1>1, <1>3, <3>1, <3>2
  <2>5. \A q \in Indexed : Own(walk'.found, q) = Own(walk.found, q) \cup Own(e, q)
    BY <1>1, <2>2, <2>3, OwnOfConcat
  <2>6. ASSUME NEW q \in Indexed
        PROVE  /\ q \in walk'.left => Own(walk'.found, q) = {}
               /\ q \notin walk'.left => OneOf(walk.found, q)' \/ OneOf(walk'.found, q)
    <3>1. CASE q = p
      <4>1. Own(walk'.found, q) = Defines(p, disk[p])
        BY <1>1, <1>2, <2>2, <2>5, <3>1
      <4>2. q \notin walk'.left
        BY <2>3, <3>1
      <4> QED
        BY <2>1, <3>1, <4>1, <4>2 DEF OneOf
    <3>2. CASE q # p
      <4>1. Own(walk'.found, q) = Own(walk.found, q)
        BY <2>2, <2>5, <3>2
      <4>2. q \in walk'.left <=> q \in walk.left
        BY <2>3, <3>2
      <4> QED
        BY <1>2, <4>1, <4>2 DEF OneOf
    <3> QED
      BY <3>1, <3>2
  <2>7. \A q \in Indexed : OneOf(walk'.found, q) => OneOf(walk.found, q)'
    BY <1>1 DEF OneOf
  <2>8. WalkInv'
    BY <2>3, <2>6, <2>7 DEF WalkInv
  <2>9. TypesInv'
    BY <1>1, <2>4 DEF IndexInv, TypesInv
  <2> QED
    BY <2>8, <2>9 DEF IndexInv
<1>4. CASE Absent \in during[p] /\ walk' = [walk EXCEPT !.left = @ \ {p}]
  <2>1. walk'.busy /\ walk'.left = walk.left \ {p} /\ walk'.found = walk.found
    BY <1>1, <1>4
  <2>2. walk' \in [busy : BOOLEAN, left : SUBSET Indexed, found : Seq(Symbols)]
    BY <1>1, <1>4
  <2>3. \A q \in Indexed : /\ q \in walk'.left => Own(walk.found, q) = {}
                           /\ q \notin walk'.left => OneOf(walk.found, q)
    BY <1>1, <1>2, <1>4, <2>1 DEF OneOf
  <2>4. WalkInv'
    BY <1>1, <2>1, <2>3 DEF WalkInv, OneOf
  <2>5. TypesInv'
    BY <1>1, <2>2 DEF IndexInv, TypesInv
  <2> QED
    BY <2>4, <2>5 DEF IndexInv
<1> QED
  BY <1>3, <1>4 DEF IndexFile

\* When all files are done the index is what the walk found, all of it.
LEMMA FinishIndexKeeps == ASSUME IndexInv, FinishIndex PROVE IndexInv'
<1>1. /\ walk.busy /\ walk.left = {} /\ index' = walk.found /\ centrality' = Weights(walk.found)
      /\ walk' = NoWalk /\ walk.found \in Seq(Symbols)
      /\ UNCHANGED <<disk, edits, jit, since, during>>
  BY DEF FinishIndex, NewIndex, external, IndexInv, TypesInv
<1>2. \A k \in DOMAIN centrality' : centrality'[k] \in Nat \ {0}
  <2>1. Weights(walk.found) \in Positive(walk.found)
    BY <1>1, WeightsPositive
  <2> QED
    BY <1>1, <2>1 DEF Positive
<1>3. /\ ~walk'.busy /\ walk'.left = {}
      /\ walk' \in [busy : BOOLEAN, left : SUBSET Indexed, found : Seq(Symbols)]
  BY <1>1 DEF NoWalk
<1>4. TypesInv'
  BY <1>1, <1>2, <1>3 DEF IndexInv, TypesInv
<1>5. \A p \in Indexed : OneOf(walk.found, p)
  BY <1>1 DEF IndexInv, WalkInv
<1>6. WalkInv'
  BY <1>1, <1>3, <1>5 DEF WalkInv, OneOf
<1> QED
  BY <1>4, <1>6 DEF IndexInv

\* Reads touch the cache only, with keys that name lines.
LEMMA ReadKeepsIndex ==
    ASSUME IndexInv, NEW p \in Paths, NEW start \in Nat \ {0}, NEW end \in Nat \cup {NoEnd},
           ReadLines(p, start, end)
    PROVE  IndexInv'
<1>1. UNCHANGED <<disk, edits, index, centrality, walk, since, during>>
  BY DEF ReadLines, external
<1>2. \A key \in DOMAIN jit' :
        key[1] \in Paths /\ key[2] \in Nat \ {0} /\ key[3] \in Nat \cup {NoEnd}
  <2>1. DOMAIN jit' \subseteq DOMAIN jit \cup {<<p, start, end>>}
    BY DEF ReadLines
  <2> QED
    BY <2>1 DEF IndexInv, TypesInv
<1> QED
  BY <1>1, <1>2 DEF IndexInv, TypesInv, WalkInv, OneOf

LEMMA InvalidateKeepsIndex == ASSUME IndexInv, NEW p \in Paths, Invalidate(p) PROVE IndexInv'
<1>1. /\ UNCHANGED <<disk, edits, index, centrality, walk, during>>
      /\ since' = [since EXCEPT ![p] = {disk[p]}]
      /\ DOMAIN jit' \subseteq DOMAIN jit
  BY DEF Invalidate, external
<1>2. since' \in [Paths -> SUBSET (Contents \cup {Absent})]
      /\ \A q \in Paths : disk[q] \in since'[q] \cap during[q]
  BY <1>1 DEF IndexInv, TypesInv
<1> QED
  BY <1>1, <1>2 DEF IndexInv, TypesInv, WalkInv, OneOf

\* Every step keeps the types and the account of the walk.
LEMMA IndexStep == IndexInv /\ [Next]_vars => IndexInv'
<1> SUFFICES ASSUME IndexInv, [Next]_vars PROVE IndexInv'
  OBVIOUS
<1>1. ASSUME NEW p \in Paths, NEW content \in Contents \cup {Absent}, Edit(p, content)
      PROVE  IndexInv'
  BY <1>1, EditKeepsIndex
<1>2. ASSUME NEW p \in Paths, IndexFile(p) PROVE IndexInv'
  BY <1>2, IndexFileKeeps
<1>3. ASSUME NEW p \in Paths, NEW range \in Ranges, ReadLines(p, range[1], range[2])
      PROVE  IndexInv'
  <2>1. range[1] \in Nat \ {0} /\ range[2] \in Nat \cup {NoEnd}
    BY ContextAssumption DEF ContextAssumption
  <2> QED
    BY <1>3, <2>1, ReadKeepsIndex
<1>4. ASSUME NEW p \in Paths, NEW name, ReadSymbol(p, name) PROVE IndexInv'
  <2> DEFINE line == index[Lookup(p, name)].line
  <2>1. TypesInv /\ Lookup(p, name) # 0 /\ ReadLines(p, WindowStart(line), WindowEnd(line))
    BY <1>4 DEF ReadSymbol, IndexInv
  <2>2. line \in Nat \ {0}
    <3>1. Lookup(p, name) \in DOMAIN index
      BY <2>1, LookupFinds
    <3>2. index[Lookup(p, name)] \in Symbols
      BY <2>1, <3>1 DEF TypesInv
    <3> QED
      BY <3>2 DEF Symbols
  <2> HIDE DEF line
  <2>3. WindowStart(line) \in Nat \ {0} /\ WindowEnd(line) \in Nat \cup {NoEnd}
    BY <2>2, WindowIsPositive
  <2> QED
    BY <2>1, <2>3, ReadKeepsIndex
<1>5. ASSUME NEW p \in Paths, Invalidate(p) PROVE IndexInv'
  BY <1>5, InvalidateKeepsIndex
<1>6. CASE StartIndex
  BY <1>6, StartIndexKeeps
<1>7. CASE FinishIndex
  BY <1>7, FinishIndexKeeps
<1>8. CASE UNCHANGED vars
  BY <1>8 DEF vars, external, manager, IndexInv, TypesInv, WalkInv, OneOf
<1> QED
  BY <1>1, <1>2, <1>3, <1>4, <1>5, <1>6, <1>7, <1>8 DEF Next

LEMMA IndexInit == Init => IndexInv
<1> SUFFICES ASSUME Init PROVE IndexInv
  OBVIOUS
<1>1. NoWalk \in [busy : BOOLEAN, left : SUBSET Indexed, found : Seq(Symbols)]
      /\ ~NoWalk.busy /\ NoWalk.left = {}
  BY DEF NoWalk
<1>2. TypesInv
  BY <1>1, ContextAssumption DEF Init, TypesInv, ContextAssumption
<1>3. WalkInv
  BY <1>1 DEF Init, WalkInv
<1> QED
  BY <1>2, <1>3 DEF IndexInv

-----------------------------------------------------------------------------
(* The views. *)

\* The quotient a budget is cut down to, and the products of views.
LEMMA Quotient ==
    ASSUME NEW b \in Nat, NEW T \in Nat \ {0}
    PROVE  b \div T \in Nat /\ (b \div T) * T <= b /\ b < (b \div T) * T + T
OBVIOUS

LEMMA ProductGrows ==
    ASSUME NEW T \in Nat \ {0}, NEW k \in Nat, NEW n \in Nat, k <= n
    PROVE  k * T \in Nat /\ n * T \in Nat /\ k * T <= n * T /\ T * k = k * T
OBVIOUS

\* The first symbols of a sequence, for a budget: as many as fit, or all.
LEMMA FirstSymbolsFit ==
    ASSUME NEW s \in Seq(Symbols), NEW b \in Nat
    PROVE  LET view == View(FirstSymbols(s, SymbolsFor(b)), b)
               k    == Len(view.skeleton)
           IN  /\ k \in Nat /\ k <= Len(s)
               /\ view.skeleton \in Seq(Symbols)
               /\ view.skeleton = SubSeq(s, 1, k)
               /\ view.tokens = k * TokensPerSymbol
               /\ view.tokens <= b
               /\ k = Len(s) \/ view.tokens + TokensPerSymbol > b
<1> DEFINE T == TokensPerSymbol
           q == b \div T
           k == Min({q, Len(s)})
<1>1. T \in Nat \ {0} /\ Len(s) \in Nat
  BY ContextAssumption DEF ContextAssumption
<1>2. q \in Nat /\ q * T <= b /\ b < q * T + T
  BY <1>1, Quotient
<1>3. k = IF q <= Len(s) THEN q ELSE Len(s)
  <2> HIDE DEF q
  <2> QED
    BY <1>1, <1>2, MinOfTwo
<1>4. FirstSymbols(s, SymbolsFor(b)) = SubSeq(s, 1, k)
  BY DEF FirstSymbols, SymbolsFor
<1> HIDE DEF q, k
<1>5. k \in Nat /\ k <= Len(s) /\ k <= q
  BY <1>1, <1>2, <1>3
<1>6. SubSeq(s, 1, k) \in Seq(Symbols) /\ Len(SubSeq(s, 1, k)) = k
  BY <1>1, <1>5
<1>7. k * T <= q * T /\ k * T \in Nat /\ q * T \in Nat
  BY <1>1, <1>2, <1>5, ProductGrows
<1>8. k * T <= b /\ (k = Len(s) \/ k * T + T > b)
  <2> DEFINE kT == k * T
             qT == q * T
  <2>1. k = Len(s) \/ k = q
    BY <1>3
  <2>2. k = q => kT = qT
    OBVIOUS
  <2> HIDE DEF kT, qT, T
  <2>3. kT <= qT /\ kT \in Nat /\ qT \in Nat /\ qT <= b /\ b < qT + T /\ T \in Nat
    BY <1>1, <1>2, <1>7 DEF kT, qT
  <2>4. kT <= b /\ (k = Len(s) \/ kT + T > b)
    BY <2>1, <2>2, <2>3
  <2> QED
    BY <2>4 DEF kT
<1> DEFINE view == View(FirstSymbols(s, SymbolsFor(b)), b)
<1>9. view.skeleton = SubSeq(s, 1, k) /\ view.tokens = k * T
  BY <1>4, <1>6 DEF View
<1> HIDE DEF view
<1>10. Len(view.skeleton) = k
  BY <1>6, <1>9
<1> QED
  BY <1>5, <1>6, <1>8, <1>9, <1>10, Zenon DEF view

\* A view made for one budget and truncated to another fits both.
LEMMA TruncatedFits ==
    ASSUME TypesInv, NEW b \in Nat, NEW c \in Nat
    PROVE  LET view == TruncatedTo(GetContext(b), c)
           IN  /\ view.tokens = TokensPerSymbol * Len(view.skeleton)
               /\ view.tokens <= b /\ view.tokens <= c
               /\ view.skeleton = SubSeq(index, 1, Len(view.skeleton))
               /\ \/ Len(view.skeleton) = Len(index)
                  \/ view.tokens + TokensPerSymbol > Min({b, c})
<1> DEFINE T  == TokensPerSymbol
           v  == View(FirstSymbols(index, SymbolsFor(b)), b)
           s  == v.skeleton
           w  == View(FirstSymbols(s, SymbolsFor(c)), c)
           k  == Len(s)
           m  == Len(w.skeleton)
           vt == v.tokens
           wt == w.tokens
           view == TruncatedTo(GetContext(b), c)
<1>1. T \in Nat \ {0} /\ index \in Seq(Symbols) /\ Len(index) \in Nat
  BY ContextAssumption DEF ContextAssumption, TypesInv
<1>2. /\ k \in Nat /\ k <= Len(index)
      /\ s \in Seq(Symbols) /\ s = SubSeq(index, 1, k)
      /\ vt = k * T /\ vt <= b
      /\ k = Len(index) \/ vt + T > b
  BY <1>1, FirstSymbolsFit
<1>3. view = IF vt <= c THEN v ELSE w
  BY DEF GetContext, TruncatedTo
<1>4. Min({b, c}) = IF b <= c THEN b ELSE c
  BY MinOfTwo
<1> HIDE DEF view, v
<1>5. /\ m \in Nat /\ m <= k
      /\ w.skeleton = SubSeq(s, 1, m)
      /\ wt = m * T /\ wt <= c
      /\ m = k \/ wt + T > c
  <2> HIDE DEF s
  <2> QED
    BY <1>2, FirstSymbolsFit
<1> HIDE DEF s, w
<1>6. vt \in Nat /\ wt \in Nat /\ wt <= vt /\ vt = T * k /\ wt = T * m
  BY <1>1, <1>2, <1>5, ProductGrows
<1>7. m = k => wt = vt
  BY <1>6
<1>8. /\ v.skeleton = s /\ Len(v.skeleton) = k /\ v.tokens = vt
      /\ Len(w.skeleton) = m /\ w.tokens = wt
      /\ T = TokensPerSymbol
  BY DEF s
<1>9. w.skeleton = SubSeq(index, 1, m)
  <2>1. SubSeq(SubSeq(index, 1, k), 1, m) = SubSeq(index, 1, m)
    <3> HIDE DEF k, m
    <3> QED
      BY <1>1, <1>2, <1>5
  <2> QED
    BY <1>2, <1>5, <2>1
<1>10. /\ vt \in Nat /\ wt \in Nat /\ T \in Nat /\ wt <= vt
       /\ vt <= b /\ wt <= c
       /\ k = Len(index) \/ vt + T > b
       /\ m = k \/ wt + T > c
  BY <1>1, <1>2, <1>5, <1>6
<1> HIDE DEF vt, wt, k, m, T
<1>11. CASE vt <= c
  <2>1. k = Len(index) \/ vt + T > Min({b, c})
    BY <1>4, <1>10
  <2>2. /\ vt = T * k /\ vt <= b /\ vt <= c
        /\ s = SubSeq(index, 1, k)
    BY <1>2, <1>6, <1>10, <1>11
  <2>3. view = v
    BY <1>3, <1>11
  <2> QED
    BY <1>8, <2>1, <2>2, <2>3, Zenon DEF view
<1>12. CASE ~(vt <= c)
  <2>1. wt + T > Min({b, c}) /\ wt <= b
    BY <1>4, <1>7, <1>10, <1>12
  <2>2. wt = T * m /\ wt <= b /\ wt <= c
    BY <1>6, <1>10, <2>1
  <2>3. view = w
    BY <1>3, <1>12
  <2> QED
    BY <1>8, <1>9, <2>1, <2>2, <2>3, Zenon DEF view
<1> QED
  BY <1>11, <1>12

-----------------------------------------------------------------------------
(* The text around a symbol. *)

\* A slice that begins at or before a line and ends at or after it shows it.
LEMMA SliceShows ==
    ASSUME NEW content \in Seq(Lines), NEW start \in Nat \ {0}, NEW end \in Nat \ {0},
           NEW line \in 1 .. Len(content), start <= line, line <= end
    PROVE  \E j \in DOMAIN Slice(content, start, end) :
               Slice(content, start, end)[j] = content[line]
<1> DEFINE n    == Len(content)
           last == IF end \in {NoEnd, 0} THEN n ELSE end
           hi   == Bound(last, n)
           shown == Slice(content, start, end)
<1>1. n \in Nat /\ last \in Nat /\ line <= last /\ line <= n
  OBVIOUS
<1>2. Bound(start - 1, n) = start - 1
  <2>1. Min({start - 1, n}) = IF start - 1 <= n THEN start - 1 ELSE n
    BY <1>1, MinOfTwo
  <2> QED
    BY <1>1, <2>1 DEF Bound
<1>3. hi \in Nat /\ line <= hi /\ hi <= n
  <2>1. Min({last, n}) = IF last <= n THEN last ELSE n
    BY <1>1, MinOfTwo
  <2> QED
    BY <1>1, <2>1 DEF Bound
<1>4. shown = SubSeq(content, start, hi)
  <2>1. shown = SubSeq(content, Bound(start - 1, n) + 1, hi)
    BY DEF Slice
  <2>2. Bound(start - 1, n) + 1 = start
    BY <1>2
  <2> HIDE DEF shown, hi, n
  <2> QED
    BY <2>1, <2>2
<1> HIDE DEF hi, shown
<1>5. line - start + 1 \in DOMAIN shown /\ shown[line - start + 1] = content[line]
  BY <1>1, <1>3, <1>4
<1> QED
  BY <1>5 DEF shown

\* So does the window of read_symbol.
LEMMA WindowShows ==
    ASSUME NEW content \in Seq(Lines), NEW line \in 1 .. Len(content)
    PROVE  LET slice == Slice(content, WindowStart(line), WindowEnd(line))
           IN  \E j \in DOMAIN slice : slice[j] = content[line]
<1> DEFINE start == WindowStart(line)
           end   == WindowEnd(line)
<1>1. line \in Nat \ {0}
  OBVIOUS
<1>2. /\ start \in Nat \ {0} /\ start <= line
      /\ end \in Nat \ {0} /\ line <= end
  BY <1>1, WindowIsPositive
<1> HIDE DEF start, end
<1>3. \E j \in DOMAIN Slice(content, start, end) :
          Slice(content, start, end)[j] = content[line]
  BY <1>2, SliceShows
<1> QED
  BY <1>3 DEF start, end

-----------------------------------------------------------------------------

\* The manager's state keeps its types: index entries are of indexed files, weights
\* are positive, and cache keys are of lines numbered from 1, also when read_symbol
\* makes them.
THEOREM ContextTyping == Spec => []ContextTypeOK
<1>1. IndexInv => ContextTypeOK
  <2> SUFFICES ASSUME IndexInv PROVE ContextTypeOK
    OBVIOUS
  <2>1. \A i \in DOMAIN index : index[i] \in Symbols
    BY DEF IndexInv, TypesInv
  <2> QED
    BY <2>1 DEF IndexInv, TypesInv, ContextTypeOK, Symbols
<1> QED
  BY <1>1, IndexInit, IndexStep, PTL DEF Spec

\* Between walks the index holds of each file what one content defines that the
\* file had since the walk began, however the files changed under the walk.
THEOREM IndexIsOfOneWalk == Spec => []IndexFromOneWalk
<1>1. IndexInv => IndexFromOneWalk
  BY DEF IndexInv, WalkInv, OneOf, Own, IndexFromOneWalk
<1> QED
  BY <1>1, IndexInit, IndexStep, PTL DEF Spec

\* While a file is as it was indexed, what read_symbol shows of a name of it has a
\* definition of that name in it.
THEOREM SymbolIsShown == Spec => []SymbolShown
<1>1. IndexInv /\ CacheInv => SymbolShown
  <2> SUFFICES ASSUME IndexInv, CacheInv, NEW i \in DOMAIN index,
                      Unchanged(index[i].file), disk[index[i].file] # Absent
               PROVE  LET shown == Shown(index[Lookup(index[i].file, index[i].name)])
                      IN  \E j \in DOMAIN shown : /\ shown[j].name = index[i].name
                                                 /\ shown[j].def # "text"
    BY DEF SymbolShown
  <2> DEFINE p       == index[i].file
             content == disk[p]
             k       == Lookup(p, index[i].name)
             sym     == index[k]
             key     == <<sym.file, WindowStart(sym.line), WindowEnd(sym.line)>>
  <2>1. p \in Indexed /\ p \in Paths /\ content \in Contents /\ content \in Seq(Lines)
    <3>1. index[i] \in Symbols
      BY DEF IndexInv, TypesInv
    <3>2. p \in Indexed /\ p \in Paths
      BY <3>1, ContextAssumption DEF ContextAssumption, Symbols
    <3>3. content \in Contents
      BY <3>2 DEF IndexInv, TypesInv
    <3> QED
      BY <3>2, <3>3, ContextAssumption DEF ContextAssumption
  <2>2. k \in DOMAIN index /\ sym.file = p /\ sym.name = index[i].name
    BY LookupFinds DEF IndexInv
  <2>3. sym \in Defines(p, content)
    <3>1. sym \in Own(index, p)
      BY <2>2 DEF Own
    <3>2. OneOf(index, p) /\ during[p] = {content}
      BY <2>1, <2>2 DEF IndexInv, WalkInv, Unchanged
    <3>3. Own(index, p) = Defines(p, content)
      BY <3>1, <3>2 DEF OneOf
    <3> QED
      BY <3>1, <3>3
  <2>4. PICK line \in DOMAIN content :
           content[line].def # "text" /\ sym.line = line /\ sym.name = content[line].name
    <3> HIDE DEF sym, content
    <3> QED
      BY <2>3 DEF Defines
  <2>5. line \in 1 .. Len(content) /\ line \in Nat \ {0}
    BY <2>1
  <2> DEFINE slice == Slice(content, WindowStart(line), WindowEnd(line))
  <2>7. Shown(sym) = slice
    <3>1. key = <<p, WindowStart(line), WindowEnd(line)>>
      BY <2>2, <2>4
    <3>2. CASE key \in DOMAIN jit
      <4>1. jit[key] = slice
        BY <3>1, <3>2 DEF CacheInv, ServedSinceInvalidate, Unchanged
      <4> QED
        BY <3>2, <4>1 DEF Shown
    <3>3. CASE key \notin DOMAIN jit
      BY <2>2, <2>4, <3>3 DEF Shown
    <3> QED
      BY <3>2, <3>3
  <2>8. \E j \in DOMAIN slice : slice[j] = content[line]
    <3>1. content \in Seq(Lines) /\ line \in 1 .. Len(content)
      BY <2>1, <2>5
    <3> HIDE DEF content
    <3> QED
      BY <3>1, WindowShows
  <2> HIDE DEF slice, content, p, k, sym
  <2>9. \E j \in DOMAIN slice : slice[j].name = sym.name /\ slice[j].def # "text"
    BY <2>4, <2>8
  <2> QED
    BY <2>2, <2>7, <2>9 DEF k, sym, p
<1>2. Init => CacheInv
  BY DEF Init, CacheInv, HistoryInv, ServedSinceInvalidate
<1> QED
  BY <1>1, <1>2, IndexInit, IndexStep, CacheStep, PTL DEF Spec

\* Every view fits the budget it was made for and the one it was truncated to, and
\* no symbol that would still fit is left out.
THEOREM ViewsFitBudgets == Spec => []ViewsFit
<1>1. IndexInv => ViewsFit
  <2> SUFFICES ASSUME IndexInv, NEW b \in Budgets, NEW c \in Budgets
               PROVE  LET view == TruncatedTo(GetContext(b), c)
                      IN  /\ view.tokens = TokensPerSymbol * Len(view.skeleton)
                          /\ view.tokens <= b /\ view.tokens <= c
                          /\ view.skeleton = SubSeq(index, 1, Len(view.skeleton))
                          /\ \/ Len(view.skeleton) = Len(index)
                             \/ view.tokens + TokensPerSymbol > Min({b, c})
    BY DEF ViewsFit
  <2>1. b \in Nat /\ c \in Nat
    BY ContextAssumption DEF ContextAssumption
  <2> QED
    BY <2>1, TruncatedFits DEF IndexInv
<1> QED
  BY <1>1, IndexInit, IndexStep, PTL DEF Spec
=============================================================================
