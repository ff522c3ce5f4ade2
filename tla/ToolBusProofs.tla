---------------------------- MODULE ToolBusProofs -----------------------------
(***************************************************************************)
(* The rate limiter and the tool bus on top of it, for any limits, windows,*)
(* clients, tools and sessions: where the limiter's slots are, what its    *)
(* windows hold, and that the bus uses the limiter as its specification    *)
(* allows and dispatches what it paid for.                                 *)
(***************************************************************************)
EXTENDS ToolBus, Inductions

(* The slots. *)

\* The part of the types the slots depend on, and the conservation itself.
SlotInv ==
    /\ concurrent \in 0 .. MaxConcurrent
    /\ holders \subseteq Clients
    /\ checked \in Nat
    /\ SlotConservation

\* A grant takes exactly one slot, within the limit.
LEMMA GrantTakesSlot ==
    ASSUME NEW tokens, SlotInv, Grant(tokens)
    PROVE  concurrent' = concurrent + 1 /\ concurrent' \in 0 .. MaxConcurrent
BY QuotaAssumption DEF SlotInv, Grant, CanAcquire, SlotFree

\* Holders are finitely many, so they can be counted one by one.
LEMMA HoldersCounted ==
    ASSUME NEW H, H \subseteq Clients
    PROVE  /\ IsFiniteSet(H)
           /\ Cardinality(H) \in Nat
           /\ \A c \in Clients \ H : Cardinality(H \cup {c}) = Cardinality(H) + 1
           /\ \A c \in H : Cardinality(H \ {c}) = Cardinality(H) - 1
<1>1. IsFiniteSet(H)
  BY QuotaAssumption, FS_Subset DEF QuotaAssumption
<1> QED
  BY <1>1, FS_CardinalityType, FS_AddElement, FS_RemoveElement

\* Initially and after every step the slots in use are those of the clients
\* inside and of the checks that ever passed.
LEMMA SlotStep == SlotInv /\ [Next]_vars => SlotInv'
<1> SUFFICES ASSUME SlotInv, [Next]_vars PROVE SlotInv'
  OBVIOUS
<1> USE QuotaAssumption DEF SlotInv, SlotConservation
<1>0. Cardinality(holders) \in Nat
  BY HoldersCounted
<1>1. ASSUME NEW c \in Clients, NEW tokens, Enter(c, tokens) PROVE SlotInv'
  <2>1. concurrent' = concurrent + 1 /\ concurrent' \in 0 .. MaxConcurrent
    BY <1>1, GrantTakesSlot DEF Enter
  <2>2. Cardinality(holders') = Cardinality(holders) + 1
    BY <1>1, HoldersCounted DEF Enter
  <2> QED
    BY <1>0, <1>1, <2>1, <2>2 DEF Enter
<1>2. ASSUME NEW c \in Clients, NEW tokens, EnterDenied(c, tokens) PROVE SlotInv'
  BY <1>2 DEF EnterDenied, Deny
<1>3. ASSUME NEW c \in Clients, Exit(c) PROVE SlotInv'
  <2>1. Cardinality(holders') = Cardinality(holders) - 1
    BY <1>3, HoldersCounted DEF Exit
  <2>2. Cardinality(holders') \in Nat
    BY <1>3, HoldersCounted DEF Exit
  <2>3. concurrent' = concurrent - 1 /\ concurrent > 0
    BY <1>0, <1>3, <2>1, <2>2 DEF Exit, Released
  <2> QED
    BY <1>0, <1>3, <2>1, <2>3 DEF Exit
<1>4. ASSUME NEW t \in Tools, CheckToolCall(t) PROVE SlotInv'
  <2>1. CASE Grant(0) /\ checked' = checked + 1
    BY <1>0, <1>4, <2>1, GrantTakesSlot DEF CheckToolCall
  <2>2. CASE Deny(0) /\ UNCHANGED checked
    BY <1>4, <2>2 DEF CheckToolCall, Deny
  <2> QED
    BY <1>4, <2>1, <2>2 DEF CheckToolCall
<1>5. ASSUME NEW s \in Sessions, CheckTurn(s) PROVE SlotInv'
  <2>1. CASE Grant(0) /\ checked' = checked + 1
    BY <1>0, <1>5, <2>1, GrantTakesSlot DEF CheckTurn
  <2>2. CASE Deny(0) /\ UNCHANGED checked
    BY <1>5, <2>2 DEF CheckTurn, Deny
  <2> QED
    BY <1>5, <2>1, <2>2 DEF CheckTurn
<1>6. CASE CheckRefused \/ UNCHANGED vars
  BY <1>6 DEF CheckRefused, vars, limiter
<1>7. CASE Tick \/ NewDay
  BY <1>7 DEF Tick, NewDay
<1> QED
  BY <1>1, <1>2, <1>3, <1>4, <1>5, <1>6, <1>7 DEF Next

\* Every slot in use belongs to a client inside or to a check that passed at any
\* time before: checks never give theirs back.
THEOREM SlotsAccounted == Spec => []SlotConservation
<1>1. Init => SlotInv
  BY QuotaAssumption, FS_EmptySet DEF Init, SlotInv, SlotConservation, QuotaAssumption
<1>2. SlotInv => SlotConservation
  BY DEF SlotInv
<1> QED
  BY <1>1, <1>2, SlotStep, PTL DEF Spec

\* Over the whole process at most MaxConcurrent checks pass, so that a per-tool
\* limit above MaxConcurrent is never reached.
THEOREM ChecksRunOut == Spec => []ChecksBounded
<1>1. Init => SlotInv
  BY QuotaAssumption, FS_EmptySet DEF Init, SlotInv, SlotConservation, QuotaAssumption
<1>2. SlotInv => ChecksBounded
  <2> SUFFICES ASSUME SlotInv PROVE checked <= MaxConcurrent
    BY DEF ChecksBounded
  <2>1. Cardinality(holders) \in Nat
    BY HoldersCounted DEF SlotInv
  <2> QED
    BY <2>1, QuotaAssumption DEF SlotInv, SlotConservation, QuotaAssumption
<1> QED
  BY <1>1, <1>2, SlotStep, PTL DEF Spec

-----------------------------------------------------------------------------
(* Younger: what keeping the young entries of a sequence does. *)

\* What Younger keeps of the first n entries.
Keeps(kept, seq, limit) ==
    kept = [n \in 0 .. Len(seq) |->
              IF n = 0 THEN << >>
              ELSE IF seq[n] < limit THEN Append(kept[n - 1], seq[n]) ELSE kept[n - 1]]

LEMMA KeepsNext ==
    ASSUME NEW kept, NEW seq, NEW limit, Keeps(kept, seq, limit),
           Len(seq) \in Nat, NEW n \in 1 .. Len(seq)
    PROVE  kept[n] = IF seq[n] < limit THEN Append(kept[n - 1], seq[n]) ELSE kept[n - 1]
<1>1. n \in 0 .. Len(seq) /\ n # 0
  OBVIOUS
<1> QED
  BY <1>1, Zenon DEF Keeps

\* There is such a function: its values are found one after the other.
LEMMA KeepsExists ==
    ASSUME NEW T, NEW seq \in Seq(T), NEW limit
    PROVE  \E kept : Keeps(kept, seq, limit)
<1> DEFINE Next1(v, n) == IF seq[n] < limit THEN Append(v, seq[n]) ELSE v
           UpTo(f, m) == f = [n \in 0 .. m |-> IF n = 0 THEN << >> ELSE Next1(f[n - 1], n)]
           S == {m \in Nat : \E f : UpTo(f, m)}
<1> HIDE DEF Next1
<1>1. 0 \in S
  <2> DEFINE f == [n \in 0 .. 0 |-> << >>]
  <2>1. UpTo(f, 0)
    OBVIOUS
  <2> QED
    BY <2>1
<1>2. ASSUME NEW m \in Nat, m \in S PROVE m + 1 \in S
  <2>1. PICK f : UpTo(f, m)
    BY <1>2
  <2> DEFINE g == [n \in 0 .. m + 1 |-> IF n = m + 1 THEN Next1(f[m], n) ELSE f[n]]
  <2>2. ASSUME NEW n \in 0 .. m + 1
        PROVE  g[n] = IF n = 0 THEN << >> ELSE Next1(g[n - 1], n)
    <3>1. CASE n = m + 1
      BY <3>1
    <3>2. CASE n = 0
      BY <2>1, <3>2
    <3>3. CASE n \in 1 .. m
      <4>1. f[n] = Next1(f[n - 1], n)
        BY <2>1, <3>3
      <4>2. g[n] = f[n] /\ g[n - 1] = f[n - 1]
        BY <3>3
      <4> QED
        BY <3>3, <4>1, <4>2
    <3> QED
      BY <3>1, <3>2, <3>3
  <2>3. g = [n \in 0 .. m + 1 |-> g[n]]
    OBVIOUS
  <2>4. UpTo(g, m + 1)
    <3> HIDE DEF g
    <3> QED
      BY <2>2, <2>3, Zenon
  <2> HIDE DEF g, UpTo
  <2> QED
    BY <2>4
<1>3. Len(seq) \in S
  <2> HIDE DEF S
  <2> QED
    BY <1>1, <1>2, Induction
<1> QED
  BY <1>3 DEF Keeps, Next1

\* Younger is the last value of it.
LEMMA YoungerIsKept ==
    ASSUME NEW T, NEW seq \in Seq(T), NEW limit
    PROVE  \E kept : Keeps(kept, seq, limit) /\ Younger(seq, limit) = kept[Len(seq)]
<1> DEFINE kept == CHOOSE kept : Keeps(kept, seq, limit)
<1>1. Keeps(kept, seq, limit)
  BY KeepsExists
<1>2. Younger(seq, limit) = kept[Len(seq)]
  BY DEF Younger, Keeps
<1> QED
  BY <1>1, <1>2

\* Younger looks at one entry after the other.
LEMMA YoungerOfEmpty == ASSUME NEW limit PROVE Younger(<< >>, limit) = << >>
<1>1. << >> \in Seq({})
  OBVIOUS
<1>2. PICK kept : Keeps(kept, << >>, limit) /\ Younger(<< >>, limit) = kept[Len(<< >>)]
  BY <1>1, YoungerIsKept
<1> QED
  BY <1>2 DEF Keeps

LEMMA YoungerOfAppend ==
    ASSUME NEW T, NEW seq \in Seq(T), NEW x \in T, NEW limit
    PROVE  Younger(Append(seq, x), limit) =
             IF x < limit THEN Append(Younger(seq, limit), x) ELSE Younger(seq, limit)
<1> DEFINE long == Append(seq, x)
<1>1. long \in Seq(T) /\ Len(long) = Len(seq) + 1 /\ long[Len(long)] = x
  OBVIOUS
<1>2. \A n \in 1 .. Len(seq) : long[n] = seq[n]
  OBVIOUS
<1>3. PICK f : Keeps(f, seq, limit) /\ Younger(seq, limit) = f[Len(seq)]
  BY YoungerIsKept
<1>4. PICK g : Keeps(g, long, limit) /\ Younger(long, limit) = g[Len(long)]
  BY <1>1, YoungerIsKept
<1> HIDE DEF long
<1> DEFINE S == {n \in Nat : n <= Len(seq) => f[n] = g[n]}
<1>5. 0 \in S
  BY <1>1, <1>3, <1>4 DEF Keeps
<1>6. ASSUME NEW n \in Nat, n \in S PROVE n + 1 \in S
  <2>1. SUFFICES ASSUME n + 1 <= Len(seq) PROVE f[n + 1] = g[n + 1]
    OBVIOUS
  <2>2. n + 1 \in 1 .. Len(seq) /\ n + 1 \in 1 .. Len(long) /\ (n + 1) - 1 = n
    BY <1>1, <2>1
  <2>3. f[n + 1] = IF seq[n + 1] < limit THEN Append(f[n], seq[n + 1]) ELSE f[n]
    BY <1>3, <2>2, KeepsNext
  <2>4. g[n + 1] = IF long[n + 1] < limit THEN Append(g[n], long[n + 1]) ELSE g[n]
    BY <1>1, <1>4, <2>2, KeepsNext
  <2>5. f[n] = g[n]
    BY <1>6, <2>1
  <2> QED
    BY <1>2, <2>2, <2>3, <2>4, <2>5
<1>7. Len(seq) \in S
  <2> HIDE DEF S
  <2> QED
    BY <1>5, <1>6, Induction
<1>8. g[Len(long)] = IF x < limit THEN Append(g[Len(seq)], x) ELSE g[Len(seq)]
  <2>1. Len(long) \in 1 .. Len(long) /\ Len(long) - 1 = Len(seq)
    BY <1>1
  <2> QED
    BY <1>1, <1>4, <2>1, KeepsNext
<1> QED
  BY <1>3, <1>4, <1>7, <1>8 DEF long

-----------------------------------------------------------------------------
(* The windows. *)

Aged(x) == IF x < Hour THEN x + 1 ELSE Hour

\* Ages grow entry by entry.
LEMMA OlderOfAppend ==
    ASSUME NEW seq \in Seq(0 .. Hour), NEW x \in 0 .. Hour
    PROVE  /\ Older(seq) \in Seq(0 .. Hour)
           /\ Older(<< >>) = << >>
           /\ Older(Append(seq, x)) = Append(Older(seq), Aged(x))
<1>1. Hour \in Nat
  BY QuotaAssumption
<1> USE <1>1
<1>2. ASSUME NEW s \in Seq(0 .. Hour)
      PROVE  /\ Older(s) \in Seq(0 .. Hour)
             /\ Len(Older(s)) = Len(s)
             /\ \A i \in 1 .. Len(s) : Older(s)[i] = Aged(s[i])
  <2>1. \A i \in 1 .. Len(s) : s[i] \in 0 .. Hour
    OBVIOUS
  <2>2. Older(s) = [i \in 1 .. Len(s) |-> Aged(s[i])]
    BY DEF Older, Aged
  <2>3. \A i \in 1 .. Len(s) : Aged(s[i]) \in 0 .. Hour
    BY <2>1 DEF Aged
  <2> QED
    BY <2>2, <2>3
<1>4. Older(<< >>) = << >>
  BY DEF Older
<1> DEFINE long == Append(seq, x)
           then == Append(Older(seq), Aged(x))
<1>5. /\ long \in Seq(0 .. Hour)
      /\ Len(long) = Len(seq) + 1
      /\ \A i \in 1 .. Len(seq) : long[i] = seq[i]
      /\ long[Len(seq) + 1] = x
  OBVIOUS
<1>6. Aged(x) \in 0 .. Hour
  BY DEF Aged
<1>7. /\ then \in Seq(0 .. Hour)
      /\ Len(then) = Len(seq) + 1
      /\ \A i \in 1 .. Len(seq) : then[i] = Older(seq)[i]
      /\ then[Len(seq) + 1] = Aged(x)
  BY <1>2, <1>6
<1> HIDE DEF long, then
<1>8. \A i \in 1 .. Len(seq) + 1 : Older(long)[i] = then[i]
  <2> TAKE i \in 1 .. Len(seq) + 1
  <2>1. Older(long)[i] = Aged(long[i])
    BY <1>2, <1>5
  <2>2. CASE i = Len(seq) + 1
    BY <1>5, <1>7, <2>1, <2>2
  <2>3. CASE i \in 1 .. Len(seq)
    BY <1>2, <1>5, <1>7, <2>1, <2>3
  <2> QED
    BY <2>2, <2>3
<1>9. Older(long) = then
  <2>1. Older(long) \in Seq(0 .. Hour) /\ Len(Older(long)) = Len(seq) + 1
    BY <1>2, <1>5
  <2>2. Older(long) = [i \in 1 .. Len(seq) + 1 |-> Older(long)[i]]
    BY <2>1
  <2>3. then = [i \in 1 .. Len(seq) + 1 |-> then[i]]
    BY <1>7
  <2> QED
    BY <1>8, <2>2, <2>3, Zenon
<1> QED
  BY <1>2, <1>4, <1>9 DEF long, then

\* What pruning and ageing do together, for one sequence of ages.
PruneFacts(seq) ==
    /\ \A limit \in {Minute, Hour} :
         /\ Younger(seq, limit) \in Seq(0 .. Hour)
         /\ Younger(Older(seq), limit) \in Seq(0 .. Hour)
         /\ Younger(Younger(seq, limit), limit) = Younger(seq, limit)
    /\ Younger(Younger(seq, Hour), Minute) = Younger(seq, Minute)
    /\ Younger(Older(Younger(seq, Hour)), Hour) = Younger(Older(seq), Hour)
    /\ Len(Younger(Older(seq), Hour)) <= Len(seq)
    /\ Len(Younger(Older(seq), Minute)) <= Len(Younger(seq, Minute))

\* By induction over the entries: pruning twice, or for the hour before the
\* minute, is pruning once; an entry too old stays too old; ageing adds none.
LEMMA Pruning == ASSUME NEW seq \in Seq(0 .. Hour) PROVE PruneFacts(seq)
<1>0. Hour \in Nat /\ Minute \in Nat /\ Minute <= Hour
  BY QuotaAssumption
<1> USE <1>0
<1>a. \A s \in Seq(0 .. Hour), y \in 0 .. Hour : \A limit \in {Minute, Hour} :
        Younger(Append(s, y), limit) =
          IF y < limit THEN Append(Younger(s, limit), y) ELSE Younger(s, limit)
  BY YoungerOfAppend
<1>b. \A s \in Seq(0 .. Hour), y \in 0 .. Hour : Append(s, y) \in Seq(0 .. Hour)
  OBVIOUS
<1> DEFINE S == {n \in Nat : \A s \in Seq(0 .. Hour) : Len(s) = n => PruneFacts(s)}
<1>1. 0 \in S
  <2> SUFFICES ASSUME NEW s \in Seq(0 .. Hour), Len(s) = 0 PROVE PruneFacts(s)
    OBVIOUS
  <2>1. s = << >> /\ << >> \in Seq(0 .. Hour) /\ 0 \in 0 .. Hour
    OBVIOUS
  <2>2. Older(<< >>) = << >>
    BY <2>1, OlderOfAppend
  <2>3. \A limit : Younger(<< >>, limit) = << >>
    BY YoungerOfEmpty
  <2>4. Len(<< >>) <= Len(<< >>)
    OBVIOUS
  <2>5. PruneFacts(<< >>)
    BY <2>1, <2>2, <2>3, <2>4, Zenon DEF PruneFacts
  <2> QED
    BY <2>1, <2>5
<1>2. ASSUME NEW n \in Nat, n \in S PROVE n + 1 \in S
  <2> SUFFICES ASSUME NEW s \in Seq(0 .. Hour), Len(s) = n + 1 PROVE PruneFacts(s)
    OBVIOUS
  <2> DEFINE r == SubSeq(s, 1, n)
             x == s[n + 1]
  <2>1. r \in Seq(0 .. Hour) /\ Len(r) = n /\ x \in 0 .. Hour /\ s = Append(r, x)
    OBVIOUS
  <2> HIDE DEF r, x
  <2>2. PruneFacts(r)
    BY <1>2, <2>1
  <2>3. Aged(x) \in 0 .. Hour /\ Aged(x) >= x /\ (x = Hour => Aged(x) = Hour)
    BY <2>1 DEF Aged
  <2> DEFINE h == Younger(r, Hour)
             m == Younger(r, Minute)
             o == Older(r)
  <2>4. /\ h \in Seq(0 .. Hour) /\ m \in Seq(0 .. Hour) /\ o \in Seq(0 .. Hour)
        /\ Older(h) \in Seq(0 .. Hour)
        /\ Younger(o, Hour) \in Seq(0 .. Hour) /\ Younger(o, Minute) \in Seq(0 .. Hour)
        /\ Younger(h, Hour) = h /\ Younger(m, Minute) = m /\ Younger(h, Minute) = m
        /\ Younger(Older(h), Hour) = Younger(o, Hour)
        /\ Len(Younger(o, Hour)) <= Len(r)
        /\ Len(Younger(o, Minute)) <= Len(m)
    BY <2>1, <2>2, OlderOfAppend DEF PruneFacts
  <2>5. Older(s) = Append(o, Aged(x)) /\ Older(Append(h, x)) = Append(Older(h), Aged(x))
    BY <2>1, <2>4, OlderOfAppend
  <2>6. /\ Younger(s, Hour) = IF x < Hour THEN Append(h, x) ELSE h
        /\ Younger(s, Minute) = IF x < Minute THEN Append(m, x) ELSE m
    BY <1>a, <2>1
  <2> HIDE DEF h, m, o
  <2>7. \A limit \in {Minute, Hour} :
          /\ Younger(Append(h, x), limit) =
               IF x < limit THEN Append(Younger(h, limit), x) ELSE Younger(h, limit)
          /\ Younger(Append(m, x), limit) =
               IF x < limit THEN Append(Younger(m, limit), x) ELSE Younger(m, limit)
    BY <1>a, <2>1, <2>4
  <2>8. \A limit \in {Minute, Hour} :
          /\ Younger(Older(s), limit) =
               IF Aged(x) < limit THEN Append(Younger(o, limit), Aged(x)) ELSE Younger(o, limit)
          /\ Younger(Append(Older(h), Aged(x)), limit) =
               IF Aged(x) < limit THEN Append(Younger(Older(h), limit), Aged(x))
                                  ELSE Younger(Older(h), limit)
    <3> TAKE limit \in {Minute, Hour}
    <3>1. Younger(Append(o, Aged(x)), limit) =
            IF Aged(x) < limit THEN Append(Younger(o, limit), Aged(x)) ELSE Younger(o, limit)
      BY <1>a, <2>3, <2>4, Zenon
    <3>2. Younger(Append(Older(h), Aged(x)), limit) =
            IF Aged(x) < limit THEN Append(Younger(Older(h), limit), Aged(x))
                               ELSE Younger(Older(h), limit)
      BY <1>a, <2>3, <2>4, Zenon
    <3> QED
      BY <2>5, <3>1, <3>2, Zenon
  <2>9. \A limit \in {Minute, Hour} :
          /\ Younger(s, limit) \in Seq(0 .. Hour)
          /\ Younger(Older(s), limit) \in Seq(0 .. Hour)
          /\ Younger(Younger(s, limit), limit) = Younger(s, limit)
    <3>1. Younger(s, Hour) \in Seq(0 .. Hour) /\ Younger(s, Minute) \in Seq(0 .. Hour)
      BY <1>b, <2>1, <2>4, <2>6, Zenon
    <3>2. Younger(Older(s), Hour) \in Seq(0 .. Hour) /\ Younger(Older(s), Minute) \in Seq(0 .. Hour)
      BY <1>b, <2>3, <2>4, <2>8, Zenon
    <3>3. Younger(Younger(s, Hour), Hour) = Younger(s, Hour)
      BY <2>4, <2>6, <2>7
    <3>4. Younger(Younger(s, Minute), Minute) = Younger(s, Minute)
      BY <2>4, <2>6, <2>7
    <3> QED
      BY <3>1, <3>2, <3>3, <3>4
  <2>10. Younger(Younger(s, Hour), Minute) = Younger(s, Minute)
    <3>1. CASE x < Hour
      BY <2>4, <2>6, <2>7, <3>1
    <3>2. CASE ~(x < Hour)
      <4>1. ~(x < Minute)
        BY <2>1, <3>2
      <4> QED
        BY <2>4, <2>6, <3>2, <4>1
    <3> QED
      BY <3>1, <3>2
  <2>11. Younger(Older(Younger(s, Hour)), Hour) = Younger(Older(s), Hour)
    <3>1. CASE x < Hour
      BY <2>4, <2>5, <2>6, <2>8, <3>1
    <3>2. CASE ~(x < Hour)
      <4>1. ~(Aged(x) < Hour)
        BY <2>1, <2>3, <3>2
      <4> QED
        BY <2>4, <2>6, <2>8, <3>2, <4>1
    <3> QED
      BY <3>1, <3>2
  <2>12. Len(Younger(Older(s), Hour)) <= Len(s)
    <3>1. Len(Younger(Older(s), Hour)) <= Len(Younger(o, Hour)) + 1
      BY <2>3, <2>4, <2>8
    <3>2. Len(Younger(o, Hour)) \in Nat /\ Len(Younger(Older(s), Hour)) \in Nat
      BY <2>4, <2>9
    <3> QED
      BY <2>1, <2>4, <3>1, <3>2
  <2>13. Len(Younger(Older(s), Minute)) <= Len(Younger(s, Minute))
    <3>1. CASE Aged(x) < Minute
      <4>1. x < Minute
        BY <2>1, <2>3, <3>1
      <4>2. /\ Len(Younger(Older(s), Minute)) = Len(Younger(o, Minute)) + 1
            /\ Len(Younger(s, Minute)) = Len(m) + 1
        BY <2>1, <2>3, <2>4, <2>6, <2>8, <3>1, <4>1
      <4> QED
        BY <2>4, <4>2
    <3>2. CASE ~(Aged(x) < Minute)
      <4>1. Younger(Older(s), Minute) = Younger(o, Minute)
        BY <2>8, <3>2
      <4>2. Len(m) <= Len(Younger(s, Minute))
        BY <2>1, <2>4, <2>6
      <4>3. Len(m) \in Nat /\ Len(Younger(o, Minute)) \in Nat /\ Len(Younger(s, Minute)) \in Nat
        BY <2>4, <2>9
      <4> QED
        BY <2>4, <4>1, <4>2, <4>3
    <3> QED
      BY <3>1, <3>2
  <2> QED
    BY <2>9, <2>10, <2>11, <2>12, <2>13 DEF PruneFacts
<1>3. Nat \subseteq S
  <2> HIDE DEF S
  <2> QED
    BY <1>1, <1>2, Induction
<1>4. Len(seq) \in Nat
  OBVIOUS
<1> QED
  BY <1>3, <1>4

\* The limiter has what is young of all it ever granted, in order, and perhaps
\* older entries, which no acquire has pruned yet.
WindowInv ==
    /\ ages \in Seq(0 .. Hour)
    /\ recent \in Seq(0 .. Hour)
    /\ Younger(ages, Hour) = recent
    /\ WindowsRespected

\* A grant finds room in both windows, and its own request is young in both.
LEMMA GrantKeepsWindows == ASSUME NEW tokens, WindowInv, Grant(tokens) PROVE WindowInv'
<1>0. /\ Hour \in Nat /\ Minute \in Nat /\ 0 < Minute /\ Minute <= Hour
      /\ MaxPerMinute \in Nat /\ MaxPerHour \in Nat
  BY QuotaAssumption
<1>1. Pruned = recent /\ recent \in Seq(0 .. Hour) /\ 0 \in 0 .. Hour
  BY <1>0 DEF WindowInv, Pruned
<1>2. ages' = Append(recent, 0) /\ recent' = Append(recent, 0)
  BY <1>1 DEF Grant
<1>3. Younger(recent, Minute) \in Seq(0 .. Hour) /\ Younger(recent, Hour) = recent
  BY <1>1, Pruning DEF PruneFacts, Pruned, WindowInv
<1>4. Len(recent) < MaxPerHour /\ Len(Younger(recent, Minute)) < MaxPerMinute
  BY <1>1 DEF Grant, CanAcquire, HourFree, MinuteFree
<1>5. /\ Younger(recent', Hour) = Append(Younger(recent, Hour), 0)
      /\ Younger(recent', Minute) = Append(Younger(recent, Minute), 0)
  <2>1. \A limit : Younger(Append(recent, 0), limit) =
          IF 0 < limit THEN Append(Younger(recent, limit), 0) ELSE Younger(recent, limit)
    BY <1>1, YoungerOfAppend
  <2>2. 0 < Hour
    BY <1>0
  <2> QED
    BY <1>0, <1>2, <2>1, <2>2
<1>6. recent' \in Seq(0 .. Hour) /\ Len(recent') = Len(recent) + 1
  BY <1>1, <1>2
<1>7. Len(Younger(recent', Minute)) = Len(Younger(recent, Minute)) + 1
  BY <1>3, <1>5
<1>8. WindowsRespected'
  <2>1. Len(recent) \in Nat /\ Len(Younger(recent, Minute)) \in Nat
    BY <1>1, <1>3
  <2> QED
    BY <1>0, <1>4, <1>6, <1>7, <2>1 DEF WindowsRespected
<1> QED
  BY <1>2, <1>3, <1>5, <1>6, <1>8 DEF WindowInv

\* A refusal prunes, and prunes nothing that still counts.
LEMMA DenyKeepsWindows == ASSUME NEW tokens, WindowInv, Deny(tokens) PROVE WindowInv'
<1>1. ages' = recent /\ recent' = recent
  BY DEF WindowInv, Deny, Pruned
<1>2. Younger(recent, Hour) = recent
  BY Pruning DEF PruneFacts, WindowInv
<1>3. WindowsRespected'
  BY <1>1 DEF WindowInv, WindowsRespected
<1> QED
  BY <1>1, <1>2, <1>3 DEF WindowInv

\* As time passes requests only leave the windows, on both sides alike.
LEMMA TickKeepsWindows == ASSUME WindowInv, Tick PROVE WindowInv'
<1>0. MaxPerMinute \in Nat /\ MaxPerHour \in Nat
  BY QuotaAssumption
<1>1. /\ ages \in Seq(0 .. Hour) /\ recent \in Seq(0 .. Hour)
      /\ Younger(ages, Hour) = recent
  BY DEF WindowInv
<1>2. /\ ages' = Older(ages)
      /\ recent' = Younger(Older(recent), Hour)
      /\ Older(ages) \in Seq(0 .. Hour)
      /\ Older(recent) \in Seq(0 .. Hour)
  <2>1. 0 \in 0 .. Hour
    BY QuotaAssumption
  <2> QED
    BY <1>1, <2>1, OlderOfAppend DEF Tick
<1>3. recent' \in Seq(0 .. Hour) /\ Younger(recent', Minute) = Younger(Older(recent), Minute)
  BY <1>2, Pruning DEF PruneFacts
<1>4. Younger(ages', Hour) = recent'
  BY <1>1, <1>2, Pruning DEF PruneFacts
<1>5. /\ Len(recent') <= Len(recent)
      /\ Len(Younger(recent', Minute)) <= Len(Younger(recent, Minute))
  BY <1>1, <1>2, <1>3, Pruning DEF PruneFacts
<1>6. /\ Len(recent) \in Nat /\ Len(recent') \in Nat
      /\ Len(Younger(recent, Minute)) \in Nat /\ Len(Younger(recent', Minute)) \in Nat
  <2>1. Younger(recent, Minute) \in Seq(0 .. Hour) /\ Younger(recent', Minute) \in Seq(0 .. Hour)
    BY <1>1, <1>3, Pruning DEF PruneFacts
  <2> QED
    BY <1>1, <1>3, <2>1
<1>7. WindowsRespected'
  BY <1>0, <1>5, <1>6 DEF WindowInv, WindowsRespected
<1> QED
  BY <1>2, <1>3, <1>4, <1>7 DEF WindowInv

\* Every other step leaves the requests alone.
LEMMA WindowStep == WindowInv /\ [Next]_vars => WindowInv'
<1> SUFFICES ASSUME WindowInv, [Next]_vars PROVE WindowInv'
  OBVIOUS
<1>0. ASSUME UNCHANGED <<ages, recent>> PROVE WindowInv'
  BY <1>0 DEF WindowInv, WindowsRespected
<1>1. ASSUME NEW c \in Clients, NEW tokens, Enter(c, tokens) PROVE WindowInv'
  BY <1>1, GrantKeepsWindows DEF Enter
<1>2. ASSUME NEW c \in Clients, NEW tokens, EnterDenied(c, tokens) PROVE WindowInv'
  BY <1>2, DenyKeepsWindows DEF EnterDenied
<1>3. ASSUME NEW c \in Clients, Exit(c) PROVE WindowInv'
  BY <1>0, <1>3 DEF Exit
<1>4. ASSUME NEW t \in Tools, CheckToolCall(t) PROVE WindowInv'
  BY <1>4, GrantKeepsWindows, DenyKeepsWindows DEF CheckToolCall
<1>5. ASSUME NEW s \in Sessions, CheckTurn(s) PROVE WindowInv'
  BY <1>5, GrantKeepsWindows, DenyKeepsWindows DEF CheckTurn
<1>6. CASE CheckRefused \/ NewDay \/ UNCHANGED vars
  BY <1>0, <1>6 DEF CheckRefused, NewDay, vars, limiter
<1>7. CASE Tick
  BY <1>7, TickKeepsWindows
<1> QED
  BY <1>1, <1>2, <1>3, <1>4, <1>5, <1>6, <1>7 DEF Next

\* Of all the requests the limiter ever granted, no more are younger than a
\* minute or than an hour than its limits allow, although it keeps only what it
\* has not pruned.
THEOREM WindowsAreRespected == Spec => []WindowsRespected
<1>1. Init => WindowInv
  <2> SUFFICES ASSUME Init PROVE WindowInv
    OBVIOUS
  <2>1. ages = << >> /\ recent = << >>
    BY DEF Init
  <2>2. \A limit : Younger(<< >>, limit) = << >>
    BY YoungerOfEmpty
  <2>3. MaxPerMinute \in Nat /\ MaxPerHour \in Nat
    BY QuotaAssumption
  <2> QED
    BY <2>1, <2>2, <2>3 DEF WindowInv, WindowsRespected
<1>2. WindowInv => WindowsRespected
  BY DEF WindowInv
<1> QED
  BY <1>1, <1>2, WindowStep, PTL DEF Spec

-----------------------------------------------------------------------------
(* Types. *)

LimitsInv == SlotInv /\ WindowInv /\ QuotaTypeOK

\* A grant stays within the tokens of the day.
LEMMA GrantTyped ==
    ASSUME NEW tokens \in Nat, QuotaTypeOK, Grant(tokens)
    PROVE  tokensToday' \in 0 .. MaxTokensPerDay
BY QuotaAssumption DEF Grant, CanAcquire, TokensFree, QuotaTypeOK

\* Every counter stays within its limit.
LEMMA LimitsStep == LimitsInv /\ [Next]_vars => LimitsInv'
<1> SUFFICES ASSUME LimitsInv, [Next]_vars PROVE QuotaTypeOK'
  BY SlotStep, WindowStep DEF LimitsInv
<1>0. /\ {MaxTokensPerDay, MaxConcurrent, MaxToolCalls, MaxTurns} \subseteq Nat
      /\ TokenCosts \subseteq Nat
  BY QuotaAssumption
<1>a. /\ ages' \in Seq(0 .. Hour) /\ recent' \in Seq(0 .. Hour)
      /\ concurrent' \in 0 .. MaxConcurrent
      /\ holders' \subseteq Clients
      /\ checked' \in Nat
  BY SlotStep, WindowStep DEF LimitsInv, SlotInv, WindowInv
<1>b. QuotaTypeOK
  BY DEF LimitsInv
<1>c. ASSUME NEW tokens, Deny(tokens) PROVE tokensToday' = tokensToday
  BY <1>c DEF Deny
<1> DEFINE Rest == /\ tokensToday' \in 0 .. MaxTokensPerDay
                   /\ toolCalls' \in [Tools -> 0 .. MaxToolCalls]
                   /\ turnCounts' \in [Sessions -> 0 .. MaxTurns]
<1> SUFFICES Rest
  BY <1>a DEF QuotaTypeOK
<1> USE DEF counts
<1>1. ASSUME NEW c \in Clients, NEW tokens \in TokenCosts, Enter(c, tokens) PROVE Rest
  BY <1>0, <1>1, <1>b, GrantTyped DEF Enter, QuotaTypeOK
<1>2. ASSUME NEW c \in Clients, NEW tokens, EnterDenied(c, tokens) PROVE Rest
  BY <1>2, <1>b, <1>c DEF EnterDenied, QuotaTypeOK
<1>3. ASSUME NEW c \in Clients, Exit(c) PROVE Rest
  BY <1>3, <1>b DEF Exit, QuotaTypeOK
<1>4. ASSUME NEW t \in Tools, CheckToolCall(t) PROVE Rest
  <2>1. tokensToday' \in 0 .. MaxTokensPerDay
    BY <1>4, <1>b, <1>c, GrantTyped DEF CheckToolCall, QuotaTypeOK
  <2>2. toolCalls' \in [Tools -> 0 .. MaxToolCalls]
    <3>1. toolCalls \in [Tools -> 0 .. MaxToolCalls]
      BY <1>b DEF QuotaTypeOK
    <3>2. CASE toolCalls' = [toolCalls EXCEPT ![t] = @ + 1]
      <4>1. toolCalls[t] + 1 \in 0 .. MaxToolCalls
        BY <1>0, <1>4, <3>1 DEF CheckToolCall
      <4> QED
        BY <3>1, <3>2, <4>1
    <3>3. CASE UNCHANGED toolCalls
      BY <3>1, <3>3
    <3> QED
      BY <1>4, <3>2, <3>3 DEF CheckToolCall
  <2> QED
    BY <1>4, <1>b, <2>1, <2>2 DEF CheckToolCall, QuotaTypeOK
<1>5. ASSUME NEW s \in Sessions, CheckTurn(s) PROVE Rest
  <2>1. tokensToday' \in 0 .. MaxTokensPerDay
    BY <1>5, <1>b, <1>c, GrantTyped DEF CheckTurn, QuotaTypeOK
  <2>2. turnCounts' \in [Sessions -> 0 .. MaxTurns]
    BY <1>0, <1>5, <1>b DEF CheckTurn, QuotaTypeOK
  <2> QED
    BY <1>5, <1>b, <2>1, <2>2 DEF CheckTurn, QuotaTypeOK
<1>6. CASE CheckRefused \/ UNCHANGED vars
  BY <1>6, <1>b DEF CheckRefused, vars, limiter, QuotaTypeOK
<1>7. CASE Tick \/ NewDay
  BY <1>0, <1>7, <1>b DEF Tick, NewDay, QuotaTypeOK
<1> QED
  BY <1>1, <1>2, <1>3, <1>4, <1>5, <1>6, <1>7 DEF Next

\* The counters of the limiter and of the QuotaManager stay within their limits.
THEOREM QuotaTyped == Spec => []QuotaTypeOK
<1>1. Init => SlotInv
  BY QuotaAssumption, FS_EmptySet DEF Init, SlotInv, SlotConservation, QuotaAssumption
<1>2. Init => WindowInv /\ QuotaTypeOK
  <2> SUFFICES ASSUME Init PROVE WindowInv /\ QuotaTypeOK
    OBVIOUS
  <2>1. ages = << >> /\ recent = << >>
    BY DEF Init
  <2>2. \A limit : Younger(<< >>, limit) = << >>
    BY YoungerOfEmpty
  <2> QED
    BY <2>1, <2>2, QuotaAssumption DEF WindowInv, WindowsRespected, Init, QuotaTypeOK
<1>3. LimitsInv => QuotaTypeOK
  BY DEF LimitsInv
<1>4. Init => LimitsInv
  BY <1>1, <1>2 DEF LimitsInv
<1> QED
  BY <1>3, <1>4, LimitsStep, PTL DEF Spec

-----------------------------------------------------------------------------
(* The tool bus. *)

\* The counters that relate the bus to its QuotaManager.
PaidInv ==
    /\ quotas \in BOOLEAN
    /\ toolCalls \in [Tools -> Nat]
    /\ ran \in [Tools -> Nat]
    /\ misfit \in [Tools -> Nat]
    /\ CallsArePaid

\* Every step of the bus is a step of the limiter, or leaves it as it is.
LEMMA BusStepIsLimiterStep == [BusNext]_busVars => [Next]_vars
<1>1. ASSUME NEW t \in Tools, NEW sig \in Signatures, Register(t, sig) \/ RegisterRefused(t, sig)
      PROVE  UNCHANGED vars
  BY <1>1 DEF Register, RegisterRefused, busVars
<1>2. ASSUME NEW t \in Tools, ExecuteUnknown(t) PROVE UNCHANGED vars
  BY <1>2 DEF ExecuteUnknown, busVars
<1>3. ASSUME NEW t \in Tools, NEW complete \in BOOLEAN, ExecuteWithQuota(t, complete)
      PROVE  Next
  BY <1>3 DEF ExecuteWithQuota, Next
<1>4. ASSUME NEW t \in Tools, NEW complete \in BOOLEAN, ExecuteFreely(t, complete)
      PROVE  UNCHANGED vars
  BY <1>4 DEF ExecuteFreely
<1>5. CASE Beside
  BY <1>5 DEF Beside, Next
<1>6. CASE UNCHANGED busVars
  BY <1>6 DEF busVars
<1> QED
  BY <1>1, <1>2, <1>3, <1>4, <1>5, <1>6 DEF BusNext

\* The bus implements the limiter it is built on: it adds no request, release or
\* count of its own.
THEOREM BusImplementsLimiter == BusSpec => Spec
<1>1. BusInit => Init
  BY DEF BusInit
<1> QED
  BY <1>1, BusStepIsLimiterStep, PTL DEF BusSpec, Spec

\* Whatever the bus executes, every slot in use belongs to a client inside or to
\* a check that passed at any time before.
THEOREM BusSlotsAccounted == BusSpec => []SlotConservation
BY BusImplementsLimiter, SlotsAccounted, PTL

-----------------------------------------------------------------------------

\* A dispatch counts the call once, as run or as refused for its arguments.
LEMMA DispatchCountsOnce ==
    ASSUME NEW t \in Tools, NEW complete \in BOOLEAN, Dispatch(t, complete),
           ran \in [Tools -> Nat], misfit \in [Tools -> Nat]
    PROVE  /\ ran' \in [Tools -> Nat]
           /\ misfit' \in [Tools -> Nat]
           /\ ran'[t] + misfit'[t] = ran[t] + misfit[t] + 1
           /\ \A u \in Tools \ {t} : ran'[u] + misfit'[u] = ran[u] + misfit[u]
<1>1. CASE complete
  BY <1>1 DEF Dispatch
<1>2. CASE ~complete
  BY <1>2 DEF Dispatch
<1> QED
  BY <1>1, <1>2

\* A check of one tool counts it at most once and leaves the other tools alone.
LEMMA CheckCountsOnce ==
    ASSUME NEW t \in Tools, CheckToolCall(t), toolCalls \in [Tools -> Nat]
    PROVE  \/ toolCalls' = toolCalls
           \/ toolCalls' = [toolCalls EXCEPT ![t] = @ + 1]
BY DEF CheckToolCall

\* What runs beside the bus counts no tool call.
LEMMA BesideLeavesToolCalls == Beside => UNCHANGED <<toolCalls, quotas, ran, misfit>>
<1> SUFFICES ASSUME Beside PROVE UNCHANGED <<toolCalls, quotas, ran, misfit>>
  OBVIOUS
<1> USE DEF counts
<1>1. UNCHANGED <<quotas, ran, misfit>>
  BY DEF Beside, bus, history
<1>2. ASSUME NEW c \in Clients, NEW tokens \in TokenCosts,
             Enter(c, tokens) \/ EnterDenied(c, tokens)
      PROVE  UNCHANGED toolCalls
  BY <1>2 DEF Enter, EnterDenied
<1>3. ASSUME NEW c \in Clients, Exit(c) PROVE UNCHANGED toolCalls
  BY <1>3 DEF Exit
<1>4. ASSUME NEW s \in Sessions, CheckTurn(s) PROVE UNCHANGED toolCalls
  BY <1>4 DEF CheckTurn
<1>5. ASSUME CheckRefused \/ Tick \/ NewDay PROVE UNCHANGED toolCalls
  BY <1>5 DEF CheckRefused, Tick, NewDay, vars
<1> QED
  BY <1>1, <1>2, <1>3, <1>4, <1>5 DEF Beside

\* Each step keeps the account of paid calls.
LEMMA PaidStep == PaidInv /\ [BusNext]_busVars => PaidInv'
<1> SUFFICES ASSUME PaidInv, [BusNext]_busVars PROVE PaidInv'
  OBVIOUS
<1> USE DEF PaidInv, CallsArePaid
<1>1. ASSUME NEW t \in Tools, NEW sig \in Signatures, Register(t, sig) \/ RegisterRefused(t, sig)
      PROVE  PaidInv'
  BY <1>1 DEF Register, RegisterRefused, busVars, vars, counts, bus, history
<1>2. ASSUME NEW t \in Tools, ExecuteUnknown(t) PROVE PaidInv'
  BY <1>2 DEF ExecuteUnknown, busVars, vars, counts, bus, history
<1>3. ASSUME NEW t \in Tools, NEW complete \in BOOLEAN, ExecuteWithQuota(t, complete)
      PROVE  PaidInv'
  <2>1. quotas' = quotas /\ CheckToolCall(t)
    BY <1>3 DEF ExecuteWithQuota, bus
  <2>2. CASE Passed(t)
    <3>1. toolCalls' = [toolCalls EXCEPT ![t] = @ + 1]
      BY <2>1, <2>2, CheckCountsOnce DEF Passed
    <3>2. Dispatch(t, complete)
      BY <1>3, <2>2 DEF ExecuteWithQuota
    <3> QED
      BY <1>3, <2>1, <3>1, <3>2, DispatchCountsOnce
  <2>3. CASE ~Passed(t)
    <3>1. toolCalls' = toolCalls
      BY <2>1, <2>3, CheckCountsOnce DEF Passed
    <3> QED
      BY <1>3, <2>1, <2>3, <3>1 DEF ExecuteWithQuota, history
  <2> QED
    BY <2>2, <2>3
<1>4. ASSUME NEW t \in Tools, NEW complete \in BOOLEAN, ExecuteFreely(t, complete)
      PROVE  PaidInv'
  BY <1>4, DispatchCountsOnce DEF ExecuteFreely, vars, counts, bus
<1>5. CASE Beside
  BY <1>5, BesideLeavesToolCalls
<1>6. CASE UNCHANGED busVars
  BY <1>6 DEF busVars, vars, counts, bus, history
<1>7. CASE BusNext
  BY <1>1, <1>2, <1>3, <1>4, <1>5, <1>7 DEF BusNext
<1> QED
  BY <1>6, <1>7

\* Nothing is called and nothing counted when the bus is built.
LEMMA PaidStart == BusInit => PaidInv
<1>1. BusInit => quotas \in BOOLEAN
  BY DEF BusInit, CreatedToolbus, EmptyBus
<1>2. BusInit => /\ toolCalls = [t \in Tools |-> 0]
                 /\ ran = [t \in Tools |-> 0]
                 /\ misfit = [t \in Tools |-> 0]
  BY DEF BusInit, Init
<1> QED
  BY <1>1, <1>2 DEF PaidInv, CallsArePaid

\* With quotas no tool runs unpaid and no paid call is lost: each either ran or
\* had its arguments refused.
THEOREM EveryCallPaid == BusSpec => []CallsArePaid
<1>1. PaidInv => CallsArePaid
  BY DEF PaidInv
<1> QED
  BY <1>1, PaidStart, PaidStep, PTL DEF BusSpec

-----------------------------------------------------------------------------

\* Whatever the bus executes, the requests of the last minute and hour stay
\* within their limits.
THEOREM BusWindowsRespected == BusSpec => []WindowsRespected
BY BusImplementsLimiter, WindowsAreRespected, PTL

\* The registry holds signatures, and the bus keeps what it was built with.
RegistryInv ==
    /\ signer \in BOOLEAN
    /\ quotas \in BOOLEAN
    /\ tools \in [Tools -> Signatures \cup {"absent"}]

LEMMA RegistryStep == RegistryInv /\ [BusNext]_busVars => RegistryInv'
<1> SUFFICES ASSUME RegistryInv, [BusNext]_busVars PROVE RegistryInv'
  OBVIOUS
<1>0. ASSUME UNCHANGED bus PROVE RegistryInv'
  BY <1>0 DEF bus, RegistryInv
<1>1. ASSUME NEW t \in Tools, NEW sig \in Signatures, Register(t, sig) PROVE RegistryInv'
  BY <1>1 DEF Register, RegistryInv
<1>2. ASSUME NEW t \in Tools, NEW sig \in Signatures, RegisterRefused(t, sig) PROVE RegistryInv'
  BY <1>0, <1>2 DEF RegisterRefused, busVars
<1>3. ASSUME NEW t \in Tools, ExecuteUnknown(t) PROVE RegistryInv'
  BY <1>0, <1>3 DEF ExecuteUnknown, busVars
<1>4. ASSUME NEW t \in Tools, NEW complete \in BOOLEAN,
             ExecuteWithQuota(t, complete) \/ ExecuteFreely(t, complete)
      PROVE  RegistryInv'
  BY <1>0, <1>4 DEF ExecuteWithQuota, ExecuteFreely
<1>5. CASE Beside \/ UNCHANGED busVars
  BY <1>0, <1>5 DEF Beside, busVars
<1> QED
  BY <1>1, <1>2, <1>3, <1>4, <1>5 DEF BusNext

\* The types of the bus and of the limiter below it.
THEOREM BusTyped == BusSpec => []BusTypeOK
<1>1. BusInit => RegistryInv
  BY DEF BusInit, CreatedToolbus, EmptyBus, RegistryInv, Signatures
<1>2. BusSpec => []RegistryInv
  BY <1>1, RegistryStep, PTL DEF BusSpec
<1>3. BusSpec => []QuotaTypeOK
  BY BusImplementsLimiter, QuotaTyped, PTL
<1>4. BusSpec => []PaidInv
  BY PaidStart, PaidStep, PTL DEF BusSpec
<1>5. RegistryInv /\ QuotaTypeOK /\ PaidInv => BusTypeOK
  BY DEF RegistryInv, PaidInv, BusTypeOK
<1> QED
  BY <1>2, <1>3, <1>4, <1>5, PTL
=============================================================================
