---------------------------- MODULE ToolkitProofs -----------------------------
(***************************************************************************)
(* The file tools, the memory file, the budget and the step pruner, for    *)
(* any paths, texts, connections, memories, requests and calls.            *)
(***************************************************************************)
EXTENDS Toolkit, Inductions

(* Files. *)

\* What is under way belongs to a stage of a tool call.
CallInv ==
    /\ call.stage \in {"none", "read", "opened", "copied"}
    /\ call.stage = "read" => call.path \in Paths /\ call.sequel \in Edit
    /\ call.stage = "opened" => call.path \in Paths /\ call.sequel \in Sequels

DamageInv == CallInv /\ EmptiedIsTold

\* Opening a file accounts for it.
LEMMA OpenKeeps ==
    ASSUME DamageInv, NEW p \in Paths, NEW text, NEW sequel \in Sequels,
           call.stage \in {"none", "read"}, Open(p, text, sequel)
    PROVE  DamageInv'
<1>1. CallInv'
  BY DEF CallInv, Open
<1> QED
  BY <1>1 DEF DamageInv, EmptiedIsTold, Open

\* Writing a file, or taking it away, makes good for it.
LEMMA PutKeeps ==
    ASSUME DamageInv, NEW p, NEW text, Put(p, text), UNCHANGED <<call, told>>
    PROVE  DamageInv'
BY DEF Put, DamageInv, CallInv, EmptiedIsTold

\* A finished write has filled its file; a move goes on to its source.
LEMMA WriteEndsKeeps == DamageInv /\ WriteEnds => DamageInv'
<1> SUFFICES ASSUME DamageInv, WriteEnds PROVE DamageInv'
  OBVIOUS
<1>1. call.stage = "opened" /\ call'.stage \in {"none", "copied"} /\ told' = told
  BY DEF WriteEnds, NoCall
<1>2. torn' = torn \ {call.path}
  BY DEF WriteEnds, Put
<1> QED
  BY <1>1, <1>2 DEF DamageInv, CallInv, EmptiedIsTold

\* A failed write reports its file.
LEMMA WriteFailsKeeps == DamageInv /\ WriteFails => DamageInv'
<1> SUFFICES ASSUME DamageInv, WriteFails PROVE DamageInv'
  OBVIOUS
<1>1. /\ call.stage = "opened" /\ call'.stage = "none"
      /\ told' = told \cup {call.path}
  BY DEF WriteFails, Told, NoCall
<1>2. torn' \subseteq torn
  BY DEF WriteFails, Put
<1> QED
  BY <1>1, <1>2 DEF DamageInv, CallInv, EmptiedIsTold

\* A rename takes the damage and its report along.
LEMMA RenameKeeps ==
    ASSUME DamageInv, NEW src \in Paths, NEW dst \in Paths, RenameFile(src, dst)
    PROVE  DamageInv'
<1>1. CallInv' /\ call.stage = "none" /\ UNCHANGED call
  BY DEF RenameFile, DamageInv, CallInv, NoCall
<1>2. torn \subseteq told
  BY <1>1 DEF DamageInv, EmptiedIsTold
<1>3. torn' \subseteq told'
  BY <1>2 DEF RenameFile
<1> QED
  BY <1>1, <1>3 DEF DamageInv, EmptiedIsTold

\* Each step keeps account of the emptied files.
LEMMA DamageStep == DamageInv /\ [FilesNext]_filesVars => DamageInv'
<1> SUFFICES ASSUME DamageInv, [FilesNext]_filesVars PROVE DamageInv'
  OBVIOUS
<1>a. Edit \subseteq Sequels /\ NoCall \in Sequels /\ \A p \in Paths : [from |-> p] \in Sequels
  BY DEF Sequels
<1>1. ASSUME NEW p \in Paths, NEW text \in Texts, WriteFile(p, text) PROVE DamageInv'
  BY <1>1, <1>a, OpenKeeps DEF WriteFile, NoCall
<1>2. ASSUME NEW e \in Edit, EditFile(e) PROVE DamageInv'
  BY <1>2 DEF EditFile, DamageInv, CallInv, EmptiedIsTold, NoCall, Edit
<1>3. CASE EditOpens
  BY <1>3, <1>a, OpenKeeps DEF EditOpens, DamageInv, CallInv
<1>4. CASE WriteEnds
  BY <1>4, WriteEndsKeeps
<1>5. CASE WriteFails
  BY <1>5, WriteFailsKeeps
<1>6. CASE EditOpenFails
  BY <1>6 DEF EditOpenFails, DamageInv, CallInv, EmptiedIsTold, NoCall
<1>7. ASSUME NEW p \in Paths, NEW mark \in Marks, AppendFile(p, mark) PROVE DamageInv'
  <2>1. UNCHANGED <<call, told>> /\ torn' \subseteq torn
    BY <1>7 DEF AppendFile, Put
  <2> QED
    BY <2>1 DEF DamageInv, CallInv, EmptiedIsTold
<1>8. ASSUME NEW p \in Paths, NEW mark \in Marks, Save(p, mark) PROVE DamageInv'
  BY <1>8, PutKeeps DEF Save
<1>9. ASSUME NEW src \in Paths, NEW dst \in Paths, CopyFile(src, dst) PROVE DamageInv'
  BY <1>9, <1>a, OpenKeeps DEF CopyFile, NoCall
<1>10. ASSUME NEW src \in Paths, NEW dst \in Paths, MoveFile(src, dst) PROVE DamageInv'
  <2>1. CASE MoveAcross(src, dst)
    BY <1>a, <2>1, OpenKeeps DEF MoveAcross, NoCall
  <2> QED
    BY <1>10, <2>1, RenameKeeps DEF MoveFile
<1>11. CASE MoveUnlinks
  <2>1. call.stage = "copied" /\ call'.stage = "none" /\ told' = told /\ torn' \subseteq torn
    BY <1>11 DEF MoveUnlinks, Put, NoCall
  <2> QED
    BY <2>1 DEF DamageInv, CallInv, EmptiedIsTold
<1>12. CASE MoveKeepsSource
  BY <1>12 DEF MoveKeepsSource, DamageInv, CallInv, EmptiedIsTold, NoCall
<1>13. ASSUME NEW p \in Paths, DeleteFile(p) PROVE DamageInv'
  BY <1>13, PutKeeps DEF DeleteFile
<1>14. CASE ClearHistory
  BY <1>14 DEF ClearHistory, DamageInv, CallInv, EmptiedIsTold
<1>15. CASE UNCHANGED filesVars
  BY <1>15 DEF filesVars, DamageInv, CallInv, EmptiedIsTold
<1>16. CASE FilesNext
  BY <1>1, <1>2, <1>3, <1>4, <1>5, <1>6, <1>7, <1>8, <1>9, <1>10, <1>11, <1>12, <1>13,
     <1>14, <1>16 DEF FilesNext
<1> QED
  BY <1>15, <1>16

\* No tool leaves a file emptied without saying so, whatever other programs save,
\* whichever write fails and wherever files are copied and moved to.
THEOREM EmptyingReported == FilesSpec => []EmptiedIsTold
<1>1. FilesInit => DamageInv
  BY DEF FilesInit, DamageInv, CallInv, EmptiedIsTold, NoCall
<1>2. DamageInv => EmptiedIsTold
  BY DEF DamageInv
<1> QED
  BY <1>1, <1>2, DamageStep, PTL DEF FilesSpec

-----------------------------------------------------------------------------
(* Memory. *)

\* No recall of the table finds m.
Dead(table, m) == ~(table[m] # NoRow /\ table[m].valid)

\* Forgotten memories are dead in the committed table and in the writer's, and a
\* forget under way has killed its memory in the latter.
ForgetInv ==
    /\ rows \in Table
    /\ working \in Table
    /\ \A m \in forgotten : m \in Memories /\ Dead(rows, m) /\ Dead(working, m)
    /\ \A m \in deleting : m \in Memories /\ Dead(working, m)
    /\ writer = NoConnection => deleting = {}

\* Invalidating a row, deleting the expired ones and a day's ageing keep the shape
\* of the table.
LEMMA TableChangesTyped ==
    ASSUME rows \in Table
    PROVE  /\ \A k \in Memories : Invalidated(k) \in Table
           /\ [k \in Memories |-> IF Expired(rows[k]) THEN NoRow ELSE rows[k]] \in Table
           /\ Aged(rows) \in Table
<1>1. ASSUME NEW k \in Memories PROVE Invalidated(k) \in Table
  BY <1>1 DEF Invalidated, Table, Row
<1>2. [k \in Memories |-> IF Expired(rows[k]) THEN NoRow ELSE rows[k]] \in Table
  BY DEF Table
<1>3. Aged(rows) \in Table
  BY MemoryAssumption DEF Aged, Table, Row, MemoryAssumption, Forever
<1> QED
  BY <1>1, <1>2, <1>3

\* None of them brings a memory back, and invalidating kills its own.
LEMMA TableChangesKill ==
    ASSUME rows \in Table, NEW m \in Memories
    PROVE  /\ \A k \in Memories : Dead(rows, m) => Dead(Invalidated(k), m)
           /\ Dead(Invalidated(m), m)
           /\ Dead(rows, m) =>
                Dead([k \in Memories |-> IF Expired(rows[k]) THEN NoRow ELSE rows[k]], m)
           /\ Dead(rows, m) => Dead(Aged(rows), m)
<1>1. \A k \in Memories : Dead(rows, m) => Dead(Invalidated(k), m)
  BY DEF Invalidated, Table, Row, Dead
<1>2. Dead(Invalidated(m), m)
  BY DEF Invalidated, Table, Row, Dead
<1>3. Dead(rows, m) => Dead(Aged(rows), m)
  BY DEF Aged, Table, Row, Dead
<1> QED
  BY <1>1, <1>2, <1>3 DEF Dead

\* No step brings a forgotten memory back.
LEMMA ForgetStep == ForgetInv /\ [MemoryNext]_memoryVars => ForgetInv'
<1> SUFFICES ASSUME ForgetInv, [MemoryNext]_memoryVars PROVE ForgetInv'
  OBVIOUS
<1> USE MemoryAssumption DEF ForgetInv, MemoryAssumption
<1>1. ASSUME NEW c \in Connections, Connect(c) \/ Remember(c) PROVE ForgetInv'
  BY <1>1 DEF Connect, Remember, memoryVars, Dead
<1>2. ASSUME NEW c \in Connections, Disconnect(c) PROVE ForgetInv'
  BY <1>2 DEF Disconnect, Dead
<1>3. ASSUME NEW c \in Connections, NEW m \in Memories, Forget(c, m) PROVE ForgetInv'
  <2>1. /\ rows' = rows /\ forgotten' = forgotten
        /\ working' = Invalidated(m) /\ deleting' \subseteq {m} /\ writer' = c
    BY <1>3 DEF Forget, Begin, Matching
  <2> QED
    BY <2>1, TableChangesTyped, TableChangesKill DEF Dead
<1>4. ASSUME NEW c \in Connections, Cleanup(c) PROVE ForgetInv'
  <2>1. /\ rows' = rows /\ forgotten' = forgotten /\ deleting' = {} /\ writer' = c
        /\ working' = [k \in Memories |-> IF Expired(rows[k]) THEN NoRow ELSE rows[k]]
    BY <1>4 DEF Cleanup, Begin
  <2> QED
    BY <2>1, TableChangesTyped, TableChangesKill DEF Dead
<1>5. ASSUME NEW c \in Connections, Commit(c) PROVE ForgetInv'
  BY <1>5 DEF Commit, Committed, Dead
<1>6. CASE Day
  <2>1. /\ rows' = Aged(rows) /\ working' = Aged(rows)
        /\ UNCHANGED <<deleting, forgotten, writer>> /\ writer = NoConnection
    BY <1>6 DEF Day
  <2> QED
    BY <2>1, TableChangesTyped, TableChangesKill DEF Dead
<1>7. CASE UNCHANGED memoryVars
  BY <1>7 DEF memoryVars, Dead
<1>8. CASE MemoryNext
  BY <1>1, <1>2, <1>3, <1>4, <1>5, <1>6, <1>8 DEF MemoryNext
<1> QED
  BY <1>7, <1>8

\* Once forget has returned True no connection recalls the memory, whoever writes
\* and whichever processes die meanwhile.
THEOREM ForgottenForGood == MemorySpec => []ForgetIsDurable
<1>1. MemoryInit => ForgetInv
  BY DEF MemoryInit, ForgetInv, Table
<1>2. ForgetInv => ForgetIsDurable
  BY DEF ForgetInv, ForgetIsDurable, Recall, Dead
<1> QED
  BY <1>1, <1>2, ForgetStep, PTL DEF MemorySpec

-----------------------------------------------------------------------------
(* The budget. *)

\* A check that passes was counted, and so is one that does not.
BudgetInv == BudgetTypeOK /\ RefusalIsFinal /\ passed <= budgetTurns

\* What is refused stays refused, with everything larger, when turns and tokens
\* only grow.
LEMMA RefusedStay ==
    ASSUME used \in Nat, used' \in Nat, used <= used',
           budgetTurns \in Nat, budgetTurns' \in Nat, budgetTurns <= budgetTurns',
           NEW tokens \in Nat, NEW more \in Nat, tokens <= more, ~Passes(tokens)
    PROVE  ~Passes(more)'
<1>1. MaxTokens \in Nat /\ MaxTurns \in Nat
  BY BudgetAssumption DEF BudgetAssumption
<1>2. PICK tokensUsed \in Nat : tokensUsed = used'
  OBVIOUS
<1>3. PICK turnsTaken \in Nat : turnsTaken = budgetTurns'
  OBVIOUS
<1>4. used <= tokensUsed /\ budgetTurns <= turnsTaken
  BY <1>2, <1>3
<1>5. ~(budgetTurns + 1 <= MaxTurns) \/ ~(10 * (used + tokens) < 9 * MaxTokens)
  BY DEF Passes, TurnLeft, BelowHardStop
<1>6. ~(turnsTaken + 1 <= MaxTurns) \/ ~(10 * (tokensUsed + more) < 9 * MaxTokens)
  BY <1>1, <1>4, <1>5
<1> QED
  BY <1>2, <1>3, <1>6 DEF Passes, TurnLeft, BelowHardStop

\* Turns and tokens only grow, and only a passing check counts as passed.
LEMMA BudgetStep == BudgetInv /\ [BudgetNext]_budgetVars => BudgetInv'
<1> SUFFICES ASSUME BudgetInv, [BudgetNext]_budgetVars PROVE BudgetInv'
  OBVIOUS
<1>a. /\ MaxTokens \in Nat /\ MaxTurns \in Nat /\ MaxUsed \in Nat
      /\ \A t \in Requests : t \in Nat
  BY BudgetAssumption DEF BudgetAssumption
<1>b. /\ used \in 0 .. MaxUsed /\ budgetTurns \in 0 .. MaxTurns + 1
      /\ passed \in Nat /\ passed <= budgetTurns /\ passed <= MaxTurns
      /\ refused \subseteq Requests
      /\ \A small \in refused, large \in Requests : large >= small => ~Passes(large)
  BY DEF BudgetInv, BudgetTypeOK, RefusalIsFinal
<1>1. ASSUME NEW tokens \in Requests, Check(tokens) PROVE BudgetInv'
  <2>1. /\ used' = used /\ budgetTurns' \in 0 .. MaxTurns + 1
        /\ budgetTurns <= budgetTurns'
        /\ budgetTurns <= MaxTurns => budgetTurns' = budgetTurns + 1
    BY <1>1, <1>a, <1>b DEF Check, CountTurn
  <2>2. /\ passed' \in Nat /\ passed' <= budgetTurns' /\ passed' <= MaxTurns
        /\ refused' \subseteq Requests
    <3>1. CASE Passes(tokens) /\ passed' = passed + 1 /\ UNCHANGED refused
      <4>1. budgetTurns + 1 <= MaxTurns
        BY <3>1 DEF Passes, TurnLeft
      <4> QED
        BY <1>a, <1>b, <2>1, <3>1, <4>1
    <3>2. CASE refused' = refused \cup {tokens} /\ UNCHANGED passed
      BY <1>a, <1>b, <2>1, <3>2
    <3> QED
      BY <1>1, <3>1, <3>2 DEF Check
  <2>3. ASSUME NEW small \in refused', NEW large \in Requests, large >= small
        PROVE  ~Passes(large)'
    <3>1. ~Passes(small)
      <4>1. CASE small \in refused
        BY <1>a, <1>b, <4>1
      <4>2. CASE small \notin refused
        BY <1>1, <2>3, <4>2 DEF Check
      <4> QED
        BY <4>1, <4>2
    <3>2. small \in Nat /\ large \in Nat /\ small <= large
      BY <1>a, <2>2, <2>3
    <3> QED
      BY <1>a, <1>b, <2>1, <3>1, <3>2, RefusedStay
  <2> QED
    BY <1>b, <2>1, <2>2, <2>3 DEF BudgetInv, BudgetTypeOK, RefusalIsFinal
<1>2. ASSUME NEW tokens \in Requests, Consume(tokens) PROVE BudgetInv'
  <2>1. /\ used' \in 0 .. MaxUsed /\ used <= used'
        /\ UNCHANGED <<budgetTurns, passed, refused>>
    BY <1>2, <1>a, <1>b DEF Consume, Charged
  <2>2. ASSUME NEW small \in refused', NEW large \in Requests, large >= small
        PROVE  ~Passes(large)'
    <3>1. ~Passes(large) /\ large \in Nat
      BY <1>a, <1>b, <2>1, <2>2
    <3> QED
      BY <1>a, <1>b, <2>1, <3>1, RefusedStay
  <2> QED
    BY <1>b, <2>1, <2>2 DEF BudgetInv, BudgetTypeOK, RefusalIsFinal
<1>3. CASE UNCHANGED budgetVars
  BY <1>3 DEF budgetVars, BudgetInv, BudgetTypeOK, RefusalIsFinal, Passes, TurnLeft, BelowHardStop
<1> QED
  BY <1>1, <1>2, <1>3 DEF BudgetNext

LEMMA BudgetStart == BudgetInit => BudgetInv
BY BudgetAssumption DEF BudgetAssumption, BudgetInit, BudgetInv, BudgetTypeOK, RefusalIsFinal

\* For any limits and any order of checks and charges: a count that was refused is
\* refused for good, with every larger one, and at most MaxTurns checks pass.
THEOREM RefusedForGood == BudgetSpec => []RefusalIsFinal
<1>1. BudgetInv => RefusalIsFinal
  BY DEF BudgetInv
<1> QED
  BY <1>1, BudgetStart, BudgetStep, PTL DEF BudgetSpec

\* The tokens, turns and refused counts keep their types.
THEOREM BudgetTyped == BudgetSpec => []BudgetTypeOK
<1>1. BudgetInv => BudgetTypeOK
  BY DEF BudgetInv
<1> QED
  BY <1>1, BudgetStart, BudgetStep, PTL DEF BudgetSpec

-----------------------------------------------------------------------------
(* The step pruner. *)

\* Sequences are equal when they agree at every position.
LEMMA SameSequence ==
    ASSUME NEW s \in Seq(Calls), NEW t \in Seq(Calls), Len(s) = Len(t),
           \A i \in 1 .. Len(s) : s[i] = t[i]
    PROVE  s = t
<1>1. s = [i \in 1 .. Len(s) |-> s[i]] /\ t = [i \in 1 .. Len(s) |-> t[i]]
  OBVIOUS
<1> QED
  BY <1>1, Zenon

Smaller(n, m) == IF n < m THEN n ELSE m

\* What a slice from the end holds.
LEMMA LastOfShape ==
    ASSUME NEW s \in Seq(Calls), NEW n \in Nat
    PROVE  /\ LastOf(s, n) \in Seq(Calls)
           /\ Len(LastOf(s, n)) = Smaller(n, Len(s))
           /\ \A i \in 1 .. Smaller(n, Len(s)) : LastOf(s, n)[i] = s[Len(s) - Smaller(n, Len(s)) + i]
<1> DEFINE k == IF Len(s) > n THEN Len(s) - n + 1 ELSE 1
<1>1. Len(s) \in Nat /\ k \in 1 .. Len(s) + 1 /\ Len(s) - k + 1 = Smaller(n, Len(s))
  BY DEF Smaller
<1>2. LastOf(s, n) = SubSeq(s, k, Len(s))
  BY DEF LastOf
<1> HIDE DEF k
<1>3. /\ SubSeq(s, k, Len(s)) \in Seq(Calls)
      /\ Len(SubSeq(s, k, Len(s))) = Len(s) - k + 1
      /\ \A i \in 1 .. Len(s) - k + 1 : SubSeq(s, k, Len(s))[i] = s[k + i - 1]
  BY <1>1
<1>4. \A i \in 1 .. Smaller(n, Len(s)) : k + i - 1 = Len(s) - Smaller(n, Len(s)) + i
  BY <1>1
<1> QED
  BY <1>1, <1>2, <1>3, <1>4

\* A slice of a slice, and a slice of a longer sequence.
LEMMA LastOfLast ==
    ASSUME NEW s \in Seq(Calls), NEW n \in Nat, NEW m \in Nat, m <= n
    PROVE  LastOf(LastOf(s, n), m) = LastOf(s, m)
<1> DEFINE t == LastOf(s, n)
           l == Smaller(n, Len(s))
           k == Smaller(m, Len(s))
<1>1. /\ t \in Seq(Calls) /\ Len(t) = l
      /\ \A i \in 1 .. l : t[i] = s[Len(s) - l + i]
  BY LastOfShape
<1>2. Len(s) \in Nat /\ l \in Nat /\ k \in Nat /\ Smaller(m, l) = k /\ k <= l /\ l <= Len(s)
  BY DEF Smaller
<1>3. /\ LastOf(s, m) \in Seq(Calls) /\ Len(LastOf(s, m)) = k
      /\ \A i \in 1 .. k : LastOf(s, m)[i] = s[Len(s) - k + i]
  BY LastOfShape
<1> HIDE DEF t, l, k
<1>4. /\ LastOf(t, m) \in Seq(Calls) /\ Len(LastOf(t, m)) = k
      /\ \A i \in 1 .. k : LastOf(t, m)[i] = t[l - k + i]
  BY <1>1, <1>2, LastOfShape
<1>5. \A i \in 1 .. k : LastOf(t, m)[i] = LastOf(s, m)[i]
  <2> TAKE i \in 1 .. k
  <2>1. l - k + i \in 1 .. l /\ Len(s) - l + (l - k + i) = Len(s) - k + i
    BY <1>2
  <2> QED
    BY <1>1, <1>3, <1>4, <2>1
<1>6. LastOf(t, m) = LastOf(s, m)
  BY <1>3, <1>4, <1>5, SameSequence
<1> QED
  BY <1>6 DEF t

LEMMA LastOfAppend ==
    ASSUME NEW s \in Seq(Calls), NEW x \in Calls, NEW n \in Nat \ {0}
    PROVE  LastOf(Append(s, x), n) = Append(LastOf(s, n - 1), x)
<1> DEFINE long == Append(s, x)
           k == Smaller(n - 1, Len(s))
           u == LastOf(s, n - 1)
<1>1. /\ long \in Seq(Calls) /\ Len(long) = Len(s) + 1 /\ long[Len(s) + 1] = x
      /\ \A i \in 1 .. Len(s) : long[i] = s[i]
  OBVIOUS
<1>2. Len(s) \in Nat /\ k \in Nat /\ k <= Len(s) /\ Smaller(n, Len(s) + 1) = k + 1
  BY DEF Smaller
<1>3. /\ u \in Seq(Calls) /\ Len(u) = k
      /\ \A i \in 1 .. k : u[i] = s[Len(s) - k + i]
  <2>1. n - 1 \in Nat
    OBVIOUS
  <2> QED
    BY <2>1, LastOfShape
<1> HIDE DEF long, k, u
<1>4. /\ LastOf(long, n) \in Seq(Calls) /\ Len(LastOf(long, n)) = k + 1
      /\ \A i \in 1 .. k + 1 : LastOf(long, n)[i] = long[Len(s) + 1 - (k + 1) + i]
  <2>1. n \in Nat
    OBVIOUS
  <2> DEFINE l == Len(long)
             m == Smaller(n, l)
             last == LastOf(long, n)
  <2>2. /\ last \in Seq(Calls) /\ Len(last) = m
        /\ \A i \in 1 .. m : last[i] = long[l - m + i]
    BY <1>1, <2>1, LastOfShape
  <2>3. l = Len(s) + 1 /\ m = k + 1
    BY <1>1, <1>2
  <2> HIDE DEF l, m, last
  <2>4. /\ last \in Seq(Calls) /\ Len(last) = k + 1
        /\ \A i \in 1 .. k + 1 : last[i] = long[Len(s) + 1 - (k + 1) + i]
    BY <2>2, <2>3
  <2> QED
    BY <2>4 DEF last
<1>5. /\ Append(u, x) \in Seq(Calls) /\ Len(Append(u, x)) = k + 1
      /\ Append(u, x)[k + 1] = x
      /\ \A i \in 1 .. k : Append(u, x)[i] = u[i]
  BY <1>3
<1>6. \A i \in 1 .. k + 1 : LastOf(long, n)[i] = Append(u, x)[i]
  <2> TAKE i \in 1 .. k + 1
  <2>1. CASE i = k + 1
    <3>1. Len(s) + 1 - (k + 1) + i = Len(s) + 1
      BY <1>2, <2>1
    <3> QED
      BY <1>1, <1>4, <1>5, <2>1, <3>1
  <2>2. CASE i # k + 1
    <3>1. /\ i \in 1 .. k
          /\ Len(s) + 1 - (k + 1) + i = Len(s) - k + i
          /\ Len(s) - k + i \in 1 .. Len(s)
      BY <1>2, <2>2
    <3>2. /\ LastOf(long, n)[i] = long[Len(s) - k + i]
          /\ long[Len(s) - k + i] = s[Len(s) - k + i]
      BY <1>1, <1>4, <3>1
    <3>3. Append(u, x)[i] = s[Len(s) - k + i]
      BY <1>3, <1>5, <3>1
    <3> QED
      BY <3>2, <3>3
  <2> QED
    BY <2>1, <2>2
<1>7. LastOf(long, n) = Append(u, x)
  BY <1>4, <1>5, <1>6, SameSequence
<1> QED
  BY <1>7 DEF long, u

\* Where a call occurs.
Places(s, c) == {i \in DOMAIN s : s[i] = c}

LEMMA PlacesFinite ==
    ASSUME NEW s \in Seq(Calls), NEW c
    PROVE  IsFiniteSet(Places(s, c)) /\ Count(s, c) = Cardinality(Places(s, c)) /\ Count(s, c) \in Nat
<1>1. Places(s, c) \subseteq 1 .. Len(s) /\ Len(s) \in Nat
  BY DEF Places
<1>2. IsFiniteSet(Places(s, c))
  <2>1. IsFiniteSet(1 .. Len(s))
    BY <1>1, FS_Interval
  <2> QED
    BY <1>1, <2>1, FS_Subset
<1>3. Count(s, c) = Cardinality(Places(s, c))
  BY DEF Count, Places
<1> QED
  BY <1>2, <1>3, FS_CardinalityType

\* One more call counts once, and a slice holds no call more often.
LEMMA CountAppend ==
    ASSUME NEW s \in Seq(Calls), NEW x \in Calls, NEW c
    PROVE  Count(Append(s, x), c) = Count(s, c) + (IF x = c THEN 1 ELSE 0)
<1> DEFINE long == Append(s, x)
<1>1. /\ long \in Seq(Calls) /\ Len(long) = Len(s) + 1 /\ long[Len(s) + 1] = x
      /\ \A i \in 1 .. Len(s) : long[i] = s[i]
      /\ Len(s) \in Nat
  OBVIOUS
<1>2. DOMAIN s = 1 .. Len(s) /\ DOMAIN long = 1 .. Len(s) + 1
  BY <1>1
<1> HIDE DEF long
<1>3. CASE x = c
  <2>1. Places(long, c) = Places(s, c) \cup {Len(s) + 1} /\ Len(s) + 1 \notin Places(s, c)
    BY <1>1, <1>2, <1>3 DEF Places
  <2>2. Count(long, c) = Cardinality(Places(long, c)) /\ Count(s, c) = Cardinality(Places(s, c))
    BY <1>1, PlacesFinite
  <2>3. Cardinality(Places(s, c) \cup {Len(s) + 1}) = Cardinality(Places(s, c)) + 1
    BY <2>1, PlacesFinite, FS_AddElement
  <2> QED
    BY <1>3, <2>1, <2>2, <2>3 DEF long
<1>4. CASE x # c
  <2>1. Places(long, c) = Places(s, c)
    BY <1>1, <1>2, <1>4 DEF Places
  <2>2. Count(long, c) = Cardinality(Places(long, c)) /\ Count(s, c) = Cardinality(Places(s, c))
    BY <1>1, PlacesFinite
  <2>3. Count(s, c) \in Nat
    BY PlacesFinite
  <2> QED
    BY <1>4, <2>1, <2>2, <2>3 DEF long
<1> QED
  BY <1>3, <1>4

LEMMA CountLastOf ==
    ASSUME NEW s \in Seq(Calls), NEW n \in Nat, NEW c
    PROVE  Count(LastOf(s, n), c) <= Count(s, c)
<1> DEFINE t == LastOf(s, n)
           k == Smaller(n, Len(s))
           f == [i \in Places(t, c) |-> Len(s) - k + i]
<1>1. /\ t \in Seq(Calls) /\ Len(t) = k /\ \A i \in 1 .. k : t[i] = s[Len(s) - k + i]
  BY LastOfShape
<1>2. Len(s) \in Nat /\ k \in Nat /\ k <= Len(s)
  BY DEF Smaller
<1>3. DOMAIN s = 1 .. Len(s) /\ DOMAIN t = 1 .. k
  BY <1>1
<1> HIDE DEF t, k
<1>4. \A i \in Places(t, c) : i \in 1 .. k /\ Len(s) - k + i \in Places(s, c)
  BY <1>1, <1>2, <1>3 DEF Places
<1>5. f \in Injection(Places(t, c), Places(s, c))
  BY <1>2, <1>4 DEF Injection, IsInjective
<1>6. Cardinality(Places(t, c)) <= Cardinality(Places(s, c))
  <2> HIDE DEF f
  <2> QED
    BY <1>5, FS_Injection, PlacesFinite
<1> QED
  BY <1>1, <1>6, PlacesFinite DEF t

\* Three calls do not occur so often in so short a sequence.
LEMMA NoThreeBlocked ==
    ASSUME NEW s \in Seq(Calls), Len(s) <= Window,
           NEW a, NEW b, NEW c, a # b, a # c, b # c,
           Count(s, a) >= MaxRepeats, Count(s, b) >= MaxRepeats, Count(s, c) >= MaxRepeats
    PROVE  FALSE
<1> DEFINE A == Places(s, a)
           B == Places(s, b)
           C == Places(s, c)
<1>1. Len(s) \in Nat /\ DOMAIN s = 1 .. Len(s) /\ MaxRepeats \in Nat \ {0}
  BY PrunerAssumption
<1>2. /\ IsFiniteSet(A) /\ IsFiniteSet(B) /\ IsFiniteSet(C)
      /\ Cardinality(A) >= MaxRepeats /\ Cardinality(B) >= MaxRepeats /\ Cardinality(C) >= MaxRepeats
      /\ Cardinality(A) \in Nat /\ Cardinality(B) \in Nat /\ Cardinality(C) \in Nat
  BY PlacesFinite
<1>3. A \cap B = {} /\ (A \cup B) \cap C = {} /\ (A \cup B) \cup C \subseteq 1 .. Len(s)
  BY <1>1 DEF Places
<1> HIDE DEF A, B, C
<1>4. IsFiniteSet(A \cup B) /\ Cardinality(A \cup B) = Cardinality(A) + Cardinality(B)
  <2>1. /\ IsFiniteSet(A \cup B)
        /\ Cardinality(A \cup B) = Cardinality(A) + Cardinality(B) - Cardinality(A \cap B)
    BY <1>2, FS_Union
  <2>2. Cardinality(A \cap B) = 0
    BY <1>3, FS_EmptySet
  <2> QED
    BY <1>2, <2>1, <2>2
<1>5. Cardinality((A \cup B) \cup C) = Cardinality(A \cup B) + Cardinality(C)
  <2>1. Cardinality((A \cup B) \cup C)
          = Cardinality(A \cup B) + Cardinality(C) - Cardinality((A \cup B) \cap C)
    BY <1>2, <1>4, FS_Union
  <2>2. Cardinality((A \cup B) \cap C) = 0
    BY <1>3, FS_EmptySet
  <2> QED
    BY <1>2, <1>4, <2>1, <2>2
<1>6. IsFiniteSet(1 .. Len(s)) /\ Cardinality(1 .. Len(s)) = Len(s)
  <2> DEFINE l == Len(s)
  <2>1. l \in Nat /\ 1 \in Int
    BY <1>1
  <2> HIDE DEF l
  <2>2. /\ IsFiniteSet(1 .. l)
        /\ Cardinality(1 .. l) = IF 1 > l THEN 0 ELSE l - 1 + 1
    BY <2>1, FS_Interval
  <2>3. (IF 1 > l THEN 0 ELSE l - 1 + 1) = l
    BY <2>1
  <2> QED
    BY <2>2, <2>3 DEF l
<1>7. Cardinality((A \cup B) \cup C) <= Len(s)
  BY <1>3, <1>6, FS_Subset
<1> QED
  BY <1>1, <1>2, <1>4, <1>5, <1>7 DEF Window

\* A set without three different elements has at most two.
LEMMA AtMostTwo ==
    ASSUME NEW S, \A a, b, c \in S : a = b \/ a = c \/ b = c
    PROVE  Cardinality(S) <= 2
<1>1. CASE S = {}
  BY <1>1, FS_EmptySet
<1>2. CASE S # {}
  <2>1. PICK a \in S : TRUE
    BY <1>2
  <2>2. IsFiniteSet({a}) /\ Cardinality({a}) = 1
    BY FS_Singleton
  <2>3. CASE S = {a}
    BY <2>2, <2>3
  <2>4. CASE S # {a}
    <3>1. PICK b \in S : b # a
      BY <2>1, <2>4
    <3>2. S = {a} \cup {b} /\ b \notin {a}
      BY <2>1, <3>1
    <3>3. Cardinality({a} \cup {b}) = Cardinality({a}) + 1
      BY <2>2, <3>2, FS_AddElement
    <3> QED
      BY <2>2, <3>2, <3>3
  <2> QED
    BY <2>3, <2>4
<1> QED
  BY <1>1, <1>2

\* The history of the pruner ends as the calls let through do, so that a call is
\* judged by what was let through last.
PrunerInv ==
    /\ PrunerTypeOK
    /\ Recent = LastOf(letThrough, Window)
    /\ \A asked \in Calls : Count(letThrough, asked) <= MaxRepeats

LEMMA PrunerNumbers ==
    /\ MaxRepeats \in Nat \ {0} /\ Window \in Nat \ {0}
    /\ MaxCallHistory \in Nat /\ Window <= MaxCallHistory
    /\ Window + 1 \in Nat \ {0}
BY PrunerAssumption DEF Window

\* A call let through is one more in the window that found room for it.
LEMMA ExecuteKeeps ==
    ASSUME PrunerInv, NEW asked \in Calls, Execute(asked)
    PROVE  PrunerInv'
<1> USE PrunerNumbers
<1>1. /\ callHistory \in Seq(Calls) /\ letThrough \in Seq(Calls) /\ uniqueCalls \subseteq Calls
      /\ Recent = LastOf(letThrough, Window) /\ Recent = LastOf(callHistory, Window)
      /\ \A c \in Calls : Count(letThrough, c) <= MaxRepeats
  BY DEF PrunerInv, PrunerTypeOK, Recent
<1>2. /\ callHistory' = LastOf(Append(callHistory, asked), MaxCallHistory)
      /\ letThrough' = LastOf(Append(letThrough, asked), Window + 1)
      /\ uniqueCalls' = uniqueCalls \cup {asked}
      /\ Append(callHistory, asked) \in Seq(Calls)
      /\ Append(letThrough, asked) \in Seq(Calls)
  BY <1>1 DEF Execute, Push
<1>3. PrunerTypeOK'
  <2>1. /\ callHistory' \in Seq(Calls)
        /\ Len(callHistory') = Smaller(MaxCallHistory, Len(Append(callHistory, asked)))
    BY <1>2, LastOfShape
  <2>2. /\ letThrough' \in Seq(Calls)
        /\ Len(letThrough') = Smaller(Window + 1, Len(Append(letThrough, asked)))
    BY <1>2, LastOfShape
  <2>3. Len(Append(callHistory, asked)) \in Nat /\ Len(Append(letThrough, asked)) \in Nat
    BY <1>2
  <2> QED
    BY <1>1, <1>2, <2>1, <2>2, <2>3 DEF PrunerTypeOK, Smaller
<1>4. letThrough' = Append(Recent, asked)
  <2>1. LastOf(Append(letThrough, asked), Window + 1) = Append(LastOf(letThrough, (Window + 1) - 1), asked)
    BY <1>1, LastOfAppend
  <2>2. (Window + 1) - 1 = Window
    OBVIOUS
  <2> QED
    BY <1>1, <1>2, <2>1, <2>2
<1>5. Recent' = LastOf(letThrough', Window)
  <2>1. Recent' = LastOf(Append(callHistory, asked), Window)
    BY <1>2, LastOfLast DEF Recent
  <2>2. LastOf(letThrough', Window) = LastOf(Append(letThrough, asked), Window)
    <3>1. Window <= Window + 1 /\ Window + 1 \in Nat
      OBVIOUS
    <3> QED
      BY <1>2, <3>1, LastOfLast
  <2>3. Window - 1 \in Nat /\ Window - 1 <= Window
    OBVIOUS
  <2>4. LastOf(callHistory, Window - 1) = LastOf(Recent, Window - 1)
    BY <1>1, <2>3, LastOfLast
  <2>5. LastOf(letThrough, Window - 1) = LastOf(Recent, Window - 1)
    <3>1. LastOf(LastOf(letThrough, Window), Window - 1) = LastOf(letThrough, Window - 1)
      BY <1>1, <2>3, LastOfLast
    <3> QED
      BY <1>1, <3>1
  <2>6. LastOf(Append(callHistory, asked), Window) = Append(LastOf(callHistory, Window - 1), asked)
    BY <1>1, LastOfAppend
  <2>7. LastOf(Append(letThrough, asked), Window) = Append(LastOf(letThrough, Window - 1), asked)
    BY <1>1, LastOfAppend
  <2> QED
    BY <2>1, <2>2, <2>4, <2>5, <2>6, <2>7
<1>6. ASSUME NEW c \in Calls PROVE Count(letThrough', c) <= MaxRepeats
  <2>1. Recent \in Seq(Calls)
    BY <1>1, LastOfShape
  <2>2. Count(Recent, c) \in Nat /\ Count(letThrough, c) \in Nat /\ Count(Recent, asked) \in Nat
    BY <1>1, <2>1, PlacesFinite
  <2>3. Count(Recent, c) <= Count(letThrough, c) /\ Count(letThrough, c) <= MaxRepeats
    BY <1>1, CountLastOf
  <2>4. Count(Recent, asked) < MaxRepeats
    BY <2>2 DEF Execute, Blocked
  <2>5. Count(letThrough', c) = Count(Recent, c) + (IF asked = c THEN 1 ELSE 0)
    BY <1>4, <2>1, CountAppend
  <2>6. CASE asked = c
    BY <2>2, <2>4, <2>5, <2>6
  <2>7. CASE asked # c
    BY <2>2, <2>3, <2>5, <2>7
  <2> QED
    BY <2>6, <2>7
<1> QED
  BY <1>3, <1>5, <1>6 DEF PrunerInv

LEMMA EmptyPruner ==
    ASSUME callHistory = << >>, uniqueCalls = {}, letThrough = << >>
    PROVE  PrunerInv
<1>1. << >> \in Seq(Calls) /\ Len(<< >>) = 0
  OBVIOUS
<1>2. \A c : Count(<< >>, c) = 0
  <2> TAKE c
  <2>1. {i \in DOMAIN << >> : << >>[i] = c} = {}
    OBVIOUS
  <2> QED
    BY <2>1, FS_EmptySet DEF Count
<1> QED
  BY <1>1, <1>2, PrunerNumbers DEF PrunerInv, PrunerTypeOK, Recent

LEMMA PrunerStep == PrunerInv /\ [PrunerNext]_prunerVars => PrunerInv'
<1> SUFFICES ASSUME PrunerInv, [PrunerNext]_prunerVars PROVE PrunerInv'
  OBVIOUS
<1>1. ASSUME NEW asked \in Calls, Execute(asked) PROVE PrunerInv'
  BY <1>1, ExecuteKeeps
<1>2. ASSUME UNCHANGED prunerVars PROVE PrunerInv'
  BY <1>2 DEF prunerVars, PrunerInv, PrunerTypeOK, Recent
<1>3. CASE Reset
  <2>1. << >> \in Seq(Calls) /\ Len(<< >>) = 0
    OBVIOUS
  <2>2. \A c : Count(<< >>, c) = 0
    <3> TAKE c
    <3>1. {i \in DOMAIN << >> : << >>[i] = c} = {}
      OBVIOUS
    <3> QED
      BY <3>1, FS_EmptySet DEF Count
  <2> QED
    BY <1>3, <2>1, <2>2, PrunerNumbers DEF Reset, PrunerInv, PrunerTypeOK, Recent
<1> QED
  BY <1>1, <1>2, <1>3 DEF PrunerNext, Block

\* Of the calls let through in a row none comes too often, although the history is
\* cut, and no more than two calls are refused at a time.
THEOREM RepeatsAreBounded == PrunerSpec => []RepeatsBounded
<1>1. PrunerInit => PrunerInv
  BY EmptyPruner DEF PrunerInit
<1>2. PrunerInv => RepeatsBounded
  <2> SUFFICES ASSUME PrunerInv PROVE RepeatsBounded
    OBVIOUS
  <2>1. Recent \in Seq(Calls) /\ Len(Recent) <= Window
    <3>1. callHistory \in Seq(Calls)
      BY DEF PrunerInv, PrunerTypeOK
    <3>2. Recent \in Seq(Calls) /\ Len(Recent) = Smaller(Window, Len(callHistory))
      BY <3>1, PrunerNumbers, LastOfShape DEF Recent
    <3> QED
      BY <3>1, <3>2, PrunerNumbers DEF Smaller
  <2> DEFINE S == {asked \in Calls : Blocked(asked)}
  <2>2. \A a, b, c \in S : a = b \/ a = c \/ b = c
    BY <2>1, NoThreeBlocked DEF Blocked
  <2>3. Cardinality(S) <= 2
    <3> HIDE DEF S
    <3> QED
      BY <2>2, AtMostTwo
  <2> QED
    BY <2>3 DEF PrunerInv, RepeatsBounded
<1> QED
  BY <1>1, <1>2, PrunerStep, PTL DEF PrunerSpec

\* The histories keep their types and lengths.
THEOREM PrunerTyped == PrunerSpec => []PrunerTypeOK
<1>1. PrunerInit => PrunerInv
  BY EmptyPruner DEF PrunerInit
<1>2. PrunerInv => PrunerTypeOK
  BY DEF PrunerInv
<1> QED
  BY <1>1, <1>2, PrunerStep, PTL DEF PrunerSpec

-----------------------------------------------------------------------------
(* The types of the files and of the memory. *)

\* The texts tools write: short ones, and one mark more.
LEMMA TextsClosed ==
    /\ << >> \in Texts
    /\ \A m \in Marks : <<m>> \in Texts
    /\ \A text \in Texts, m \in Marks :
         /\ Len(text) \in Nat
         /\ Len(text) < MaxLength => Append(text, m) \in Texts
<1>1. MaxLength \in Nat \ {0}
  BY FilesAssumption
<1>2. \A n \in 0 .. MaxLength : [1 .. n -> Marks] \subseteq Texts
  BY DEF Texts
<1>3. << >> \in Texts
  <2>1. << >> \in [1 .. 0 -> Marks] /\ 0 \in 0 .. MaxLength
    BY <1>1
  <2> QED
    BY <1>2, <2>1
<1>4. ASSUME NEW m \in Marks PROVE <<m>> \in Texts
  <2>1. <<m>> \in [1 .. 1 -> Marks] /\ 1 \in 0 .. MaxLength
    BY <1>1
  <2> QED
    BY <1>2, <2>1
<1>5. ASSUME NEW text \in Texts, NEW m \in Marks
      PROVE  /\ Len(text) \in Nat
             /\ Len(text) < MaxLength => Append(text, m) \in Texts
  <2>1. PICK n \in 0 .. MaxLength : text \in [1 .. n -> Marks]
    BY DEF Texts
  <2>2. n \in Nat /\ text \in Seq(Marks) /\ Len(text) = n
    BY <1>1, <2>1
  <2>3. Append(text, m) \in [1 .. n + 1 -> Marks]
    <3> DEFINE longer == Append(text, m)
    <3>1. longer \in Seq(Marks) /\ Len(longer) = n + 1
      BY <2>2
    <3> HIDE DEF longer
    <3>2. longer \in [1 .. n + 1 -> Marks]
      BY <2>2, <3>1
    <3> QED
      BY <3>2 DEF longer
  <2>4. n < MaxLength => n + 1 \in 0 .. MaxLength
    BY <1>1, <2>2
  <2> QED
    BY <1>2, <2>2, <2>3, <2>4
<1> QED
  BY <1>3, <1>4, <1>5

\* Replacing a mark keeps a text a text.
LEMMA EditedText ==
    ASSUME NEW text \in Texts, NEW old, NEW new \in Marks
    PROVE  [i \in DOMAIN text |-> IF text[i] = old THEN new ELSE text[i]] \in Texts
<1>1. PICK n \in 0 .. MaxLength : text \in [1 .. n -> Marks]
  BY DEF Texts
<1>2. [i \in DOMAIN text |-> IF text[i] = old THEN new ELSE text[i]] \in [1 .. n -> Marks]
  BY <1>1
<1> QED
  BY <1>1, <1>2 DEF Texts

\* What a call in flight carries.
LEMMA CallCarries ==
    ASSUME FilesTypeOK
    PROVE  /\ call.stage = "read" =>
                call.path \in Paths /\ call.text \in Texts /\ call.sequel \in Edit
           /\ call.stage = "opened" =>
                call.path \in Paths /\ call.text \in Texts /\ call.sequel \in Sequels
           /\ call.stage = "copied" => call.from \in Paths
BY DEF FilesTypeOK, CallStates, NoCall

\* The types of all but the log of edits.
FilesRest ==
    /\ files \in [Paths -> Texts \cup {Absent}]
    /\ call \in CallStates
    /\ torn \subseteq Paths
    /\ told \subseteq Paths

LEMMA OpenTyped ==
    ASSUME FilesTypeOK, NEW p \in Paths, NEW text \in Texts, NEW sequel \in Sequels,
           Open(p, text, sequel)
    PROVE  FilesRest'
<1>1. files' \in [Paths -> Texts \cup {Absent}]
  BY TextsClosed DEF Open, FilesTypeOK
<1>2. call' \in CallStates
  BY DEF Open, CallStates
<1> QED
  BY <1>1, <1>2 DEF Open, FilesTypeOK, FilesRest

LEMMA PutTyped ==
    ASSUME FilesTypeOK, NEW p \in Paths, NEW text \in Texts \cup {Absent}, Put(p, text)
    PROVE  files' \in [Paths -> Texts \cup {Absent}] /\ torn' \subseteq Paths
BY DEF Put, FilesTypeOK

\* The log grows by an edit within its bound, is cleared, or stays.
LEMMA LogTyped ==
    ASSUME FilesTypeOK, [FilesNext]_filesVars
    PROVE  editHistory' \in Seq(Edit) /\ Len(editHistory') <= MaxHistory
<1>1. editHistory \in Seq(Edit) /\ Len(editHistory) <= MaxHistory /\ MaxHistory \in Nat
  BY FilesAssumption DEF FilesTypeOK
<1>2. CASE UNCHANGED editHistory
  BY <1>1, <1>2
<1>3. CASE WriteEnds
  <2>1. CASE /\ call.sequel \in Edit /\ Len(editHistory) < MaxHistory
             /\ editHistory' = Append(editHistory, call.sequel)
    BY <1>1, <2>1
  <2> QED
    BY <1>2, <1>3, <2>1 DEF WriteEnds
<1>4. CASE ClearHistory
  BY <1>1, <1>4 DEF ClearHistory
<1> QED
  BY <1>2, <1>3, <1>4 DEF FilesNext, filesVars, WriteFile, EditFile, EditOpens, WriteFails,
     EditOpenFails, AppendFile, Save, CopyFile, MoveFile, RenameFile, MoveAcross, MoveUnlinks,
     MoveKeepsSource, DeleteFile

\* No tool call leaves the types.
LEMMA FilesStep == FilesTypeOK /\ [FilesNext]_filesVars => FilesTypeOK'
<1> SUFFICES ASSUME FilesTypeOK, [FilesNext]_filesVars PROVE FilesRest'
  BY LogTyped DEF FilesTypeOK, FilesRest
<1>a. /\ files \in [Paths -> Texts \cup {Absent}] /\ call \in CallStates
      /\ torn \subseteq Paths /\ told \subseteq Paths
  BY DEF FilesTypeOK
<1>b. Edit \subseteq Sequels /\ NoCall \in Sequels /\ \A p \in Paths : [from |-> p] \in Sequels
  BY DEF Sequels
<1>c. NoCall \in CallStates
  BY DEF CallStates
<1>1. ASSUME NEW p \in Paths, NEW text \in Texts, WriteFile(p, text) PROVE FilesRest'
  BY <1>1, <1>b, OpenTyped DEF WriteFile
<1>2. ASSUME NEW e \in Edit, EditFile(e) PROVE FilesRest'
  <2>1. e.path \in Paths /\ e.new \in Marks
    BY DEF Edit
  <2>2. files[e.path] \in Texts
    BY <1>2, <1>a, <2>1 DEF EditFile
  <2> DEFINE text == [i \in DOMAIN files[e.path] |->
                        IF files[e.path][i] = e.old THEN e.new ELSE files[e.path][i]]
  <2>3. text \in Texts
    BY <2>1, <2>2, EditedText
  <2>4. call' = [stage |-> "read", path |-> e.path, sequel |-> e, text |-> text]
    BY <1>2 DEF EditFile
  <2> HIDE DEF text
  <2>5. call' \in CallStates
    BY <2>1, <2>3, <2>4 DEF CallStates
  <2> QED
    BY <1>2, <1>a, <2>5 DEF EditFile, FilesRest
<1>3. CASE EditOpens
  <2>1. call.path \in Paths /\ call.text \in Texts /\ call.sequel \in Sequels
    BY <1>3, <1>b, CallCarries DEF EditOpens
  <2> QED
    BY <1>3, <2>1, OpenTyped DEF EditOpens
<1>4. CASE WriteEnds
  <2>1. call.path \in Paths /\ call.text \in Texts
    BY <1>4, CallCarries DEF WriteEnds
  <2>2. files[call.path] \in Texts \cup {Absent}
    BY <1>a, <2>1
  <2>3. files' \in [Paths -> Texts \cup {Absent}] /\ torn' \subseteq Paths
    BY <1>4, <2>1, <2>2, PutTyped DEF WriteEnds
  <2>4. call' \in CallStates
    <3>1. CASE call.sequel \in [from : Paths]
      <4>1. call.sequel.from \in Paths /\ call' = [stage |-> "copied", from |-> call.sequel.from]
        BY <1>4, <3>1 DEF WriteEnds
      <4> QED
        BY <4>1 DEF CallStates
    <3>2. CASE call.sequel \notin [from : Paths]
      BY <1>4, <1>c, <3>2 DEF WriteEnds
    <3> QED
      BY <3>1, <3>2
  <2> QED
    BY <1>4, <1>a, <2>3, <2>4 DEF WriteEnds, FilesRest
<1>5. CASE WriteFails
  <2>1. call.path \in Paths /\ call.text \in Texts
    BY <1>5, CallCarries DEF WriteFails
  <2>2. files' \in [Paths -> Texts \cup {Absent}] /\ torn' \subseteq Paths
    BY <1>5, <1>a, <2>1, PutTyped DEF WriteFails
  <2>3. call' \in CallStates /\ told' \subseteq Paths
    BY <1>5, <1>a, <1>c, <2>1 DEF WriteFails, Told
  <2> QED
    BY <2>2, <2>3 DEF FilesRest
<1>6. CASE EditOpenFails
  BY <1>6, <1>a, <1>c DEF EditOpenFails, FilesRest
<1>7. ASSUME NEW p \in Paths, NEW mark \in Marks, AppendFile(p, mark) PROVE FilesRest'
  <2> DEFINE text == IF files[p] = Absent THEN << >> ELSE files[p]
  <2>1. text \in Texts
    BY <1>a, TextsClosed
  <2>2. Len(text) < MaxLength => Append(text, mark) \in Texts
    BY <2>1, TextsClosed
  <2>3. \/ Len(text) < MaxLength /\ Put(p, Append(text, mark))
        \/ files' = [files EXCEPT ![p] = text] /\ torn' = torn
    BY <1>7 DEF AppendFile
  <2> HIDE DEF text
  <2>4. files' \in [Paths -> Texts \cup {Absent}] /\ torn' \subseteq Paths
    BY <1>a, <2>1, <2>2, <2>3, PutTyped
  <2> QED
    BY <1>7, <1>a, <2>4 DEF AppendFile, FilesRest
<1>8. ASSUME NEW p \in Paths, NEW mark \in Marks, Save(p, mark) PROVE FilesRest'
  <2>1. <<mark>> \in Texts
    BY TextsClosed
  <2> QED
    BY <1>8, <1>a, <2>1, PutTyped DEF Save, FilesRest
<1>9. ASSUME NEW src \in Paths, NEW dst \in Paths, CopyFile(src, dst) PROVE FilesRest'
  <2>1. files[src] \in Texts
    BY <1>9, <1>a DEF CopyFile
  <2> QED
    BY <1>9, <1>b, <2>1, OpenTyped DEF CopyFile
<1>10. ASSUME NEW src \in Paths, NEW dst \in Paths, MoveFile(src, dst) PROVE FilesRest'
  <2>1. CASE RenameFile(src, dst)
    BY <2>1, <1>a DEF RenameFile, FilesRest
  <2>2. CASE MoveAcross(src, dst)
    <3>1. files[src] \in Texts
      BY <2>2, <1>a DEF MoveAcross
    <3> QED
      BY <2>2, <1>b, <3>1, OpenTyped DEF MoveAcross
  <2> QED
    BY <1>10, <2>1, <2>2 DEF MoveFile
<1>11. CASE MoveUnlinks
  <2>1. call.from \in Paths
    BY <1>11, CallCarries DEF MoveUnlinks
  <2> QED
    BY <1>11, <1>a, <1>c, <2>1, PutTyped DEF MoveUnlinks, FilesRest
<1>12. CASE MoveKeepsSource
  BY <1>12, <1>a, <1>c DEF MoveKeepsSource, FilesRest
<1>13. ASSUME NEW p \in Paths, DeleteFile(p) PROVE FilesRest'
  BY <1>13, <1>a, PutTyped DEF DeleteFile, FilesRest
<1>14. CASE ClearHistory
  BY <1>14, <1>a DEF ClearHistory, FilesRest
<1>15. CASE UNCHANGED filesVars
  BY <1>15, <1>a DEF filesVars, FilesRest
<1>16. CASE FilesNext
  BY <1>1, <1>2, <1>3, <1>4, <1>5, <1>6, <1>7, <1>8, <1>9, <1>10, <1>11, <1>12, <1>13,
     <1>14, <1>16 DEF FilesNext
<1> QED
  BY <1>15, <1>16

\* Files hold texts or nothing, and what is in flight carries what it will write.
THEOREM FilesTyped == FilesSpec => []FilesTypeOK
<1>1. FilesInit => FilesTypeOK
  BY TextsClosed, FilesAssumption DEF FilesInit, FilesTypeOK, CallStates
<1> QED
  BY <1>1, FilesStep, PTL DEF FilesSpec

MemoryInv == MemoryTypeOK /\ ForgetInv

\* The writer is connected, and tables stay tables.
LEMMA MemoryStep == MemoryInv /\ [MemoryNext]_memoryVars => MemoryInv'
<1> SUFFICES ASSUME MemoryInv, [MemoryNext]_memoryVars PROVE MemoryTypeOK'
  BY ForgetStep DEF MemoryInv
<1>a. rows' \in Table /\ working' \in Table /\ deleting' \subseteq Memories /\ forgotten' \subseteq Memories
  BY ForgetStep DEF MemoryInv, ForgetInv
<1>b. connected \subseteq Connections /\ writer \in connected \cup {NoConnection}
  BY DEF MemoryInv, MemoryTypeOK
<1> SUFFICES connected' \subseteq Connections /\ writer' \in connected' \cup {NoConnection}
  BY <1>a DEF MemoryTypeOK
<1>1. ASSUME NEW c \in Connections, Connect(c) \/ Disconnect(c) \/ Remember(c) \/ Commit(c)
      PROVE  connected' \subseteq Connections /\ writer' \in connected' \cup {NoConnection}
  BY <1>1, <1>b DEF Connect, Disconnect, Remember, Commit, memoryVars
<1>2. ASSUME NEW c \in Connections, NEW table, NEW marked, Begin(c, table, marked)
      PROVE  connected' \subseteq Connections /\ writer' \in connected' \cup {NoConnection}
  BY <1>2, <1>b DEF Begin
<1>3. ASSUME NEW c \in Connections, Cleanup(c) \/ \E m \in Memories : Forget(c, m)
      PROVE  connected' \subseteq Connections /\ writer' \in connected' \cup {NoConnection}
  BY <1>2, <1>3 DEF Cleanup, Forget
<1>4. CASE Day \/ UNCHANGED memoryVars
  BY <1>4, <1>b DEF Day, memoryVars
<1> QED
  BY <1>1, <1>3, <1>4 DEF MemoryNext

\* One connection writes at a time, and it is an open one.
THEOREM MemoryTyped == MemorySpec => []MemoryTypeOK
<1>1. MemoryInit => MemoryInv
  BY DEF MemoryInit, MemoryInv, MemoryTypeOK, ForgetInv, Table
<1>2. MemoryInv => MemoryTypeOK
  BY DEF MemoryInv
<1> QED
  BY <1>1, <1>2, MemoryStep, PTL DEF MemorySpec

-----------------------------------------------------------------------------
(* The four together. *)

\* A behaviour of the toolkit is one of each component, which takes its own steps
\* or rests.
THEOREM ToolkitImplementsParts ==
    ToolkitSpec => FilesSpec /\ BudgetSpec /\ PrunerSpec /\ MemorySpec
<1>1. ToolkitInit => FilesInit /\ BudgetInit /\ PrunerInit /\ MemoryInit
  BY DEF ToolkitInit
<1>2. [ToolkitNext]_<<part, filesVars, budgetVars, prunerVars, memoryVars>> =>
        [FilesNext]_filesVars /\ [BudgetNext]_budgetVars
          /\ [PrunerNext]_prunerVars /\ [MemoryNext]_memoryVars
  BY Zenon DEF ToolkitNext
<1> QED
  BY <1>1, <1>2, PTL DEF ToolkitSpec, FilesSpec, BudgetSpec, PrunerSpec, MemorySpec

\* So what is proved of a component holds where they are checked together.
THEOREM ToolkitSafe ==
    ToolkitSpec => [](EmptiedIsTold /\ RefusalIsFinal /\ RepeatsBounded /\ ForgetIsDurable)
BY ToolkitImplementsParts, EmptyingReported, RefusedForGood, RepeatsAreBounded, ForgottenForGood, PTL

\* The types of all four, along any behaviour of one of them.
THEOREM ToolkitTyped == ToolkitSpec => []ToolkitTypeOK
BY ToolkitImplementsParts, FilesTyped, BudgetTyped, PrunerTyped, MemoryTyped, PTL DEF ToolkitTypeOK
=============================================================================
