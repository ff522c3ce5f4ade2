---------------------------- MODULE AdaptersProofs ----------------------------
(***************************************************************************)
(* The life of the adapters' HTTP clients, for any tasks, adapters, names  *)
(* and roles: which client an adapter holds on to, and how many it loses.  *)
(*                                                                         *)
(* A client is alive until its close has ended: while it is open, and      *)
(* while a task is suspended in its aclose.                                *)
(***************************************************************************)
EXTENDS Adapters, Inductions

ClosingShape ==
    [at : {"closing"}, adapter : Adapters, client : Nat, position : Nat, size : Nat,
     due : SUBSET (Adapters \X Nat), quiet : BOOLEAN]

JobShape ==
    {Idle} \cup [at : {"sending", "stream"}, adapter : Adapters, client : Nat] \cup ClosingShape

\* The types, with the bound of the runs left out.
ShapeInv ==
    /\ current \in [Adapters -> Nat]
    /\ made \in [Adapters -> Nat]
    /\ open \in [Adapters -> SUBSET Nat]
    /\ order \in Seq(Names)
    /\ named \in [Names -> Adapters]
    /\ roleAdapter \in [Roles -> Adapters]
    /\ job \in [Tasks -> JobShape]
    /\ twice \in [Adapters -> Nat]
    /\ failed \in [Adapters -> SUBSET Nat]

Held(a) == {job[t].client : t \in Closing(a)}

Alive(a) == open[a] \cup Held(a)

\* Clients are numbered as they are made; a client being closed is not open, and
\* one task only is closing it.
NumberInv ==
    /\ \A a \in Adapters : current[a] <= made[a]
    /\ \A a \in Adapters : open[a] \subseteq 1 .. made[a]
    /\ \A t \in Tasks : job[t].at = "closing" =>
         /\ job[t].client \in 1 .. made[job[t].adapter]
         /\ job[t].client \notin open[job[t].adapter]
    /\ \A t, u \in Tasks :
         /\ job[t].at = "closing" /\ job[u].at = "closing"
         /\ job[t].adapter = job[u].adapter /\ job[t].client = job[u].client
         => t = u

\* An adapter's client is alive, or its close has failed.
KnownInv == \A a \in Adapters : current[a] \in {0} \cup Alive(a) \cup failed[a]

\* Clients that are alive and not the adapter's are at most as many as the closes
\* that found their client closed.
LostInv == \A a \in Adapters : Cardinality(Alive(a) \ {current[a]}) <= twice[a]

ClientInv == ShapeInv /\ NumberInv /\ KnownInv /\ LostInv

-----------------------------------------------------------------------------
(* Numbers, sets and jobs. *)

\* What an adapter has alive is finite: it has been made.
LEMMA AliveIsFinite ==
    ASSUME ShapeInv, NumberInv, NEW a \in Adapters
    PROVE  /\ Alive(a) \subseteq 1 .. made[a]
           /\ IsFiniteSet(Alive(a))
           /\ 0 \notin Alive(a)
<1>1. Alive(a) \subseteq 1 .. made[a]
  BY DEF Alive, Held, Closing, NumberInv
<1>2. made[a] \in Nat
  BY DEF ShapeInv
<1>3. IsFiniteSet(1 .. made[a])
  BY <1>2, FS_Interval
<1> QED
  BY <1>1, <1>2, <1>3, FS_Subset

\* Forgetting the client an adapter has loses at most this one.
LEMMA ForgettingLosesOne ==
    ASSUME NEW A, IsFiniteSet(A), NEW x
    PROVE  /\ Cardinality(A) \in Nat
           /\ Cardinality(A \ {x}) \in Nat
           /\ Cardinality(A) <= Cardinality(A \ {x}) + 1
           /\ x \notin A => Cardinality(A) = Cardinality(A \ {x})
<1>1. Cardinality(A) \in Nat
  BY FS_CardinalityType
<1>2. IsFiniteSet(A \ {x})
  BY FS_RemoveElement
<1>3. Cardinality(A \ {x}) \in Nat
  BY <1>2, FS_CardinalityType
<1>4. Cardinality(A \ {x}) = IF x \in A THEN Cardinality(A) - 1 ELSE Cardinality(A)
  BY FS_RemoveElement
<1> QED
  BY <1>1, <1>3, <1>4

\* Ending the close of one client makes up for forgetting another.
LEMMA EndingMakesUp ==
    ASSUME NEW A, IsFiniteSet(A), NEW k \in A, NEW x
    PROVE  Cardinality(A \ {k}) <= Cardinality(A \ {x})
<1>1. Cardinality(A) \in Nat
  BY FS_CardinalityType
<1>2. Cardinality(A \ {x}) = IF x \in A THEN Cardinality(A) - 1 ELSE Cardinality(A)
  BY FS_RemoveElement
<1>3. Cardinality(A \ {k}) = Cardinality(A) - 1
  BY FS_RemoveElement
<1> QED
  BY <1>1, <1>2, <1>3

\* Fewer clients alive lose no more.
LEMMA FewerLost ==
    ASSUME NEW A, IsFiniteSet(A), NEW B \in SUBSET A, NEW x
    PROVE  Cardinality(B \ {x}) <= Cardinality(A \ {x})
BY FS_RemoveElement, FS_Subset

-----------------------------------------------------------------------------
(* What one step may do to one adapter. *)

\* It keeps its client; closes that begin keep theirs alive, closes that fail say so.
Stays(a) ==
    /\ current'[a] = current[a]
    /\ Alive(a)' \subseteq Alive(a)
    /\ Alive(a) \ Alive(a)' \subseteq failed'[a]
    /\ failed[a] \subseteq failed'[a]
    /\ twice'[a] = twice[a]

Gains(a) ==
    /\ current[a] = 0
    /\ Alive(a)' = Alive(a) \cup {current'[a]}
    /\ twice'[a] = twice[a]

Forgets(a) ==
    /\ current'[a] = 0
    /\ Alive(a)' = Alive(a)
    /\ twice'[a] = twice[a] + (IF current[a] = 0 THEN 0 ELSE 1)

Ends(a) ==
    /\ current'[a] = 0
    /\ \E k \in Alive(a) : Alive(a)' = Alive(a) \ {k}
    /\ twice'[a] = twice[a]

Moves(a) == Stays(a) \/ Gains(a) \/ Forgets(a) \/ Ends(a)

\* Each of these moves keeps the adapter's client known and the account of the
\* lost ones: ending the close of one makes up for forgetting another.
LEMMA MoveKeeps ==
    ASSUME ClientInv, NEW a \in Adapters, Moves(a)
    PROVE  /\ current'[a] \in {0} \cup Alive(a)' \cup failed'[a]
           /\ Cardinality(Alive(a)' \ {current'[a]}) <= twice'[a]
<1> DEFINE A == Alive(a)
<1>1. /\ IsFiniteSet(A) /\ 0 \notin A
      /\ current[a] \in {0} \cup A \cup failed[a]
      /\ Cardinality(A \ {current[a]}) <= twice[a]
      /\ twice[a] \in Nat
      /\ IsFiniteSet(A \ {current[a]})
  BY AliveIsFinite, FS_RemoveElement DEF ClientInv, KnownInv, LostInv, ShapeInv
<1>2. Cardinality(A \ {current[a]}) \in Nat
  BY <1>1, FS_CardinalityType
<1>3. CASE Stays(a)
  <2> DEFINE B == Alive(a)'
  <2>1. B \in SUBSET A /\ current'[a] = current[a] /\ twice'[a] = twice[a]
    BY <1>3 DEF Stays
  <2>2. Cardinality(B \ {current[a]}) <= Cardinality(A \ {current[a]})
    <3> HIDE DEF A, B
    <3> QED
      BY <1>1, <2>1, FewerLost
  <2>3. Cardinality(B \ {current[a]}) \in Nat
    <3>1. IsFiniteSet(B \ {current[a]})
      BY <1>1, <2>1, FS_Subset
    <3> QED
      BY <3>1, FS_CardinalityType
  <2>4. Cardinality(B \ {current'[a]}) <= twice'[a]
    BY <1>1, <1>2, <2>1, <2>2, <2>3
  <2> QED
    BY <1>1, <1>3, <2>4 DEF Stays
<1>4. CASE Gains(a)
  <2>1. Alive(a)' \ {current'[a]} \subseteq A \ {current[a]}
    BY <1>1, <1>4 DEF Gains
  <2>2. /\ Cardinality(Alive(a)' \ {current'[a]}) <= Cardinality(A \ {current[a]})
        /\ Cardinality(Alive(a)' \ {current'[a]}) \in Nat
    <3>1. IsFiniteSet(Alive(a)' \ {current'[a]})
      BY <1>1, <2>1, FS_Subset
    <3> QED
      BY <1>1, <2>1, <3>1, FS_Subset, FS_CardinalityType
  <2> QED
    BY <1>1, <1>2, <1>4, <2>2 DEF Gains
<1>5. CASE Forgets(a)
  <2>1. Alive(a)' \ {current'[a]} = A /\ current'[a] = 0
    BY <1>1, <1>5 DEF Forgets
  <2>2. /\ Cardinality(A) \in Nat
        /\ Cardinality(A) <= Cardinality(A \ {current[a]}) + 1
        /\ current[a] = 0 => Cardinality(A) = Cardinality(A \ {current[a]})
    BY <1>1, ForgettingLosesOne
  <2> QED
    BY <1>1, <1>2, <1>5, <2>1, <2>2 DEF Forgets
<1>6. CASE Ends(a)
  <2>1. PICK k \in A : Alive(a)' = A \ {k}
    BY <1>6 DEF Ends
  <2>2. Alive(a)' \ {current'[a]} = A \ {k} /\ current'[a] = 0
    BY <1>1, <1>6, <2>1 DEF Ends
  <2>3. Cardinality(A \ {k}) <= Cardinality(A \ {current[a]})
    BY <1>1, EndingMakesUp
  <2>4. Cardinality(A \ {k}) \in Nat
    BY <1>1, FS_RemoveElement, FS_CardinalityType
  <2>5. twice'[a] = twice[a]
    BY <1>6 DEF Ends
  <2>6. Cardinality(A \ {k}) <= twice[a]
    <3> HIDE DEF A
    <3> QED
      BY <1>1, <1>2, <2>3, <2>4
  <2> QED
    BY <2>2, <2>5, <2>6
<1> QED
  BY <1>3, <1>4, <1>5, <1>6 DEF Moves

\* So a step that moves every adapter and keeps shapes and numbers keeps all.
LEMMA MovesKeep ==
    ASSUME ClientInv, ShapeInv', NumberInv', \A a \in Adapters : Moves(a)
    PROVE  ClientInv'
BY MoveKeeps DEF ClientInv, KnownInv, LostInv

-----------------------------------------------------------------------------
(* Closing. *)

\* What closing from the clients cur does: some adapters forget theirs, and either
\* the task is done or it is suspended in the close of one more client.
Swept(t, cur) ==
    /\ current' \in [Adapters -> Nat]
    /\ twice' \in [Adapters -> Nat]
    /\ \A a \in Adapters :
         \/ current'[a] = cur[a] /\ twice'[a] = twice[a]
         \/ current'[a] = 0 /\ twice'[a] = twice[a] + (IF cur[a] = 0 THEN 0 ELSE 1)
    /\ \/ open' = open /\ job' = [job EXCEPT ![t] = Idle]
       \/ \E b \in Adapters, n \in ClosingShape :
            /\ n.adapter = b /\ n.client = cur[b] /\ cur[b] \in open[b]
            /\ open' = [open EXCEPT ![b] = @ \ {cur[b]}]
            /\ job' = [job EXCEPT ![t] = n]

\* A close that suspends is such a step, wherever it starts from.
LEMMA StartSweeps ==
    ASSUME ShapeInv, NEW t \in Tasks, NEW b \in Adapters, NEW j \in ClosingShape,
           NEW cur \in [Adapters -> Nat], cur[b] \in open[b], StartClosing(t, b, j, cur)
    PROVE  \E n \in ClosingShape :
             /\ n.adapter = b /\ n.client = cur[b]
             /\ open' = [open EXCEPT ![b] = @ \ {cur[b]}]
             /\ job' = [job EXCEPT ![t] = n]
<1> DEFINE n == [j EXCEPT !.adapter = b, !.client = cur[b]]
<1>1. n \in ClosingShape /\ n.adapter = b /\ n.client = cur[b]
  BY DEF ClosingShape
<1>2. job' = [job EXCEPT ![t] = n] /\ open' = [open EXCEPT ![b] = @ \ {cur[b]}]
  BY DEF StartClosing
<1> QED
  BY <1>1, <1>2

\* The loop of close_all is such a step, whatever it still has to go through.
LEMMA LoopSweeps ==
    ASSUME ShapeInv, NEW t \in Tasks, NEW j \in ClosingShape,
           NEW cur \in [Adapters -> Nat], CloseOn(t, j, cur)
    PROVE  Swept(t, cur)
<1> DEFINE rest    == Remaining(j.position)
           waiting == {k \in rest : cur[Entry(k)] \in open[Entry(k)]}
           next    == IF waiting = {} THEN Len(order) + 1 ELSE Min(waiting)
           passed  == {Entry(k) : k \in {i \in rest : i < next}}
           already == {a \in passed : cur[a] # 0}
<1>0. twice \in [Adapters -> Nat]
  BY DEF ShapeInv
<1>1. CASE Len(order) # j.size
  BY <1>0, <1>1 DEF CloseOn, Swept
<1>2. CASE Len(order) = j.size
  <2>1. /\ current' = [a \in Adapters |-> IF a \in passed THEN 0 ELSE cur[a]]
        /\ twice' = [a \in Adapters |-> IF a \in already THEN twice[a] + 1 ELSE twice[a]]
        /\ \/ waiting = {} /\ job' = [job EXCEPT ![t] = Idle] /\ UNCHANGED open
           \/ waiting # {} /\ StartClosing(t, Entry(next), [j EXCEPT !.position = next], cur)
    BY <1>2 DEF CloseOn
  <2>2. /\ current' \in [Adapters -> Nat]
        /\ twice' \in [Adapters -> Nat]
        /\ \A a \in Adapters :
             \/ current'[a] = cur[a] /\ twice'[a] = twice[a]
             \/ current'[a] = 0 /\ twice'[a] = twice[a] + (IF cur[a] = 0 THEN 0 ELSE 1)
    <3> HIDE DEF passed
    <3> QED
      BY <1>0, <2>1
  <2>3. CASE waiting # {}
    <3>1. rest \subseteq Nat /\ rest \subseteq DOMAIN order
      BY DEF Remaining, ShapeInv, ClosingShape
    <3>2. next \in waiting
      <4>1. waiting \subseteq Nat
        BY <3>1
      <4> QED
        BY <2>3, <4>1, MinIsIn
    <3>3. Entry(next) \in Adapters /\ cur[Entry(next)] \in open[Entry(next)] /\ next \in Nat
      <4> HIDE DEF next
      <4>1. next \in rest /\ cur[Entry(next)] \in open[Entry(next)]
        BY <3>2
      <4>2. order[next] \in Names /\ next \in Nat
        <5> HIDE DEF rest
        <5> QED
          BY <3>1, <4>1 DEF ShapeInv
      <4> QED
        BY <4>1, <4>2 DEF Entry, ShapeInv
    <3>4. [j EXCEPT !.position = next] \in ClosingShape
      BY <3>3 DEF ClosingShape
    <3> HIDE DEF next
    <3>5. StartClosing(t, Entry(next), [j EXCEPT !.position = next], cur)
      BY <2>1, <2>3
    <3>6. \E n \in ClosingShape :
             /\ n.adapter = Entry(next) /\ n.client = cur[Entry(next)]
             /\ open' = [open EXCEPT ![Entry(next)] = @ \ {cur[Entry(next)]}]
             /\ job' = [job EXCEPT ![t] = n]
      BY <3>3, <3>4, <3>5, StartSweeps
    <3> QED
      BY <2>2, <3>3, <3>6 DEF Swept
  <2> QED
    BY <2>1, <2>2, <2>3 DEF Swept
<1> QED
  BY <1>1, <1>2

\* The clients of a that tasks other than t are closing.
Others(a, t) == {job[u].client : u \in Closing(a) \ {t}}

\* After such a step those are alive that are open or that others are closing.
LEMMA SweptAlive ==
    ASSUME ShapeInv, NEW t \in Tasks, NEW cur, Swept(t, cur), NEW a \in Adapters
    PROVE  Alive(a)' = open[a] \cup Others(a, t)
<1>1. \A u \in Tasks \ {t} : job'[u] = job[u]
  BY DEF Swept, ShapeInv
<1>2. CASE open' = open /\ job' = [job EXCEPT ![t] = Idle]
  <2>1. job'[t].at = "idle"
    BY <1>2 DEF ShapeInv, Idle
  <2> QED
    BY <1>1, <1>2, <2>1 DEF Alive, Held, Closing, Others
<1>3. ASSUME NEW b \in Adapters, NEW n \in ClosingShape,
             n.adapter = b, n.client = cur[b], cur[b] \in open[b],
             open' = [open EXCEPT ![b] = @ \ {cur[b]}], job' = [job EXCEPT ![t] = n]
      PROVE  Alive(a)' = open[a] \cup Others(a, t)
  <2>1. job'[t] = n /\ n.at = "closing"
    BY <1>3 DEF ShapeInv, ClosingShape
  <2>2. CASE a = b
    <3>1. open'[a] \cup {cur[b]} = open[a]
      BY <1>3, <2>2 DEF ShapeInv
    <3>2. Held(a)' = Others(a, t) \cup {cur[b]}
      BY <1>1, <1>3, <2>1, <2>2 DEF Held, Closing, Others
    <3> QED
      BY <3>1, <3>2 DEF Alive
  <2>3. CASE a # b
    <3>1. open'[a] = open[a]
      BY <1>3, <2>3 DEF ShapeInv
    <3>2. Held(a)' = Others(a, t)
      BY <1>1, <1>3, <2>1, <2>3 DEF Held, Closing, Others
    <3> QED
      BY <3>1, <3>2 DEF Alive
  <2> QED
    BY <2>2, <2>3
<1> QED
  BY <1>2, <1>3 DEF Swept

\* A step that sweeps from the clients cur, where cur holds each adapter's client
\* or none, keeps shapes and numbers.
LEMMA SweptKeepsNumbers ==
    ASSUME ShapeInv, NumberInv, NEW t \in Tasks, NEW cur \in [Adapters -> Nat],
           \A a \in Adapters : cur[a] \in {0, current[a]},
           Swept(t, cur), UNCHANGED <<made, tables>>, failed' = failed
    PROVE  ShapeInv' /\ NumberInv'
<1> USE DEF tables
<1>1. \A u \in Tasks \ {t} : job'[u] = job[u]
  BY DEF Swept, ShapeInv
<1>2. ASSUME NEW a \in Adapters PROVE current'[a] \in Nat /\ current'[a] <= made'[a]
  <2>1. current'[a] \in {0, current[a]}
    BY DEF Swept
  <2>2. current[a] <= made[a] /\ current[a] \in Nat /\ made[a] \in Nat /\ made' = made
    BY DEF NumberInv, ShapeInv
  <2> QED
    BY <2>1, <2>2
<1>3. CASE open' = open /\ job' = [job EXCEPT ![t] = Idle]
  <2>1. job' \in [Tasks -> JobShape] /\ job'[t].at = "idle"
    BY <1>3 DEF ShapeInv, JobShape, Idle
  <2>2. ShapeInv'
    BY <1>3, <2>1 DEF ShapeInv, Swept
  <2> QED
    BY <1>1, <1>2, <1>3, <2>1, <2>2 DEF NumberInv
<1>4. ASSUME NEW b \in Adapters, NEW n \in ClosingShape,
             n.adapter = b, n.client = cur[b], cur[b] \in open[b],
             open' = [open EXCEPT ![b] = @ \ {cur[b]}], job' = [job EXCEPT ![t] = n]
      PROVE  ShapeInv' /\ NumberInv'
  <2>1. job' \in [Tasks -> JobShape] /\ job'[t] = n
    BY <1>4 DEF ShapeInv, JobShape
  <2>2. open' \in [Adapters -> SUBSET Nat] /\ \A a \in Adapters : open'[a] \subseteq open[a]
    BY <1>4 DEF ShapeInv
  <2>3. ShapeInv'
    BY <2>1, <2>2 DEF ShapeInv, Swept
  <2>4. n.client \in 1 .. made[b] /\ n.client \notin open'[b]
    BY <1>4 DEF NumberInv, ShapeInv
  <2>5. \A u \in Tasks \ {t} :
          job[u].at = "closing" /\ job[u].adapter = b => job[u].client # n.client
    BY <1>4 DEF NumberInv
  <2>6. \A u \in Tasks : job'[u].at = "closing" =>
          /\ job'[u].client \in 1 .. made'[job'[u].adapter]
          /\ job'[u].client \notin open'[job'[u].adapter]
    <3> SUFFICES ASSUME NEW u \in Tasks, job'[u].at = "closing"
                 PROVE  /\ job'[u].client \in 1 .. made'[job'[u].adapter]
                        /\ job'[u].client \notin open'[job'[u].adapter]
      OBVIOUS
    <3>1. CASE u = t
      BY <1>4, <2>1, <2>4, <3>1
    <3>2. CASE u # t
      <4>1. job'[u] = job[u] /\ job[u].adapter \in Adapters
        BY <1>1, <3>2 DEF ShapeInv, JobShape, ClosingShape, Idle
      <4> QED
        BY <2>2, <4>1 DEF NumberInv
    <3> QED
      BY <3>1, <3>2
  <2>7. \A u, v \in Tasks :
          /\ job'[u].at = "closing" /\ job'[v].at = "closing"
          /\ job'[u].adapter = job'[v].adapter /\ job'[u].client = job'[v].client
          => u = v
    BY <1>1, <1>4, <2>1, <2>5 DEF NumberInv
  <2> QED
    BY <1>2, <2>2, <2>3, <2>6, <2>7 DEF NumberInv
<1> QED
  BY <1>3, <1>4 DEF Swept

\* From an idle task each adapter keeps its client or forgets it.
LEMMA SweptFromIdle ==
    ASSUME ShapeInv, NumberInv, NEW t \in Tasks, job[t].at # "closing",
           Swept(t, current), failed' = failed
    PROVE  \A a \in Adapters : Moves(a)
<1> SUFFICES ASSUME NEW a \in Adapters PROVE Stays(a) \/ Forgets(a)
  BY DEF Moves
<1>1. Alive(a)' = Alive(a)
  BY SweptAlive DEF Alive, Held, Others, Closing
<1>2. \/ current'[a] = current[a] /\ twice'[a] = twice[a]
      \/ current'[a] = 0 /\ twice'[a] = twice[a] + (IF current[a] = 0 THEN 0 ELSE 1)
  BY DEF Swept
<1> QED
  BY <1>1, <1>2 DEF Stays, Forgets

\* At the end of a close its adapter forgets its client and that close is over;
\* the others keep theirs or forget it.
LEMMA SweptFromClosing ==
    ASSUME ShapeInv, NumberInv, NEW t \in Tasks, job[t].at = "closing",
           Swept(t, Forgotten(job[t].adapter)), failed' = failed
    PROVE  \A a \in Adapters : Moves(a)
<1> DEFINE b == job[t].adapter
           k == job[t].client
           cur == Forgotten(b)
<1> SUFFICES ASSUME NEW a \in Adapters PROVE Moves(a)
  OBVIOUS
<1>0. b \in Adapters /\ cur = [current EXCEPT ![b] = 0] /\ t \in Closing(b)
  BY DEF ShapeInv, JobShape, ClosingShape, Idle, Forgotten, Closing
<1>1. Alive(a)' = open[a] \cup Others(a, t)
  BY SweptAlive
<1>2. \/ current'[a] = cur[a] /\ twice'[a] = twice[a]
      \/ current'[a] = 0 /\ twice'[a] = twice[a] + (IF cur[a] = 0 THEN 0 ELSE 1)
  BY DEF Swept
<1>3. CASE a = b
  <2>1. k \in Held(b) /\ k \notin open[b] /\ Others(b, t) = Held(b) \ {k}
    BY <1>0 DEF Held, Others, Closing, NumberInv
  <2>2. Alive(a)' = Alive(a) \ {k} /\ k \in Alive(a)
    <3> HIDE DEF b, k
    <3> QED
      BY <1>1, <1>3, <2>1 DEF Alive
  <2>3. cur[b] = 0 /\ twice[b] \in Nat
    BY <1>0 DEF ShapeInv
  <2>4. current'[a] = 0 /\ twice'[a] = twice[a]
    <3> HIDE DEF cur, b
    <3> QED
      BY <1>2, <1>3, <2>3
  <2>5. Ends(a)
    <3> HIDE DEF k
    <3> QED
      BY <2>2, <2>4 DEF Ends
  <2> QED
    BY <2>5 DEF Moves
<1>4. CASE a # b
  <2>1. Others(a, t) = Held(a)
    BY <1>4 DEF Others, Held, Closing
  <2>2. cur[a] = current[a]
    BY <1>0, <1>4 DEF ShapeInv
  <2>3. Alive(a)' = Alive(a)
    BY <1>1, <2>1 DEF Alive
  <2>4. \/ current'[a] = current[a] /\ twice'[a] = twice[a]
        \/ current'[a] = 0 /\ twice'[a] = twice[a] + (IF current[a] = 0 THEN 0 ELSE 1)
    <3> HIDE DEF cur
    <3> QED
      BY <1>2, <2>2
  <2> QED
    BY <2>3, <2>4 DEF Moves, Stays, Forgets
<1> QED
  BY <1>3, <1>4

-----------------------------------------------------------------------------
(* The actions. *)

\* When the jobs that are closes stay the same closes, what is held does.
SameCloses ==
    \A t \in Tasks :
        /\ job'[t].at = "closing" <=> job[t].at = "closing"
        /\ job[t].at = "closing" =>
             job'[t].adapter = job[t].adapter /\ job'[t].client = job[t].client

\* A task that is closing closes an adapter.
LEMMA ClosesAnAdapter ==
    ASSUME ShapeInv, NEW t \in Tasks, job[t].at = "closing"
    PROVE  job[t] \in ClosingShape /\ job[t].adapter \in Adapters
<1>1. job[t] \in JobShape
  BY DEF ShapeInv
<1>2. job[t] \notin [at : {"sending", "stream"}, adapter : Adapters, client : Nat]
  OBVIOUS
<1>3. job[t] # Idle
  BY DEF Idle
<1>4. job[t] \in ClosingShape
  BY <1>1, <1>2, <1>3 DEF JobShape
<1> QED
  BY <1>4 DEF ClosingShape

\* A step that leaves clients and closes alone keeps the invariant.
LEMMA NothingCloses ==
    ASSUME ClientInv, ShapeInv', SameCloses, UNCHANGED <<clients, twice, failed>>
    PROVE  ClientInv'
<1> USE DEF clients
<1>1. NumberInv'
  <2>1. \A t \in Tasks : job'[t].at = "closing" =>
          /\ job'[t].client \in 1 .. made'[job'[t].adapter]
          /\ job'[t].client \notin open'[job'[t].adapter]
    BY DEF ClientInv, NumberInv, SameCloses
  <2>2. \A t, u \in Tasks :
          /\ job'[t].at = "closing" /\ job'[u].at = "closing"
          /\ job'[t].adapter = job'[u].adapter /\ job'[t].client = job'[u].client
          => t = u
    BY DEF ClientInv, NumberInv, SameCloses
  <2> QED
    BY <2>1, <2>2 DEF ClientInv, NumberInv
<1>2. ASSUME NEW a \in Adapters PROVE Stays(a)
  BY DEF SameCloses, Stays, Alive, Held, Closing
<1> QED
  BY <1>1, <1>2, MovesKeep DEF Moves

\* The jobs of chats are no closes.
LEMMA RequestShape ==
    ASSUME NEW a \in Adapters, NEW client \in Nat, NEW stream \in BOOLEAN
    PROVE  Request(a, client, stream) \in JobShape /\ Request(a, client, stream).at # "closing"
BY DEF Request, JobShape, Idle

\* A chat adds the client it needs.
LEMMA ChatStep ==
    ASSUME ClientInv, NEW t \in Tasks, NEW a \in Routes, NEW stream \in BOOLEAN,
           Chat(t, a, stream)
    PROVE  ClientInv'
<1> DEFINE r == Request(a, ClientFor(a), stream)
<1>1. a \in Adapters
  BY AdaptersAssumption DEF Routes, ClientInv, ShapeInv, AdaptersAssumption
<1>2. ClientFor(a) \in Nat
  BY AdaptersAssumption DEF Chat, GetClient, Clients, AdaptersAssumption
<1>3. r \in JobShape /\ r.at # "closing"
  BY <1>1, <1>2, RequestShape
<1>4. job' = [job EXCEPT ![t] = r] /\ job[t].at = "idle"
  BY DEF Chat, Idle
<1>5. SameCloses /\ job' \in [Tasks -> JobShape]
  <2> HIDE DEF r
  <2> QED
    BY <1>3, <1>4 DEF SameCloses, ClientInv, ShapeInv
<1>6. \A x \in Adapters : Held(x)' = Held(x)
  BY <1>5 DEF SameCloses, Held, Closing
<1>7. CASE MustCreate(a)
  <2>1. /\ current[a] = 0
        /\ current' = [current EXCEPT ![a] = made[a] + 1]
        /\ made' = [made EXCEPT ![a] = @ + 1]
        /\ open' = [open EXCEPT ![a] = @ \cup {made[a] + 1}]
        /\ UNCHANGED <<tables, twice, failed>>
    BY <1>7 DEF Chat, GetClient, ClientFor, MustCreate
  <2>2. ShapeInv'
    BY <1>1, <1>5, <2>1 DEF ClientInv, ShapeInv, tables
  <2>3. NumberInv'
    <3>1. \A x \in Adapters : current'[x] <= made'[x] /\ open'[x] \subseteq 1 .. made'[x]
      BY <1>1, <2>1 DEF ClientInv, ShapeInv, NumberInv
    <3>2. \A u \in Tasks : job'[u].at = "closing" =>
            /\ job'[u].client \in 1 .. made'[job'[u].adapter]
            /\ job'[u].client \notin open'[job'[u].adapter]
      <4> SUFFICES ASSUME NEW u \in Tasks, job'[u].at = "closing"
                   PROVE  /\ job'[u].client \in 1 .. made'[job'[u].adapter]
                          /\ job'[u].client \notin open'[job'[u].adapter]
        OBVIOUS
      <4> DEFINE x == job[u].adapter
                 k == job[u].client
      <4>1. /\ job'[u].adapter = x /\ job'[u].client = k /\ x \in Adapters
            /\ k \in 1 .. made[x] /\ k \notin open[x]
        BY <1>5, ClosesAnAdapter DEF ClientInv, NumberInv, SameCloses
      <4>2. k \in 1 .. made'[x] /\ k \notin open'[x]
        BY <1>1, <2>1, <4>1 DEF ClientInv, ShapeInv
      <4> QED
        BY <4>1, <4>2
    <3>3. \A u, v \in Tasks :
            /\ job'[u].at = "closing" /\ job'[v].at = "closing"
            /\ job'[u].adapter = job'[v].adapter /\ job'[u].client = job'[v].client
            => u = v
      BY <1>5 DEF ClientInv, NumberInv, SameCloses
    <3> QED
      BY <3>1, <3>2, <3>3 DEF NumberInv
  <2>4. Gains(a)
    BY <1>1, <1>6, <2>1 DEF Gains, Alive, ClientInv, ShapeInv
  <2>5. ASSUME NEW x \in Adapters \ {a} PROVE Stays(x)
    BY <1>6, <2>1 DEF Stays, Alive, ClientInv, ShapeInv
  <2> QED
    BY <2>2, <2>3, <2>4, <2>5, MovesKeep DEF Moves
<1>8. CASE ~MustCreate(a)
  <2>1. UNCHANGED <<clients, tables, twice, failed>>
    BY <1>1, <1>8 DEF Chat, GetClient, ClientFor, clients, ClientInv, ShapeInv
  <2>2. ShapeInv'
    BY <1>5, <2>1 DEF ClientInv, ShapeInv, clients, tables
  <2> QED
    BY <1>5, <2>1, <2>2, NothingCloses
<1> QED
  BY <1>7, <1>8

\* A stream that is iterated, and the end of a chat, touch no client.
LEMMA ChatGoesOn ==
    ASSUME ClientInv, NEW t \in Tasks, IterateStream(t) \/ ChatEnds(t)
    PROVE  ClientInv'
<1>1. job[t].at \in {"stream", "sending"} /\ job[t] \in JobShape
  BY DEF IterateStream, ChatEnds, ClientInv, ShapeInv
<1>2. PICK r \in JobShape : r.at # "closing" /\ job' = [job EXCEPT ![t] = r]
  <2>1. Idle \in JobShape /\ Idle.at # "closing"
    BY DEF Idle, JobShape
  <2>2. [job[t] EXCEPT !.at = "sending"] \in JobShape
        /\ [job[t] EXCEPT !.at = "sending"].at # "closing"
    BY <1>1 DEF JobShape, ClosingShape, Idle
  <2> QED
    BY <2>1, <2>2 DEF IterateStream, ChatEnds, ClientInv, ShapeInv
<1>3. UNCHANGED <<clients, tables, twice, failed>>
  BY DEF IterateStream, ChatEnds
<1>4. ShapeInv' /\ SameCloses
  BY <1>1, <1>2, <1>3 DEF ClientInv, ShapeInv, SameCloses, clients, tables
<1> QED
  BY <1>3, <1>4, NothingCloses

\* A task without a job is none that closes.
LEMMA IdleClosesNothing == ASSUME NEW t, job[t] = Idle PROVE job[t].at # "closing"
BY DEF Idle

\* The job of a close, and of close_all, before its first client.
LEMMA ClosingJobShape ==
    ASSUME ShapeInv
    PROVE  /\ ClosingJob(0, {}) \in ClosingShape
           /\ ClosingJob(0, DueNow) \in ClosingShape
<1>1. Len(order) \in Nat
  BY DEF ShapeInv
<1>2. DueNow \subseteq Adapters \X Nat
  <2>1. \A k \in DOMAIN order : Entry(k) \in Adapters
    BY DEF Entry, ShapeInv
  <2> QED
    BY <2>1 DEF DueNow, ShapeInv
<1> QED
  BY <1>1, <1>2, AdaptersAssumption DEF ClosingJob, ClosingShape, AdaptersAssumption

\* close begins, or forgets a closed client at once.
LEMMA CloseStep ==
    ASSUME ClientInv, NEW t \in Tasks, NEW a \in Adapters, Close(t, a)
    PROVE  ClientInv'
<1> USE DEF ClientInv
<1>1. CASE current[a] \in open[a] /\ UNCHANGED <<current, twice>>
           /\ StartClosing(t, a, ClosingJob(0, {}), current)
  <2>1. current \in [Adapters -> Nat] /\ twice \in [Adapters -> Nat]
    BY DEF ShapeInv
  <2>2. Swept(t, current)
    BY <1>1, <2>1, ClosingJobShape, StartSweeps DEF Swept
  <2>3. UNCHANGED <<made, tables>> /\ failed' = failed /\ job[t].at # "closing"
    BY IdleClosesNothing DEF Close
  <2>4. ShapeInv' /\ NumberInv'
    BY <2>1, <2>2, <2>3, SweptKeepsNumbers
  <2> QED
    BY <2>2, <2>3, <2>4, SweptFromIdle, MovesKeep
<1>2. CASE current[a] \notin open[a] /\ CloseAtOnce(a) /\ UNCHANGED <<open, job>>
  <2>1. /\ current' = [current EXCEPT ![a] = 0]
        /\ twice' = IF current[a] = 0 THEN twice ELSE [twice EXCEPT ![a] = @ + 1]
        /\ UNCHANGED <<open, job, made, tables, failed>>
    BY <1>2 DEF Close, CloseAtOnce
  <2>2. ShapeInv'
    BY <2>1 DEF ShapeInv, tables
  <2>3. \A x \in Adapters : current'[x] <= made'[x]
    BY <2>1 DEF ShapeInv, NumberInv
  <2>4. NumberInv'
    BY <2>1, <2>3 DEF NumberInv
  <2>5. \A x \in Adapters : Alive(x)' = Alive(x)
    BY <2>1 DEF Alive, Held, Closing
  <2>6. Forgets(a)
    BY <2>1, <2>5 DEF Forgets, ShapeInv
  <2>7. ASSUME NEW x \in Adapters \ {a} PROVE Stays(x)
    BY <2>1, <2>5 DEF Stays, ShapeInv
  <2> QED
    BY <2>2, <2>4, <2>6, <2>7, MovesKeep DEF Moves
<1> QED
  BY <1>1, <1>2 DEF Close

\* close_all begins.
LEMMA CloseAllStep == ASSUME ClientInv, NEW t \in Tasks, CloseAll(t) PROVE ClientInv'
<1>1. Swept(t, current) /\ current \in [Adapters -> Nat]
  BY ClosingJobShape, LoopSweeps DEF CloseAll, ClientInv, ShapeInv
<1>2. UNCHANGED <<made, tables>> /\ failed' = failed /\ job[t].at # "closing"
  BY IdleClosesNothing DEF CloseAll
<1>3. ShapeInv' /\ NumberInv'
  BY <1>1, <1>2, SweptKeepsNumbers DEF ClientInv
<1> QED
  BY <1>1, <1>2, <1>3, SweptFromIdle, MovesKeep DEF ClientInv

\* A close ends, and close_all goes on.
LEMMA CloseEndsStep == ASSUME ClientInv, NEW t \in Tasks, CloseEnds(t) PROVE ClientInv'
<1> DEFINE a   == job[t].adapter
           cur == Forgotten(a)
<1>1. /\ job[t].at = "closing" /\ job[t] \in ClosingShape /\ a \in Adapters
      /\ UNCHANGED <<made, tables>> /\ failed' = failed
  BY ClosesAnAdapter DEF CloseEnds, ClientInv
<1>2. cur \in [Adapters -> Nat] /\ \A x \in Adapters : cur[x] \in {0, current[x]}
  BY <1>1 DEF Forgotten, ClientInv, ShapeInv
<1>3. CASE job[t].position = 0
  <2>1. /\ current' = cur /\ job' = [job EXCEPT ![t] = Idle]
        /\ UNCHANGED <<open, twice>> /\ twice \in [Adapters -> Nat]
    BY <1>3 DEF CloseEnds, ClientInv, ShapeInv
  <2> HIDE DEF cur
  <2> QED
    <3>1. Swept(t, cur)
      BY <1>2, <2>1 DEF Swept
    <3>2. ShapeInv' /\ NumberInv'
      BY <1>1, <1>2, <3>1, SweptKeepsNumbers DEF ClientInv
    <3> QED
      BY <1>1, <3>1, <3>2, SweptFromClosing, MovesKeep DEF ClientInv, cur
<1>4. CASE job[t].position # 0
  <2>1. CloseOn(t, job[t], cur)
    BY <1>4 DEF CloseEnds
  <2>2. Swept(t, cur)
    <3> HIDE DEF cur
    <3> QED
      BY <1>1, <1>2, <2>1, LoopSweeps DEF ClientInv
  <2>3. ShapeInv' /\ NumberInv'
    <3> HIDE DEF cur
    <3> QED
      BY <1>1, <1>2, <2>2, SweptKeepsNumbers DEF ClientInv
  <2> QED
    BY <1>1, <2>2, <2>3, SweptFromClosing, MovesKeep DEF ClientInv
<1> QED
  BY <1>3, <1>4

\* A close fails: its client is alive no more, and has failed.
LEMMA CloseRaisesStep == ASSUME ClientInv, NEW t \in Tasks, CloseRaises(t) PROVE ClientInv'
<1> DEFINE b == job[t].adapter
           k == job[t].client
<1>1. b \in Adapters /\ k \in Nat
  BY ClosesAnAdapter DEF CloseRaises, ClosingShape, ClientInv
<1>2. /\ job' = [job EXCEPT ![t] = Idle] /\ Idle.at = "idle" /\ Idle \in JobShape
      /\ failed' = [failed EXCEPT ![b] = @ \cup {k}]
      /\ UNCHANGED <<clients, tables, twice>>
  BY DEF CloseRaises, Idle, JobShape
<1>3. job' \in [Tasks -> JobShape] /\ failed' \in [Adapters -> SUBSET Nat]
  <2> HIDE DEF b, k
  <2> QED
    BY <1>1, <1>2 DEF ClientInv, ShapeInv
<1>4. ShapeInv'
  BY <1>2, <1>3 DEF ClientInv, ShapeInv, clients, tables
<1>5. \A u \in Tasks : job'[u].at = "closing" => u # t /\ job'[u] = job[u]
  BY <1>2 DEF ClientInv, ShapeInv
<1>6. NumberInv'
  BY <1>2, <1>5 DEF ClientInv, NumberInv, clients
<1>7. ASSUME NEW x \in Adapters PROVE Stays(x)
  <2>1. Held(x)' \subseteq Held(x)
    BY <1>5 DEF Held, Closing
  <2>2. \A i \in Held(x) \ Held(x)' : x = b /\ i = k
    BY <1>2 DEF Held, Closing, ClientInv, ShapeInv
  <2>3. failed[x] \subseteq failed'[x] /\ (x = b => k \in failed'[x])
    <3> HIDE DEF b, k
    <3> QED
      BY <1>1, <1>2 DEF ClientInv, ShapeInv
  <2> HIDE DEF b, k
  <2> QED
    BY <1>2, <2>1, <2>2, <2>3 DEF Stays, Alive, clients
<1> QED
  BY <1>4, <1>6, <1>7, MovesKeep DEF Moves

\* Registering an adapter and configuring a role touch no client.
LEMMA TablesStep ==
    ASSUME ClientInv,
           \/ \E n \in Names, a \in Adapters : Register(n, a)
           \/ \E r \in Roles, a \in Adapters : ConfigureRole(r, a)
    PROVE  ClientInv'
<1>1. ASSUME NEW n \in Names, NEW a \in Adapters, Register(n, a) PROVE ClientInv'
  <2>1. order' \in Seq(Names) /\ named' \in [Names -> Adapters]
    BY <1>1 DEF Register, OrderWith, ClientInv, ShapeInv
  <2>2. \A t \in Tasks :
          job[t].at = "closing" =>
            /\ [job[t] EXCEPT !.quiet = FALSE] \in ClosingShape
            /\ [job[t] EXCEPT !.quiet = FALSE].at = "closing"
            /\ [job[t] EXCEPT !.quiet = FALSE].adapter = job[t].adapter
            /\ [job[t] EXCEPT !.quiet = FALSE].client = job[t].client
    BY ClosesAnAdapter DEF ClientInv, ClosingShape
  <2>3. job' \in [Tasks -> JobShape] /\ SameCloses
    BY <1>1, <2>2 DEF Register, ClientInv, ShapeInv, JobShape, SameCloses
  <2>4. ShapeInv' /\ UNCHANGED <<clients, twice, failed>>
    BY <1>1, <2>1, <2>3 DEF Register, ClientInv, ShapeInv, clients
  <2> QED
    BY <2>3, <2>4, NothingCloses
<1>2. ASSUME NEW r \in Roles, NEW a \in Adapters, ConfigureRole(r, a) PROVE ClientInv'
  <2>1. ShapeInv' /\ SameCloses /\ UNCHANGED <<clients, twice, failed>>
    BY <1>2 DEF ConfigureRole, ClientInv, ShapeInv, SameCloses, clients
  <2> QED
    BY <2>1, NothingCloses
<1> QED
  BY <1>1, <1>2

\* Every step keeps the account of clients.
LEMMA ClientStep == ClientInv /\ [Next]_vars => ClientInv'
<1> SUFFICES ASSUME ClientInv, [Next]_vars PROVE ClientInv'
  OBVIOUS
<1>1. CASE UNCHANGED vars
  BY <1>1 DEF vars, clients, tables, ClientInv, ShapeInv, NumberInv, KnownInv, LostInv,
              Alive, Held, Closing
<1>2. ASSUME NEW t \in Tasks, NEW a \in Routes, NEW stream \in BOOLEAN, Chat(t, a, stream)
      PROVE  ClientInv'
  BY <1>2, ChatStep
<1>3. ASSUME NEW t \in Tasks, IterateStream(t) \/ ChatEnds(t) PROVE ClientInv'
  BY <1>3, ChatGoesOn
<1>4. ASSUME NEW t \in Tasks, NEW a \in Adapters, Close(t, a) PROVE ClientInv'
  BY <1>4, CloseStep
<1>5. ASSUME NEW t \in Tasks, CloseAll(t) PROVE ClientInv'
  BY <1>5, CloseAllStep
<1>6. ASSUME NEW t \in Tasks, CloseEnds(t) PROVE ClientInv'
  BY <1>6, CloseEndsStep
<1>7. ASSUME NEW t \in Tasks, CloseRaises(t) PROVE ClientInv'
  BY <1>7, CloseRaisesStep
<1>8. CASE \/ \E n \in Names, a \in Adapters : Register(n, a)
           \/ \E r \in Roles, a \in Adapters : ConfigureRole(r, a)
  BY <1>8, TablesStep
<1>9. CASE Next
  BY <1>2, <1>3, <1>4, <1>5, <1>6, <1>7, <1>8, <1>9 DEF Next
<1> QED
  BY <1>1, <1>9

\* At first no adapter has made a client.
LEMMA ClientInit == Init => ClientInv
<1> SUFFICES ASSUME Init PROVE ClientInv
  OBVIOUS
<1>1. ShapeInv
  BY AdaptersAssumption DEF Init, ShapeInv, JobShape, AdaptersAssumption
<1>2. NumberInv
  BY DEF Init, NumberInv, Idle
<1>3. \A a \in Adapters : Alive(a) = {} /\ current[a] = 0 /\ twice[a] = 0
  BY DEF Init, Alive, Held, Closing, Idle
<1>4. KnownInv /\ LostInv
  BY <1>3, FS_EmptySet DEF KnownInv, LostInv
<1> QED
  BY <1>1, <1>2, <1>4 DEF ClientInv

-----------------------------------------------------------------------------

\* An adapter whose client is closed is in the middle of that close, or the close
\* raised: whatever tasks chat and close meanwhile, no other chat meets a closed
\* client.
THEOREM ClosedClientsKnown == Spec => []ClosedClientIsClosing
<1>1. ClientInv => ClosedClientIsClosing
  BY DEF ClientInv, KnownInv, Alive, Held, ClosedClientIsClosing
<1> QED
  BY <1>1, ClientInit, ClientStep, PTL DEF Spec

\* An adapter leaks at most one open client for every close that found its client
\* closed already: chats and closes that do not overlap other closes leak none.
THEOREM LeaksBounded == Spec => []LeaksNeedOverlap
<1>1. ClientInv => LeaksNeedOverlap
  <2> SUFFICES ASSUME ClientInv, NEW a \in Adapters
               PROVE  Cardinality(Leaked(a)) <= twice[a]
    BY DEF LeaksNeedOverlap
  <2> DEFINE A == Alive(a) \ {current[a]}
  <2>1. IsFiniteSet(A)
    BY AliveIsFinite, FS_RemoveElement DEF ClientInv
  <2>2. Leaked(a) \in SUBSET A
    BY DEF Leaked, Alive
  <2>3. Cardinality(A) <= twice[a] /\ twice[a] \in Nat
    BY DEF ClientInv, LostInv, ShapeInv
  <2> HIDE DEF A
  <2>4. /\ Cardinality(Leaked(a)) <= Cardinality(A)
        /\ Cardinality(Leaked(a)) \in Nat /\ Cardinality(A) \in Nat
    BY <2>1, <2>2, FS_Subset, FS_CardinalityType
  <2> QED
    BY <2>3, <2>4
<1> QED
  BY <1>1, ClientInit, ClientStep, PTL DEF Spec
-----------------------------------------------------------------------------
(* The bounds and what close_all owes. *)

\* A client of an entry it has still to go through.
Ahead(j, d) == \E k \in Remaining(j.position) : Entry(k) = d[1]

\* What a close_all has to close is closed, was left to other closes or is ahead.
Owed(j, d) == d[2] \notin open[d[1]] \/ twice[d[1]] > 0 \/ Ahead(j, d)

\* Where the close_all of a task stands, and what it owes.
LoopOf(t) ==
    job[t].at = "closing" =>
        /\ job[t].position <= job[t].size
        /\ job[t].size <= Len(order)
        /\ \A d \in job[t].due : d[2] \in 1 .. made[d[1]]
        /\ job[t].position > 0 /\ job[t].quiet =>
             /\ job[t].size = Len(order)
             /\ \A d \in job[t].due : Owed(job[t], d)

\* A client whose close raised is closed, and no task closes it any more.
FailedInv ==
    /\ \A a \in Adapters : failed[a] \subseteq (1 .. made[a]) \ open[a]
    /\ \A t \in Tasks : job[t].at = "closing" => job[t].client \notin failed[job[t].adapter]

\* The bounds: clients made and used, and names that stand in the registry once.
BoundInv ==
    /\ \A a \in Adapters : made[a] <= MaxClients
    /\ \A t \in Tasks : job[t].at \in {"sending", "stream"} => job[t].client \in Clients
    /\ \A i, k \in DOMAIN order : order[i] = order[k] => i = k

CloseInv == (\A t \in Tasks : LoopOf(t)) /\ FailedInv /\ BoundInv

\* Without a close too many, an adapter's open client is the one it has.
LEMMA OnlyCurrentIsOpen ==
    ClientInv => \A a \in Adapters : twice[a] > 0 \/ open[a] \subseteq {current[a]} \ {0}
<1> SUFFICES ASSUME ClientInv, NEW a \in Adapters, ~(twice[a] > 0)
             PROVE  open[a] \subseteq {current[a]} \ {0}
  OBVIOUS
<1> DEFINE lost == Alive(a) \ {current[a]}
<1>1. IsFiniteSet(lost) /\ 0 \notin Alive(a)
  BY AliveIsFinite, FS_RemoveElement DEF ClientInv
<1>2. Cardinality(lost) <= 0
  BY DEF ClientInv, LostInv, ShapeInv
<1>3. lost = {}
  <2> HIDE DEF lost
  <2> QED
    BY <1>1, <1>2, FS_EmptySet, FS_CardinalityType
<1> QED
  BY <1>1, <1>3 DEF Alive

\* The same of the state after a step.
LEMMA OnlyCurrentIsOpenNext ==
    ClientInv' => \A a \in Adapters : twice'[a] > 0 \/ open'[a] \subseteq {current'[a]} \ {0}
<1>1. (ClientInv => \A a \in Adapters : twice[a] > 0 \/ open[a] \subseteq {current[a]} \ {0})'
  BY OnlyCurrentIsOpen, PTL
<1> QED
  BY <1>1

\* The loop is suspended in the close of its entry k, all before it are forgotten.
StopsAt(t, j, cur, k) ==
    /\ Entry(k) \in Adapters
    /\ cur[Entry(k)] \in open[Entry(k)]
    /\ open' = [open EXCEPT ![Entry(k)] = @ \ {cur[Entry(k)]}]
    /\ job' = [job EXCEPT ![t] = [j EXCEPT !.position = k, !.adapter = Entry(k),
                                          !.client = cur[Entry(k)]]]
    /\ current'[Entry(k)] \in {0, cur[Entry(k)]}
    /\ \A i \in Remaining(j.position) : i < k => current'[Entry(i)] = 0

\* How the loop of close_all ends or goes on.
LEMMA LoopOutcome ==
    ASSUME ShapeInv, NEW t \in Tasks, NEW j \in ClosingShape,
           NEW cur \in [Adapters -> Nat], CloseOn(t, j, cur)
    PROVE  \/ Len(order) # j.size /\ job' = [job EXCEPT ![t] = Idle] /\ UNCHANGED open
           \/ /\ Len(order) = j.size
              /\ job' = [job EXCEPT ![t] = Idle] /\ UNCHANGED open
              /\ \A k \in Remaining(j.position) : current'[Entry(k)] = 0
           \/ /\ Len(order) = j.size
              /\ \E k \in Remaining(j.position) : StopsAt(t, j, cur, k)
<1> DEFINE rest    == Remaining(j.position)
           waiting == {k \in rest : cur[Entry(k)] \in open[Entry(k)]}
           next    == IF waiting = {} THEN Len(order) + 1 ELSE Min(waiting)
           passed  == {Entry(k) : k \in {i \in rest : i < next}}
<1>1. CASE Len(order) # j.size
  BY <1>1 DEF CloseOn
<1>2. CASE Len(order) = j.size
  <2>1. /\ current' = [a \in Adapters |-> IF a \in passed THEN 0 ELSE cur[a]]
        /\ \/ waiting = {} /\ job' = [job EXCEPT ![t] = Idle] /\ UNCHANGED open
           \/ waiting # {} /\ StartClosing(t, Entry(next), [j EXCEPT !.position = next], cur)
    BY <1>2 DEF CloseOn
  <2>2. rest \subseteq Nat /\ rest \subseteq DOMAIN order /\ \A k \in rest : k <= Len(order)
    BY DEF Remaining, ShapeInv, ClosingShape
  <2>3. \A k \in rest : Entry(k) \in Adapters
    <3> HIDE DEF rest
    <3> QED
      BY <2>2 DEF Entry, ShapeInv
  <2>4. \A k \in rest : k < next => current'[Entry(k)] = 0
    <3> HIDE DEF rest, next
    <3> QED
      BY <2>1, <2>3
  <2>5. CASE waiting = {}
    <3>1. \A k \in rest : k < Len(order) + 1
      <4> HIDE DEF rest
      <4>1. Len(order) \in Nat
        BY DEF ShapeInv
      <4> QED
        BY <2>2, <4>1
    <3>2. next = Len(order) + 1
      BY <2>5
    <3>3. \A k \in rest : current'[Entry(k)] = 0
      <4> HIDE DEF rest, next
      <4> QED
        BY <2>4, <3>1, <3>2
    <3> QED
      BY <1>2, <2>1, <2>5, <3>3
  <2>6. CASE waiting # {}
    <3>1. next \in waiting
      <4>1. waiting \subseteq Nat
        BY <2>2
      <4> QED
        BY <2>6, <4>1, MinIsIn
    <3>2. StartClosing(t, Entry(next), [j EXCEPT !.position = next], cur)
      BY <2>1, <2>6
    <3> HIDE DEF next
    <3>3. next \in rest /\ cur[Entry(next)] \in open[Entry(next)]
      BY <3>1
    <3>4. /\ open' = [open EXCEPT ![Entry(next)] = @ \ {cur[Entry(next)]}]
          /\ job' = [job EXCEPT ![t] = [j EXCEPT !.position = next, !.adapter = Entry(next),
                                                !.client = cur[Entry(next)]]]
      BY <3>2 DEF StartClosing, ClosingShape
    <3>5. Entry(next) \in Adapters /\ current'[Entry(next)] \in {0, cur[Entry(next)]}
      <4>1. Entry(next) \in Adapters
        BY <2>3, <3>3
      <4> HIDE DEF passed
      <4> QED
        BY <2>1, <4>1
    <3> HIDE DEF rest
    <3>6. \E k \in Remaining(j.position) : StopsAt(t, j, cur, k)
      <4>1. StopsAt(t, j, cur, next)
        BY <2>4, <3>3, <3>4, <3>5 DEF StopsAt, rest
      <4> QED
        BY <3>3, <4>1 DEF rest
    <3> QED
      BY <1>2, <3>6
  <2> QED
    BY <2>5, <2>6
<1> QED
  BY <1>1, <1>2

-----------------------------------------------------------------------------
(* What a step leaves of what is owed. *)

\* Closed after the step, or left to other closes.
PaidNext(d) == d[2] \notin open'[d[1]] \/ twice'[d[1]] > 0

\* Clients are made and closed, never opened again, and the history only grows.
Grows ==
    \A a \in Adapters :
        /\ twice[a] <= twice'[a]
        /\ made[a] <= made'[a]
        /\ \A k \in 1 .. made[a] : k \in open'[a] => k \in open[a]

\* Steps that make, close and count no client.
LEMMA NothingGrows == ASSUME ClientInv, UNCHANGED <<made, open, twice>> PROVE Grows
<1>1. \A a \in Adapters : twice[a] \in Nat /\ made[a] \in Nat
  BY DEF ClientInv, ShapeInv
<1> QED
  BY <1>1 DEF Grows

\* What was paid stays so.
LEMMA PaidStaysPaid ==
    ASSUME ClientInv, ClientInv', Grows, NEW d \in Adapters \X Nat, d[2] \in 1 .. made[d[1]],
           d[2] \notin open[d[1]] \/ twice[d[1]] > 0
    PROVE  PaidNext(d)
<1>1. d[1] \in Adapters /\ twice[d[1]] \in Nat /\ twice'[d[1]] \in Nat
  BY DEF ClientInv, ShapeInv
<1> QED
  BY <1>1 DEF Grows, PaidNext

\* A loop that a step does not touch owes what it owed, or less.
LEMMA LoopStays ==
    ASSUME ClientInv, ClientInv', Grows, UNCHANGED <<order, named>>,
           NEW t \in Tasks, LoopOf(t), job'[t] = job[t]
    PROVE  LoopOf(t)'
<1> SUFFICES ASSUME job[t].at = "closing" PROVE LoopOf(t)'
  BY DEF LoopOf
<1>1. job[t] \in ClosingShape
  BY ClosesAnAdapter DEF ClientInv
<1>2. \A d \in job[t].due : d \in Adapters \X Nat /\ d[2] \in 1 .. made[d[1]]
  BY <1>1 DEF ClosingShape, LoopOf
<1>3. \A d \in job[t].due : d[2] \in 1 .. made'[d[1]]
  <2> SUFFICES ASSUME NEW d \in job[t].due PROVE d[2] \in 1 .. made'[d[1]]
    OBVIOUS
  <2>1. /\ d[1] \in Adapters /\ d[2] \in 1 .. made[d[1]]
        /\ made[d[1]] \in Nat /\ made'[d[1]] \in Nat /\ made[d[1]] <= made'[d[1]]
    BY <1>2 DEF ClientInv, ShapeInv, Grows
  <2> QED
    BY <2>1
<1>4. \A d \in job[t].due : Owed(job[t], d) => Owed(job[t], d)'
  <2> SUFFICES ASSUME NEW d \in job[t].due, Owed(job[t], d) PROVE Owed(job[t], d)'
    OBVIOUS
  <2>1. CASE Ahead(job[t], d)
    BY <2>1 DEF Owed, Ahead, Remaining, Entry
  <2>2. CASE d[2] \notin open[d[1]] \/ twice[d[1]] > 0
    BY <1>2, <2>2, PaidStaysPaid DEF PaidNext, Owed
  <2> QED
    BY <2>1, <2>2 DEF Owed
<1> QED
  BY <1>3, <1>4 DEF LoopOf

\* The loop of close_all pays for the clients it comes by: what it owes when it
\* goes on is ahead of it, and when it ends nothing is.
LEMMA LoopPays ==
    ASSUME ClientInv, ClientInv', Grows, UNCHANGED <<order, named>>, NEW t \in Tasks,
           NEW j \in ClosingShape, Len(order) = j.size, NEW cur \in [Adapters -> Nat],
           CloseOn(t, j, cur), NEW d \in Adapters \X Nat, d[2] \in 1 .. made[d[1]], Owed(j, d)
    PROVE  \/ PaidNext(d)
           \/ job'[t].at = "closing" /\ Ahead(job'[t], d)
<1> SUFFICES ASSUME ~PaidNext(d) PROVE job'[t].at = "closing" /\ Ahead(job'[t], d)
  OBVIOUS
<1>1. d[1] \in Adapters /\ d[2] \in open'[d[1]] /\ d[2] = current'[d[1]] /\ d[2] # 0
  BY OnlyCurrentIsOpenNext DEF PaidNext
<1>2. PICK i \in Remaining(j.position) : Entry(i) = d[1]
  BY PaidStaysPaid DEF Owed, Ahead
<1>3. ShapeInv
  BY DEF ClientInv
<1>4. PICK k \in Remaining(j.position) : StopsAt(t, j, cur, k)
  BY <1>1, <1>2, <1>3, LoopOutcome
<1>5. i \in Nat /\ k \in Nat /\ j.position \in Nat /\ Len(order) \in Nat /\ i <= Len(order)
  BY <1>3 DEF Remaining, ClosingShape, ShapeInv
<1>6. job'[t].at = "closing" /\ job'[t].position = k
  BY <1>3, <1>4 DEF ShapeInv, ClosingShape, StopsAt
<1>7. ~(i < k)
  BY <1>1, <1>2, <1>4 DEF StopsAt
<1>8. Entry(k) # d[1]
  BY <1>1, <1>3, <1>4 DEF ShapeInv, StopsAt
<1>9. i \in Remaining(k)
  BY <1>2, <1>5, <1>7, <1>8 DEF Remaining
<1> QED
  BY <1>2, <1>6, <1>9 DEF Ahead

\* A loop that goes on keeps its account.
LEMMA LoopGoesOn ==
    ASSUME ClientInv, ClientInv', Grows, UNCHANGED <<order, named, made>>, NEW t \in Tasks,
           NEW j \in ClosingShape, NEW cur \in [Adapters -> Nat], CloseOn(t, j, cur),
           j.position <= j.size,
           \A d \in j.due : d[2] \in 1 .. made[d[1]],
           j.quiet => \A d \in j.due : Owed(j, d)
    PROVE  LoopOf(t)'
<1>1. ShapeInv
  BY DEF ClientInv
<1>2. SUFFICES ASSUME job'[t].at = "closing" PROVE LoopOf(t)'
  BY DEF LoopOf
<1>3. [job EXCEPT ![t] = Idle][t].at # "closing"
  BY <1>1 DEF ShapeInv, Idle
<1>4. PICK k \in Remaining(j.position) : Len(order) = j.size /\ StopsAt(t, j, cur, k)
  BY <1>1, <1>2, <1>3, LoopOutcome
<1>5. /\ job'[t].position = k /\ job'[t].size = j.size /\ job'[t].due = j.due
      /\ job'[t].quiet = j.quiet
  BY <1>1, <1>4 DEF ShapeInv, ClosingShape, StopsAt
<1>6. k <= j.size
  BY <1>1, <1>4 DEF Remaining, ShapeInv, ClosingShape
<1>7. ASSUME j.quiet, NEW d \in j.due PROVE Owed(job[t], d)'
  <2>1. d \in Adapters \X Nat /\ d[2] \in 1 .. made[d[1]]
    BY DEF ClosingShape
  <2>2. PaidNext(d) \/ Ahead(job'[t], d)
    BY <1>4, <1>7, <2>1, LoopPays
  <2>3. CASE PaidNext(d)
    BY <2>3 DEF PaidNext, Owed
  <2>4. CASE Ahead(job'[t], d)
    BY <2>4 DEF Ahead, Owed, Remaining, Entry
  <2> QED
    BY <2>2, <2>3, <2>4
<1>8. j.size <= Len(order')
  BY <1>1, <1>4 DEF ShapeInv
<1> QED
  BY <1>4, <1>5, <1>6, <1>7, <1>8 DEF LoopOf

\* Closing keeps the bounds and closes no client whose close has failed.
LEMMA SweptKeepsBounds ==
    ASSUME ClientInv, FailedInv, BoundInv, NEW t \in Tasks, NEW cur, Swept(t, cur),
           UNCHANGED <<made, order, failed>>
    PROVE  Grows /\ FailedInv' /\ BoundInv'
<1> USE DEF ClientInv
<1>1. \A u \in Tasks \ {t} : job'[u] = job[u]
  BY DEF Swept, ShapeInv
<1>2. \A a \in Adapters : open'[a] \subseteq open[a]
  BY DEF Swept, ShapeInv
<1>3. Grows
  <2> SUFFICES ASSUME NEW a \in Adapters
               PROVE  twice[a] <= twice'[a] /\ made[a] <= made'[a]
    BY <1>2 DEF Grows
  <2>1. twice[a] \in Nat /\ made[a] \in Nat /\ twice'[a] \in Nat
    BY DEF ShapeInv, Swept
  <2> QED
    BY <2>1 DEF Swept
<1>4. \/ job'[t] = Idle
      \/ /\ job'[t].at = "closing"
         /\ job'[t].client \notin failed[job'[t].adapter]
  <2>1. CASE job' = [job EXCEPT ![t] = Idle]
    BY <2>1 DEF ShapeInv
  <2>2. ASSUME NEW b \in Adapters, NEW n \in ClosingShape, n.adapter = b, n.client = cur[b],
               cur[b] \in open[b], job' = [job EXCEPT ![t] = n]
        PROVE  job'[t].at = "closing" /\ job'[t].client \notin failed[job'[t].adapter]
    <3>1. job'[t] = n /\ n.at = "closing"
      BY <2>2 DEF ShapeInv, ClosingShape
    <3> QED
      BY <2>2, <3>1 DEF FailedInv
  <2> QED
    BY <2>1, <2>2 DEF Swept
<1>5. FailedInv'
  <2>1. \A a \in Adapters : failed'[a] \subseteq (1 .. made'[a]) \ open'[a]
    BY <1>2 DEF FailedInv
  <2>2. \A u \in Tasks : job'[u].at = "closing" => job'[u].client \notin failed'[job'[u].adapter]
    BY <1>1, <1>4 DEF FailedInv, Idle
  <2> QED
    BY <2>1, <2>2 DEF FailedInv
<1>6. BoundInv'
  <2>1. job'[t].at \notin {"sending", "stream"}
    BY <1>4 DEF Idle
  <2> QED
    BY <1>1, <2>1 DEF BoundInv
<1> QED
  BY <1>3, <1>5, <1>6

\* So closing keeps the whole account when it keeps that of its own loop.
LEMMA SweptKeepsAccount ==
    ASSUME ClientInv, ClientInv', CloseInv, NEW t \in Tasks, NEW cur, Swept(t, cur),
           UNCHANGED <<made, tables, failed>>, Grows => LoopOf(t)'
    PROVE  CloseInv'
<1>1. Grows /\ FailedInv' /\ BoundInv'
  BY SweptKeepsBounds DEF CloseInv, tables
<1>2. ASSUME NEW u \in Tasks, u # t PROVE LoopOf(u)'
  <2>1. job'[u] = job[u]
    BY <1>2 DEF Swept, ClientInv, ShapeInv
  <2> QED
    BY <1>1, <2>1, LoopStays DEF CloseInv, tables
<1> QED
  BY <1>1, <1>2 DEF CloseInv

\* A step after which the same tasks close the same clients, and no client opens
\* but those made, keeps the loops; it has the bounds to show for itself.
LEMMA SameLoops ==
    ASSUME ClientInv, ClientInv', CloseInv, Grows, UNCHANGED <<order, named, failed>>,
           \A t \in Tasks : job'[t].at # "closing" \/ job'[t] = job[t],
           BoundInv'
    PROVE  CloseInv'
<1>1. ASSUME NEW t \in Tasks PROVE LoopOf(t)'
  <2>1. CASE job'[t] = job[t]
    BY <2>1, LoopStays DEF CloseInv
  <2>2. CASE job'[t].at # "closing"
    BY <2>2 DEF LoopOf
  <2> QED
    BY <2>1, <2>2
<1>2. FailedInv'
  <2>1. ASSUME NEW a \in Adapters PROVE failed'[a] \subseteq (1 .. made'[a]) \ open'[a]
    <3>1. made[a] \in Nat /\ made'[a] \in Nat /\ made[a] <= made'[a]
      BY DEF ClientInv, ShapeInv, Grows
    <3> QED
      BY <3>1 DEF CloseInv, FailedInv, Grows
  <2> QED
    BY <2>1 DEF CloseInv, FailedInv
<1> QED
  BY <1>1, <1>2 DEF CloseInv

\* A chat closes nothing, and its client is within the bound.
LEMMA ChatKeepsLoops ==
    ASSUME ClientInv, ClientInv', CloseInv, NEW t \in Tasks, NEW a \in Routes,
           NEW stream \in BOOLEAN, Chat(t, a, stream)
    PROVE  CloseInv'
<1> DEFINE r == Request(a, ClientFor(a), stream)
<1>0. a \in Adapters
  BY AdaptersAssumption DEF Routes, ClientInv, ShapeInv, AdaptersAssumption
<1>1. ClientFor(a) \in Clients /\ ClientFor(a) \in Nat
  BY AdaptersAssumption DEF Chat, GetClient, Clients, AdaptersAssumption
<1>2. r = Idle \/ (r.at \in {"sending", "stream"} /\ r.client = ClientFor(a))
  BY DEF Request
<1>3. \A u \in Tasks : job'[u] = IF u = t THEN r ELSE job[u]
  BY DEF Chat, ClientInv, ShapeInv
<1>4. UNCHANGED <<order, named, failed, twice>>
  BY DEF Chat, tables
<1>5. Grows /\ \A x \in Adapters : made'[x] <= MaxClients
  <2>1. CASE MustCreate(a)
    <3>1. /\ ClientFor(a) = made[a] + 1
          /\ made' = [made EXCEPT ![a] = @ + 1]
          /\ open' = [open EXCEPT ![a] = @ \cup {made[a] + 1}]
      BY <2>1 DEF Chat, GetClient, ClientFor
    <3>2. made[a] + 1 <= MaxClients
      BY <1>0, <1>1, <3>1, AdaptersAssumption DEF Clients, AdaptersAssumption, ClientInv, ShapeInv
    <3>3. \A x \in Adapters : made'[x] <= MaxClients
      BY <1>0, <3>1, <3>2 DEF ClientInv, ShapeInv, CloseInv, BoundInv
    <3>4. Grows
      BY <1>0, <1>4, <3>1 DEF Grows, ClientInv, ShapeInv
    <3> QED
      BY <3>3, <3>4
  <2>2. CASE ~MustCreate(a)
    <3>1. UNCHANGED <<made, open>>
      BY <2>2 DEF Chat, GetClient
    <3> QED
      BY <1>4, <3>1 DEF Grows, ClientInv, ShapeInv, CloseInv, BoundInv
  <2> QED
    BY <2>1, <2>2
<1>6. BoundInv'
  <2>1. \A u \in Tasks : job'[u].at \in {"sending", "stream"} => job'[u].client \in Clients
    <3> HIDE DEF r
    <3> QED
      BY <1>1, <1>2, <1>3 DEF CloseInv, BoundInv, Idle
  <2> QED
    BY <1>4, <1>5, <2>1 DEF CloseInv, BoundInv
<1>7. \A u \in Tasks : job'[u].at # "closing" \/ job'[u] = job[u]
  <2> HIDE DEF r
  <2> QED
    BY <1>2, <1>3 DEF Idle
<1> QED
  BY <1>4, <1>5, <1>6, <1>7, SameLoops

\* Neither does a stream that is iterated or a chat that ends.
LEMMA ChatGoesOnLoops ==
    ASSUME ClientInv, ClientInv', CloseInv, NEW t \in Tasks, IterateStream(t) \/ ChatEnds(t)
    PROVE  CloseInv'
<1>1. UNCHANGED <<clients, tables, twice, failed>>
  BY DEF IterateStream, ChatEnds
<1>2. job[t] \in JobShape /\ job[t].at \in {"sending", "stream"} /\ job[t].client \in Clients
  BY DEF IterateStream, ChatEnds, ClientInv, ShapeInv, CloseInv, BoundInv
<1>3. job'[t] = Idle \/ (job'[t].at = "sending" /\ job'[t].client = job[t].client)
  <2>1. [job[t] EXCEPT !.at = "sending"].at = "sending"
        /\ [job[t] EXCEPT !.at = "sending"].client = job[t].client
    BY <1>2 DEF JobShape, ClosingShape, Idle
  <2> QED
    BY <2>1 DEF IterateStream, ChatEnds, ClientInv, ShapeInv
<1>4. \A u \in Tasks \ {t} : job'[u] = job[u]
  BY DEF IterateStream, ChatEnds, ClientInv, ShapeInv
<1>5. Grows
  BY <1>1, NothingGrows DEF clients
<1>6. BoundInv'
  BY <1>1, <1>2, <1>3, <1>4 DEF CloseInv, BoundInv, clients, tables, Idle
<1> QED
  BY <1>1, <1>3, <1>4, <1>5, <1>6, SameLoops DEF tables, Idle

\* close owes nothing but the one client.
LEMMA CloseKeepsLoops ==
    ASSUME ClientInv, ClientInv', CloseInv, NEW t \in Tasks, NEW a \in Adapters, Close(t, a)
    PROVE  CloseInv'
<1>0. UNCHANGED <<made, tables, failed>>
  BY DEF Close
<1>1. CASE current[a] \in open[a] /\ UNCHANGED <<current, twice>>
           /\ StartClosing(t, a, ClosingJob(0, {}), current)
  <2>1. current \in [Adapters -> Nat] /\ twice \in [Adapters -> Nat] /\ ShapeInv
    BY DEF ClientInv, ShapeInv
  <2>2. Swept(t, current)
    BY <1>1, <2>1, ClosingJobShape, StartSweeps DEF Swept
  <2>3. job'[t] = [ClosingJob(0, {}) EXCEPT !.adapter = a, !.client = current[a]]
    BY <1>1, <2>1 DEF StartClosing, ShapeInv
  <2>4. job'[t].position = 0 /\ job'[t].size = Len(order) /\ job'[t].due = {}
    BY <2>3 DEF ClosingJob
  <2>5. LoopOf(t)'
    BY <1>0, <2>1, <2>4 DEF LoopOf, tables, ShapeInv
  <2> QED
    BY <1>0, <2>2, <2>5, SweptKeepsAccount
<1>2. CASE current[a] \notin open[a] /\ CloseAtOnce(a) /\ UNCHANGED <<open, job>>
  <2>1. Grows
    BY <1>0, <1>2 DEF CloseAtOnce, Grows, ClientInv, ShapeInv
  <2>2. BoundInv'
    BY <1>0, <1>2 DEF BoundInv, CloseInv, tables
  <2> QED
    BY <1>0, <1>2, <2>1, <2>2, SameLoops DEF tables
<1> QED
  BY <1>1, <1>2 DEF Close

\* close_all owes the clients of the registered adapters, all of them ahead.
LEMMA CloseAllKeepsLoops ==
    ASSUME ClientInv, ClientInv', CloseInv, NEW t \in Tasks, CloseAll(t)
    PROVE  CloseInv'
<1> DEFINE j == ClosingJob(0, DueNow)
<1>1. ShapeInv /\ current \in [Adapters -> Nat] /\ j \in ClosingShape
      /\ UNCHANGED <<made, tables, failed>> /\ CloseOn(t, j, current)
  BY ClosingJobShape DEF CloseAll, ClientInv, ShapeInv
<1>2. Swept(t, current)
  BY <1>1, LoopSweeps
<1>3. j.position = 0 /\ j.size = Len(order) /\ j.due = DueNow /\ Len(order) \in Nat
  BY <1>1 DEF ClosingJob, ShapeInv
<1>4. ASSUME NEW d \in DueNow PROVE d[2] \in 1 .. made[d[1]] /\ \E k \in DOMAIN order : Entry(k) = d[1]
  <2>1. PICK k \in DOMAIN order : d = <<Entry(k), current[Entry(k)]>> /\ current[Entry(k)] # 0
    BY DEF DueNow
  <2>2. Entry(k) \in Adapters /\ d[1] = Entry(k) /\ d[2] = current[Entry(k)]
    BY <1>1, <2>1 DEF ShapeInv, Entry
  <2>3. current[Entry(k)] \in Nat /\ made[Entry(k)] \in Nat /\ current[Entry(k)] <= made[Entry(k)]
    BY <2>2 DEF ClientInv, ShapeInv, NumberInv
  <2> QED
    BY <2>1, <2>2, <2>3
<1>5. \A d \in DueNow : Owed(j, d)
  <2>1. Remaining(0) = DOMAIN order
    BY <1>1 DEF Remaining, ShapeInv
  <2> HIDE DEF j
  <2> QED
    BY <1>3, <1>4, <2>1 DEF Owed, Ahead
<1>6. Grows => LoopOf(t)'
  <2> HIDE DEF j
  <2> QED
    BY <1>1, <1>3, <1>4, <1>5, LoopGoesOn DEF tables
<1> QED
  BY <1>1, <1>2, <1>6, SweptKeepsAccount

\* A close that ends lets close_all go on.
LEMMA CloseEndsKeepsLoops ==
    ASSUME ClientInv, ClientInv', CloseInv, NEW t \in Tasks, CloseEnds(t)
    PROVE  CloseInv'
<1> DEFINE j   == job[t]
           cur == Forgotten(j.adapter)
<1>1. /\ j.at = "closing" /\ j \in ClosingShape /\ j.adapter \in Adapters
      /\ UNCHANGED <<made, tables, failed>> /\ ShapeInv
  BY ClosesAnAdapter DEF CloseEnds, ClientInv
<1>2. cur \in [Adapters -> Nat]
  BY <1>1 DEF Forgotten, ShapeInv
<1>3. CASE j.position = 0
  <2>1. /\ current' = cur /\ job' = [job EXCEPT ![t] = Idle]
        /\ UNCHANGED <<open, twice>> /\ twice \in [Adapters -> Nat]
    BY <1>1, <1>3 DEF CloseEnds, ShapeInv
  <2>2. Swept(t, cur)
    <3> HIDE DEF cur
    <3> QED
      BY <1>2, <2>1 DEF Swept
  <2>3. LoopOf(t)'
    BY <1>1, <2>1 DEF LoopOf, ShapeInv, Idle
  <2> HIDE DEF cur
  <2> QED
    BY <1>1, <2>2, <2>3, SweptKeepsAccount
<1>4. CASE j.position # 0
  <2>1. CloseOn(t, j, cur)
    BY <1>4 DEF CloseEnds
  <2>2. Swept(t, cur)
    <3> HIDE DEF cur, j
    <3> QED
      BY <1>1, <1>2, <2>1, LoopSweeps
  <2>3. /\ j.position <= j.size
        /\ \A d \in j.due : d[2] \in 1 .. made[d[1]]
        /\ j.quiet => \A d \in j.due : Owed(j, d)
    <3>1. j.position > 0
      BY <1>1, <1>4 DEF ClosingShape
    <3> QED
      BY <1>1, <3>1 DEF CloseInv, LoopOf
  <2>4. Grows => LoopOf(t)'
    <3> HIDE DEF cur, j
    <3> QED
      BY <1>1, <1>2, <2>1, <2>3, LoopGoesOn DEF tables
  <2> HIDE DEF cur
  <2> QED
    BY <1>1, <2>2, <2>4, SweptKeepsAccount
<1> QED
  BY <1>3, <1>4

\* A close that raises ends its loop; no other task was closing that client.
LEMMA CloseRaisesKeepsLoops ==
    ASSUME ClientInv, ClientInv', CloseInv, NEW t \in Tasks, CloseRaises(t)
    PROVE  CloseInv'
<1> DEFINE b == job[t].adapter
           k == job[t].client
<1>1. /\ b \in Adapters /\ k \in 1 .. made[b] /\ k \notin open[b] /\ job[t].at = "closing"
      /\ failed' = [failed EXCEPT ![b] = @ \cup {k}]
      /\ job' = [job EXCEPT ![t] = Idle]
      /\ UNCHANGED <<clients, tables, twice>>
  BY ClosesAnAdapter DEF CloseRaises, ClientInv, NumberInv
<1>2. \A u \in Tasks : job'[u] = IF u = t THEN Idle ELSE job[u]
  BY <1>1 DEF ClientInv, ShapeInv
<1>3. \A u \in Tasks : job'[u].at = "closing" =>
        u # t /\ job'[u] = job[u] /\ ~(job[u].adapter = b /\ job[u].client = k)
        /\ job[u].adapter \in Adapters
  BY <1>1, <1>2, ClosesAnAdapter DEF ClientInv, NumberInv, Idle
<1>4. FailedInv'
  <2> HIDE DEF b, k
  <2>1. \A a \in Adapters : failed'[a] = IF a = b THEN failed[a] \cup {k} ELSE failed[a]
    BY <1>1 DEF ClientInv, ShapeInv
  <2> QED
    BY <1>1, <1>3, <2>1 DEF CloseInv, FailedInv, clients
<1>5. BoundInv'
  BY <1>1, <1>2 DEF CloseInv, BoundInv, clients, tables, Idle
<1>6. Grows
  BY <1>1, NothingGrows DEF clients
<1>7. ASSUME NEW u \in Tasks PROVE LoopOf(u)'
  <2>1. CASE job'[u] = job[u]
    <3>1. UNCHANGED <<order, named>>
      BY <1>1 DEF tables
    <3> QED
      BY <1>6, <2>1, <3>1, LoopStays DEF CloseInv
  <2>2. CASE job'[u].at # "closing"
    BY <2>2 DEF LoopOf
  <2> QED
    BY <1>3, <2>1, <2>2
<1> QED
  BY <1>4, <1>5, <1>7 DEF CloseInv

\* A registration ends the quiet of the loops, and adds a name at most once.
LEMMA TablesKeepLoops ==
    ASSUME ClientInv, ClientInv', CloseInv,
           \/ \E n \in Names, a \in Adapters : Register(n, a)
           \/ \E r \in Roles, a \in Adapters : ConfigureRole(r, a)
    PROVE  CloseInv'
<1>1. ASSUME NEW n \in Names, NEW a \in Adapters, Register(n, a) PROVE CloseInv'
  <2>1. order \in Seq(Names) /\ Len(order) \in Nat /\ DOMAIN order = 1 .. Len(order)
        /\ UNCHANGED <<clients, twice, failed>>
    BY <1>1 DEF ClientInv, ShapeInv, Register
  <2>2. Len(order) <= Len(order') /\ \A i, k \in DOMAIN order' : order'[i] = order'[k] => i = k
    <3>1. CASE order' = order
      BY <2>1, <3>1 DEF CloseInv, BoundInv
    <3>2. CASE order' = Append(order, n) /\ \A i \in DOMAIN order : order[i] # n
      <4>1. Len(order') = Len(order) + 1
            /\ \A i \in DOMAIN order' : order'[i] = IF i \in DOMAIN order THEN order[i] ELSE n
        BY <2>1, <3>2
      <4>2. DOMAIN order' = 1 .. Len(order) + 1
        BY <2>1, <3>2
      <4>3. ASSUME NEW i \in DOMAIN order', NEW k \in DOMAIN order', order'[i] = order'[k]
            PROVE  i = k
        <5>1. CASE i \in DOMAIN order /\ k \in DOMAIN order
          BY <4>1, <4>3, <5>1 DEF CloseInv, BoundInv
        <5>2. CASE i \in DOMAIN order /\ k \notin DOMAIN order
          BY <3>2, <4>1, <4>3, <5>2
        <5>3. CASE i \notin DOMAIN order /\ k \in DOMAIN order
          BY <3>2, <4>1, <4>3, <5>3
        <5>4. CASE i \notin DOMAIN order /\ k \notin DOMAIN order
          BY <2>1, <4>2, <5>4
        <5> QED
          BY <5>1, <5>2, <5>3, <5>4
      <4> QED
        BY <2>1, <4>1, <4>3
    <3> QED
      BY <1>1, <3>1, <3>2 DEF Register, OrderWith
  <2>3. ASSUME NEW t \in Tasks
        PROVE  \/ job'[t].at # "closing" /\ job'[t] = job[t]
               \/ /\ job'[t].at = "closing" /\ job[t].at = "closing" /\ ~job'[t].quiet
                  /\ job'[t].adapter = job[t].adapter /\ job'[t].client = job[t].client
                  /\ job'[t].position = job[t].position /\ job'[t].size = job[t].size
                  /\ job'[t].due = job[t].due
                  /\ job[t] \in ClosingShape
    <3>1. CASE job[t].at # "closing"
      BY <1>1, <3>1 DEF Register
    <3>2. CASE job[t].at = "closing"
      <4>1. job[t] \in ClosingShape
        BY <3>2, ClosesAnAdapter DEF ClientInv
      <4>2. job'[t] = [job[t] EXCEPT !.quiet = FALSE]
        BY <1>1, <3>2 DEF Register
      <4> QED
        BY <3>2, <4>1, <4>2 DEF ClosingShape
    <3> QED
      BY <3>1, <3>2
  <2>4. ASSUME NEW t \in Tasks PROVE LoopOf(t)'
    <3> SUFFICES ASSUME job'[t].at = "closing" PROVE LoopOf(t)'
      BY DEF LoopOf
    <3>1. job[t].size \in Nat /\ job[t].size <= Len(order)
      BY <2>3 DEF CloseInv, LoopOf, ClosingShape
    <3>2. Len(order') \in Nat
      BY DEF ClientInv, ShapeInv
    <3>3. job[t].size <= Len(order')
      BY <2>1, <2>2, <3>1, <3>2
    <3> QED
      BY <2>1, <2>3, <3>3 DEF LoopOf, CloseInv, clients
  <2>5. FailedInv' /\ BoundInv'
    BY <2>1, <2>2, <2>3 DEF FailedInv, BoundInv, CloseInv, clients
  <2> QED
    BY <2>4, <2>5 DEF CloseInv
<1>2. ASSUME NEW r \in Roles, NEW a \in Adapters, ConfigureRole(r, a) PROVE CloseInv'
  <2>1. UNCHANGED <<clients, order, named, job, twice, failed>>
    BY <1>2 DEF ConfigureRole
  <2>2. Grows
    BY <2>1, NothingGrows DEF clients
  <2>3. BoundInv'
    BY <2>1 DEF clients, CloseInv, BoundInv
  <2> QED
    BY <2>1, <2>2, <2>3, SameLoops
<1> QED
  BY <1>1, <1>2

\* Every step keeps the account of the loops.
LEMMA LoopsStep == ClientInv /\ CloseInv /\ [Next]_vars => CloseInv'
<1> SUFFICES ASSUME ClientInv, CloseInv, [Next]_vars PROVE CloseInv'
  OBVIOUS
<1>0. ClientInv'
  BY ClientStep
<1>1. CASE UNCHANGED vars
  <2>1. Grows
    BY <1>1 DEF vars, clients, Grows, ClientInv, ShapeInv
  <2>2. BoundInv'
    BY <1>1 DEF vars, clients, tables, CloseInv, BoundInv
  <2> QED
    BY <1>0, <1>1, <2>1, <2>2, SameLoops DEF vars, tables
<1>2. ASSUME NEW t \in Tasks, NEW a \in Routes, NEW stream \in BOOLEAN, Chat(t, a, stream)
      PROVE  CloseInv'
  BY <1>0, <1>2, ChatKeepsLoops
<1>3. ASSUME NEW t \in Tasks, IterateStream(t) \/ ChatEnds(t) PROVE CloseInv'
  BY <1>0, <1>3, ChatGoesOnLoops
<1>4. ASSUME NEW t \in Tasks, NEW a \in Adapters, Close(t, a) PROVE CloseInv'
  BY <1>0, <1>4, CloseKeepsLoops
<1>5. ASSUME NEW t \in Tasks, CloseAll(t) PROVE CloseInv'
  BY <1>0, <1>5, CloseAllKeepsLoops
<1>6. ASSUME NEW t \in Tasks, CloseEnds(t) PROVE CloseInv'
  BY <1>0, <1>6, CloseEndsKeepsLoops
<1>7. ASSUME NEW t \in Tasks, CloseRaises(t) PROVE CloseInv'
  BY <1>0, <1>7, CloseRaisesKeepsLoops
<1>8. CASE \/ \E n \in Names, a \in Adapters : Register(n, a)
           \/ \E r \in Roles, a \in Adapters : ConfigureRole(r, a)
  BY <1>0, <1>8, TablesKeepLoops
<1>9. CASE Next
  BY <1>2, <1>3, <1>4, <1>5, <1>6, <1>7, <1>8, <1>9 DEF Next
<1> QED
  BY <1>1, <1>9

\* At first no loop runs.
LEMMA LoopsInit == Init => CloseInv
BY AdaptersAssumption DEF Init, CloseInv, LoopOf, FailedInv, BoundInv, Idle, AdaptersAssumption

\* The adapters' state keeps its types; an adapter makes clients up to the bound,
\* a client whose close raised is not open, a name is in the registry once, and no
\* close_all runs past the entries it began with.
THEOREM AdaptersTyping == Spec => []AdaptersTypeOK
<1>1. ASSUME ClientInv, CloseInv PROVE AdaptersTypeOK
  <2> USE AdaptersAssumption DEF AdaptersAssumption
  <2>1. \A a \in Adapters :
          /\ made[a] \in 0 .. MaxClients
          /\ current[a] \in 0 .. MaxClients
          /\ open[a] \subseteq 1 .. made[a] /\ current[a] <= made[a]
    BY <1>1 DEF ClientInv, ShapeInv, NumberInv, CloseInv, BoundInv
  <2>2. ASSUME NEW t \in Tasks PROVE job[t] \in Jobs
    <3>1. CASE job[t].at = "closing"
      <4>1. job[t] \in ClosingShape
        BY <1>1, <3>1, ClosesAnAdapter DEF ClientInv
      <4>2. job[t].client \in Clients
        BY <1>1, <2>1, <3>1, <4>1 DEF ClientInv, NumberInv, Clients, ClosingShape
      <4>3. job[t].due \subseteq Adapters \X Clients
        <5> SUFFICES ASSUME NEW d \in job[t].due PROVE d \in Adapters \X Clients
          OBVIOUS
        <5>1. d \in Adapters \X Nat /\ d[2] \in 1 .. made[d[1]]
          BY <1>1, <3>1, <4>1 DEF ClosingShape, CloseInv, LoopOf
        <5>2. d[2] \in Clients
          BY <2>1, <5>1 DEF Clients
        <5> QED
          BY <5>1, <5>2
      <4> QED
        BY <4>1, <4>2, <4>3 DEF ClosingShape, Jobs
    <3>2. CASE job[t].at # "closing"
      BY <1>1, <3>2 DEF ClientInv, ShapeInv, JobShape, ClosingShape, Jobs, CloseInv, BoundInv
    <3> QED
      BY <3>1, <3>2
  <2>3. \A t \in Tasks : job[t].at = "closing" =>
          job[t].position <= job[t].size /\ job[t].size <= Len(order)
    BY <1>1 DEF CloseInv, LoopOf
  <2>4. /\ current \in [Adapters -> 0 .. MaxClients]
        /\ made \in [Adapters -> 0 .. MaxClients]
    BY <1>1, <2>1 DEF ClientInv, ShapeInv
  <2>5. /\ \A i, k \in DOMAIN order : order[i] = order[k] => i = k
        /\ \A a \in Adapters : failed[a] \subseteq (1 .. made[a]) \ open[a]
    BY <1>1 DEF CloseInv, BoundInv, FailedInv
  <2> QED
    BY <1>1, <2>1, <2>2, <2>3, <2>4, <2>5 DEF AdaptersTypeOK, ClientInv, ShapeInv
<1> QED
  BY <1>1, ClientInit, ClientStep, LoopsInit, LoopsStep, PTL DEF Spec

\* close_all keeps its word whenever it returns: with no failure, no registration
\* and no overlapping close, the clients the registered adapters had when it
\* began are all closed, whatever chats and other loops did meanwhile.
THEOREM CloseAllKeepsItsWord == Spec => CloseAllClosesAll
<1>1. ASSUME ClientInv, ClientInv', CloseInv, [Next]_vars, NEW t \in Tasks,
             job[t].at = "closing", job[t].position > 0, job'[t] = Idle, job[t].quiet,
             failed' = failed, NEW d \in job[t].due
      PROVE  twice'[d[1]] > 0 \/ d[2] \notin open'[d[1]]
  <2>1. ShapeInv /\ job[t] # Idle /\ job'[t] # job[t] /\ Idle.at = "idle"
    BY <1>1 DEF Idle, ClientInv
  <2>2. /\ job[t] \in ClosingShape /\ job[t].adapter \in Adapters
        /\ job[t].client \notin failed[job[t].adapter]
        /\ job[t].position <= job[t].size /\ job[t].size = Len(order)
        /\ d \in Adapters \X Nat /\ d[2] \in 1 .. made[d[1]] /\ Owed(job[t], d)
    <3>1. job[t] \in ClosingShape /\ job[t].adapter \in Adapters
      BY <1>1, <2>1, ClosesAnAdapter
    <3> QED
      BY <1>1, <3>1 DEF CloseInv, LoopOf, FailedInv, ClosingShape
  <2>3. CloseEnds(t)
    <3>1. ~CloseRaises(t)
      <4>1. CloseRaises(t) => job[t].client \in failed'[job[t].adapter]
        BY <2>1, <2>2 DEF CloseRaises, ShapeInv
      <4> QED
        BY <1>1, <2>2, <4>1
    <3>2. ASSUME NEW u \in Tasks,
                 \/ \E a \in Routes, stream \in BOOLEAN : Chat(u, a, stream)
                 \/ \E a \in Adapters : Close(u, a)
                 \/ CloseAll(u)
          PROVE  FALSE
      <4>1. job[u] = Idle
        BY <3>2 DEF Chat, Close, CloseAll
      <4>2. \A v \in Tasks \ {u} : job'[v] = job[v]
        BY <2>1, <3>2 DEF Chat, Close, CloseAll, CloseOn, StartClosing, ShapeInv
      <4> QED
        BY <2>1, <4>1, <4>2
    <3>3. ASSUME NEW u \in Tasks, IterateStream(u) \/ ChatEnds(u) PROVE FALSE
      BY <1>1, <2>1, <3>3 DEF IterateStream, ChatEnds, ShapeInv
    <3>4. ASSUME NEW u \in Tasks \ {t}, CloseEnds(u) \/ CloseRaises(u) PROVE FALSE
      BY <2>1, <3>4 DEF CloseEnds, CloseRaises, CloseOn, StartClosing, ShapeInv
    <3>5. ~ \E n \in Names, a \in Adapters : Register(n, a)
      <4> SUFFICES ASSUME NEW n \in Names, NEW a \in Adapters, Register(n, a) PROVE FALSE
        OBVIOUS
      <4>1. job'[t] = [job[t] EXCEPT !.quiet = FALSE]
        BY <1>1 DEF Register
      <4>2. job'[t].at = "closing"
        BY <1>1, <2>2, <4>1 DEF ClosingShape
      <4> QED
        BY <1>1, <2>1, <4>2
    <3>6. ~ \E r \in Roles, a \in Adapters : ConfigureRole(r, a)
      BY <2>1 DEF ConfigureRole
    <3>7. ~UNCHANGED vars
      BY <2>1 DEF vars
    <3> QED
      BY <1>1, <3>1, <3>2, <3>3, <3>4, <3>5, <3>6, <3>7 DEF Next
  <2> DEFINE j   == job[t]
             cur == Forgotten(j.adapter)
  <2>4. CloseOn(t, j, cur) /\ UNCHANGED <<made, tables, failed>>
    BY <1>1, <2>2, <2>3 DEF CloseEnds, ClosingShape
  <2>5. cur \in [Adapters -> Nat]
    BY <2>1, <2>2 DEF Forgotten, ShapeInv
  <2> HIDE DEF cur
  <2>6. Grows
    <3>1. Swept(t, cur)
      BY <2>1, <2>2, <2>4, <2>5, LoopSweeps
    <3> QED
      BY <1>1, <2>4, <3>1, SweptKeepsBounds DEF CloseInv, tables
  <2>7. PaidNext(d) \/ job'[t].at = "closing"
    BY <1>1, <2>2, <2>4, <2>5, <2>6, LoopPays DEF tables
  <2> QED
    BY <1>1, <2>1, <2>7 DEF PaidNext
<1>2. ClientInv /\ ClientInv' /\ CloseInv /\ [Next]_vars =>
        [\A t \in Tasks :
            job[t].at = "closing" /\ job[t].position > 0 /\ job'[t] = Idle
            /\ job[t].quiet /\ failed' = failed
            => \A d \in job[t].due : twice'[d[1]] > 0 \/ d[2] \notin open'[d[1]]]_vars
  BY <1>1
<1> QED
  BY <1>2, ClientInit, ClientStep, LoopsInit, LoopsStep, PTL DEF Spec, CloseAllClosesAll
=============================================================================
