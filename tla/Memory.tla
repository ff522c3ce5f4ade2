-------------------------------- MODULE Memory --------------------------------
(***************************************************************************)
(* core/memory/store.py: the table of memories in one SQLite file, shared  *)
(* by the connections of the session, of the memory tools, which open one  *)
(* per call, and of other noman processes.                                 *)
(*                                                                         *)
(* SQLite (external) gives the first write statement of a transaction the  *)
(* file's one write lock, shows other connections the table as of the last *)
(* commit, and rolls back when the process dies.  A statement that finds   *)
(* the lock taken raises OperationalError and changes nothing.             *)
(***************************************************************************)
EXTENDS Integers, FiniteSets

CONSTANTS Connections, NoConnection, NoRow,
          Memories,      \* (tier, scope, key), unique in the table
          Ttl            \* days until an episodic memory expires

ASSUME MemoryAssumption == NoConnection \notin Connections /\ Ttl \in Nat

VARIABLES connected,     \* open connections
          rows,          \* the committed table
          writer,        \* the connection in a transaction
          working,       \* the table as that connection sees it
          deleting,      \* the memory its forget has marked, if it is a forget
          forgotten      \* history: memories whose forget has returned True

memoryVars == <<connected, rows, writer, working, deleting, forgotten>>

Forever == -1     \* the semantic and procedural tiers never expire

\* is_valid, and the days left of expires_at, 0 when expired.
Row == [valid : BOOLEAN, left : (0 .. Ttl) \cup {Forever}]

Table == [Memories -> Row \cup {NoRow}]

MemoryTypeOK ==
    /\ connected \subseteq Connections
    /\ rows \in Table
    /\ writer \in connected \cup {NoConnection}
    /\ working \in Table
    /\ deleting \subseteq Memories
    /\ forgotten \subseteq Memories

\* The file may come from another release, whose remember worked.
MemoryInit ==
    /\ connected = {}
    /\ rows \in [Memories -> {NoRow} \cup {r \in Row : r.valid /\ r.left \in {Ttl, Forever}}]
    /\ writer = NoConnection
    /\ working = rows
    /\ deleting = {}
    /\ forgotten = {}

-----------------------------------------------------------------------------

\* _ensure_db: the table is there already, or empty.
Connect(c) ==
    /\ c \notin connected
    /\ connected' = connected \cup {c}
    /\ UNCHANGED <<rows, writer, working, deleting, forgotten>>

\* close(), or the end of the process; what is not committed is rolled back.
Disconnect(c) ==
    /\ c \in connected
    /\ connected' = connected \ {c}
    /\ IF writer = c THEN writer' = NoConnection /\ working' = rows /\ deleting' = {}
                     ELSE UNCHANGED <<writer, working, deleting>>
    /\ UNCHANGED <<rows, forgotten>>

\* The INSERT lists nine columns and ten placeholders.  SQLite refuses to compile
\* it, with an OperationalError, which remember does not catch.
Remember(c) == c \in connected /\ writer # c /\ UNCHANGED memoryVars

Begin(c, table, marked) ==
    /\ c \in connected
    /\ writer = NoConnection
    /\ writer' = c
    /\ working' = table
    /\ deleting' = marked
    /\ UNCHANGED <<connected, rows, forgotten>>

Matching(m) == IF rows[m] = NoRow THEN {} ELSE {m}

Invalidated(m) == IF rows[m] = NoRow THEN rows ELSE [rows EXCEPT ![m].valid = FALSE]

Forget(c, m) == Begin(c, Invalidated(m), Matching(m))

Expired(row) == row # NoRow /\ row.left = 0

\* cleanup_expired deletes, whether valid or not.
Cleanup(c) == Begin(c, [m \in Memories |-> IF Expired(rows[m]) THEN NoRow ELSE rows[m]], {})

NotCommitted == rows            \* variant: forget and cleanup do not commit

Committed == working

\* commit, and the return of forget or cleanup_expired.
Commit(c) ==
    /\ writer = c
    /\ writer # NoConnection
    /\ rows' = Committed
    /\ writer' = NoConnection
    /\ working' = Committed
    /\ forgotten' = forgotten \cup deleting
    /\ deleting' = {}
    /\ UNCHANGED connected

\* A day passes, between transactions.
Aged(table) == [m \in Memories |->
    IF table[m] # NoRow /\ table[m].left \in 1 .. Ttl THEN [table[m] EXCEPT !.left = @ - 1] ELSE table[m]]

Day ==
    /\ writer = NoConnection
    /\ rows' = Aged(rows)
    /\ working' = rows'
    /\ UNCHANGED <<connected, writer, deleting, forgotten>>

MemoryNext ==
    \/ \E c \in Connections :
         \/ Connect(c) \/ Disconnect(c) \/ Remember(c) \/ Cleanup(c) \/ Commit(c)
         \/ \E m \in Memories : Forget(c, m)
    \/ Day

MemorySpec == MemoryInit /\ [][MemoryNext]_memoryVars

-----------------------------------------------------------------------------

\* What recall can answer a connection with, for the widest query and limit:
\* valid rows, expired or not.
Recall(c) ==
    LET table == IF writer = c THEN working ELSE rows
    IN {m \in Memories : table[m] # NoRow /\ table[m].valid}

\* A memory whose forget has returned True is never recalled again, by no
\* connection, also when processes die in the middle of a forget or a cleanup and
\* whatever transactions were open meanwhile.  It rests on remember failing for every
\* memory: its UPDATE of a key that exists would make the forgotten row valid again.
ForgetIsDurable == \A c \in connected : Recall(c) \cap forgotten = {}
=============================================================================
