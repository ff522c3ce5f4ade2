------------------------------ MODULE Adapters --------------------------------
(***************************************************************************)
(* core/adapters: the HTTP client each adapter makes lazily and closes,    *)
(* the registry that closes all adapters and the router in front of them,  *)
(* used by several asyncio tasks.                                          *)
(*                                                                         *)
(* A task suspends only while httpx (external) sends a request or closes   *)
(* its connections.  httpx marks a client closed before it suspends in     *)
(* aclose, refuses requests on a closed client at once, and returns at     *)
(* once from a second aclose.                                              *)
(***************************************************************************)
EXTENDS Integers, Sequences, FiniteSets, FiniteSetsExt

CONSTANTS Tasks,        \* asyncio tasks that use the adapters
          Adapters,     \* adapter objects (OpenAI-compatible or Anthropic)
          Default,      \* the router's default adapter
          Names,        \* names in the AdapterRegistry
          Roles,        \* roles of the router
          MaxClients    \* bound: clients an adapter makes

ASSUME AdaptersAssumption == Default \in Adapters /\ MaxClients \in Nat

VARIABLES current,      \* _client: the number of the adapter's client, 0 for None
          made,         \* clients the adapter has made so far
          open,         \* those of them that are not closed
          order,        \* the keys of the registry's _adapters, in order
          named,        \* the registry's adapter of each name
          roleAdapter,  \* _roles of the router; the default where none is set
          job,          \* what each task is suspended in
          twice,        \* history: closes that found their client closed already
          failed        \* history: clients whose aclose raised

clients == <<current, made, open>>
tables  == <<order, named, roleAdapter>>
vars    == <<clients, tables, job, twice, failed>>

Idle == [at |-> "idle"]

Clients == 1 .. MaxClients

\* "closing" at position 0 is a plain close(), else close_all at that entry.
Jobs ==
    {Idle} \cup [at : {"sending", "stream"}, adapter : Adapters, client : Clients]
           \cup [at : {"closing"}, adapter : Adapters, client : Clients,
                 position : Nat, size : Nat,
                 due : SUBSET (Adapters \X Clients), quiet : BOOLEAN]

AdaptersTypeOK ==
    /\ current \in [Adapters -> 0 .. MaxClients]
    /\ made \in [Adapters -> 0 .. MaxClients]
    /\ \A a \in Adapters : open[a] \subseteq 1 .. made[a] /\ current[a] <= made[a]
    /\ order \in Seq(Names)
    /\ \A i, j \in DOMAIN order : order[i] = order[j] => i = j
    /\ named \in [Names -> Adapters]
    /\ roleAdapter \in [Roles -> Adapters]
    /\ \A t \in Tasks :
         /\ job[t] \in Jobs
         /\ job[t].at = "closing" => job[t].position <= job[t].size /\ job[t].size <= Len(order)
    /\ twice \in [Adapters -> Nat]
    /\ \A a \in Adapters : failed[a] \subseteq (1 .. made[a]) \ open[a]

Init ==
    /\ current = [a \in Adapters |-> 0]
    /\ made = [a \in Adapters |-> 0]
    /\ open = [a \in Adapters |-> {}]
    /\ order = << >>
    /\ named = [n \in Names |-> Default]
    /\ roleAdapter = [r \in Roles |-> Default]
    /\ job = [t \in Tasks |-> Idle]
    /\ twice = [a \in Adapters |-> 0]
    /\ failed = [a \in Adapters |-> {}]

-----------------------------------------------------------------------------
(* Chats. *)

AlwaysNew(a) == TRUE                 \* variant: the client is not kept

MustCreate(a) == current[a] = 0

\* The client _get_client answers with.
ClientFor(a) == IF MustCreate(a) THEN made[a] + 1 ELSE current[a]

GetClient(a) ==
    /\ ClientFor(a) \in Clients
    /\ current' = [current EXCEPT ![a] = ClientFor(a)]
    /\ made' = IF MustCreate(a) THEN [made EXCEPT ![a] = @ + 1] ELSE made
    /\ open' = IF MustCreate(a) THEN [open EXCEPT ![a] = @ \cup {ClientFor(a)}] ELSE open

\* RoleRouter.get_adapter: an unknown role, or none, means the default.
Routes == {roleAdapter[r] : r \in Roles} \cup {Default}

\* chat after _get_client: a stream is a generator that holds the client until it
\* is iterated; a plain request is sent now, unless httpx refuses a closed client.
Request(a, client, stream) ==
    IF stream THEN [at |-> "stream", adapter |-> a, client |-> client]
    ELSE IF client \in open'[a] THEN [at |-> "sending", adapter |-> a, client |-> client]
    ELSE Idle

\* RoleRouter.chat.
Chat(t, a, stream) ==
    /\ job[t] = Idle
    /\ GetClient(a)
    /\ job' = [job EXCEPT ![t] = Request(a, ClientFor(a), stream)]
    /\ UNCHANGED <<tables, twice, failed>>

\* The first item of a stream is asked for.
IterateStream(t) ==
    /\ job[t].at = "stream"
    /\ job' = [job EXCEPT ![t] =
         IF @.client \in open[@.adapter] THEN [@ EXCEPT !.at = "sending"] ELSE Idle]
    /\ UNCHANGED <<clients, tables, twice, failed>>

\* A response, an HTTPStatusError, or an error because the client was closed.
ChatEnds(t) ==
    /\ job[t].at = "sending"
    /\ job' = [job EXCEPT ![t] = Idle]
    /\ UNCHANGED <<clients, tables, twice, failed>>

-----------------------------------------------------------------------------
(* Closing. *)

\* close of an adapter with an open client: it is closed now, forgotten later.
StartClosing(t, a, newJob, cur) ==
    /\ open' = [open EXCEPT ![a] = @ \ {cur[a]}]
    /\ job' = [job EXCEPT ![t] = [newJob EXCEPT !.adapter = a, !.client = cur[a]]]

ClosingJob(position, due) ==
    [at |-> "closing", adapter |-> Default, client |-> 1, position |-> position,
     size |-> Len(order), due |-> due, quiet |-> TRUE]

\* close without a suspension: no client, or one that is closed already.
CloseAtOnce(a) ==
    /\ current' = [current EXCEPT ![a] = 0]
    /\ twice' = IF current[a] = 0 THEN twice ELSE [twice EXCEPT ![a] = @ + 1]

Close(t, a) ==
    /\ job[t] = Idle
    /\ \/ /\ current[a] \in open[a]
          /\ StartClosing(t, a, ClosingJob(0, {}), current)
          /\ UNCHANGED <<current, twice>>
       \/ /\ current[a] \notin open[a]
          /\ CloseAtOnce(a)
          /\ UNCHANGED <<open, job>>
    /\ UNCHANGED <<made, tables, failed>>

Entry(k) == named[order[k]]

FirstOnly(after) == {k \in after + 1 .. Len(order) : k = 1}    \* variant

\* The entries close_all still goes through, after the one it has just closed.
Remaining(after) == after + 1 .. Len(order)

\* The loop of close_all runs on to the next adapter with an open client.  Other
\* adapters on the way are closed at once; a registry that has grown ends the
\* loop with a RuntimeError.
CloseOn(t, j, cur) ==
    LET rest    == Remaining(j.position)
        waiting == {k \in rest : cur[Entry(k)] \in open[Entry(k)]}
        next    == IF waiting = {} THEN Len(order) + 1 ELSE Min(waiting)
        passed  == {Entry(k) : k \in {i \in rest : i < next}}
        already == {a \in passed : cur[a] # 0}
    IN IF Len(order) # j.size
       THEN /\ current' = cur
            /\ job' = [job EXCEPT ![t] = Idle]
            /\ UNCHANGED <<open, twice>>
       ELSE /\ current' = [a \in Adapters |-> IF a \in passed THEN 0 ELSE cur[a]]
            /\ twice' = [a \in Adapters |-> IF a \in already THEN twice[a] + 1 ELSE twice[a]]
            /\ IF waiting = {}
               THEN job' = [job EXCEPT ![t] = Idle] /\ UNCHANGED open
               ELSE StartClosing(t, Entry(next), [j EXCEPT !.position = next], cur)

\* What a close_all owes: the registered adapters' clients.
DueNow == {<<a, current[a]>> : a \in {x \in {Entry(k) : k \in DOMAIN order} : current[x] # 0}}

CloseAll(t) ==
    /\ job[t] = Idle
    /\ CloseOn(t, ClosingJob(0, DueNow), current)
    /\ UNCHANGED <<made, tables, failed>>

NotForgotten(a) == current           \* variant: close keeps the closed client

\* close forgets whatever client the adapter has now.
Forgotten(a) == [current EXCEPT ![a] = 0]

CloseEnds(t) ==
    /\ job[t].at = "closing"
    /\ LET a == job[t].adapter IN
         IF job[t].position = 0
         THEN /\ current' = Forgotten(a)
              /\ job' = [job EXCEPT ![t] = Idle]
              /\ UNCHANGED <<open, twice>>
         ELSE CloseOn(t, job[t], Forgotten(a))
    /\ UNCHANGED <<made, tables, failed>>

\* aclose raises: the closed client stays, and close_all ends with the others open.
CloseRaises(t) ==
    /\ job[t].at = "closing"
    /\ job' = [job EXCEPT ![t] = Idle]
    /\ failed' = [failed EXCEPT ![job[t].adapter] = @ \cup {job[t].client}]
    /\ UNCHANGED <<clients, tables, twice>>

-----------------------------------------------------------------------------
(* Registry and router. *)

AlwaysAdded(n) == Append(order, n)        \* variant: a known name gets a second entry

\* A known name keeps its place in the dict.
OrderWith(n) == IF \E i \in DOMAIN order : order[i] = n THEN order ELSE Append(order, n)

\* register: the name gets the adapter, whatever it stood for before.
Register(n, a) ==
    /\ order' = OrderWith(n)
    /\ named' = [named EXCEPT ![n] = a]
    /\ job' = [t \in Tasks |-> IF job[t].at = "closing" THEN [job[t] EXCEPT !.quiet = FALSE] ELSE job[t]]
    /\ UNCHANGED <<clients, roleAdapter, twice, failed>>

ConfigureRole(r, a) ==
    /\ roleAdapter' = [roleAdapter EXCEPT ![r] = a]
    /\ UNCHANGED <<clients, order, named, job, twice, failed>>

Next ==
    \/ \E t \in Tasks :
         \/ \E a \in Routes, stream \in BOOLEAN : Chat(t, a, stream)
         \/ IterateStream(t)
         \/ ChatEnds(t)
         \/ \E a \in Adapters : Close(t, a)
         \/ CloseAll(t)
         \/ CloseEnds(t)
         \/ CloseRaises(t)
    \/ \E n \in Names, a \in Adapters : Register(n, a)
    \/ \E r \in Roles, a \in Adapters : ConfigureRole(r, a)

Spec == Init /\ [][Next]_vars

-----------------------------------------------------------------------------

Closing(a) == {t \in Tasks : job[t].at = "closing" /\ job[t].adapter = a}

\* An adapter holds on to a closed client only while the close of that client is
\* still suspended, or after it raised: a chat that begins at any other time is
\* not refused by httpx, whichever closes and chats overlapped before.
ClosedClientIsClosing ==
    \A a \in Adapters :
        current[a] # 0 /\ current[a] \notin open[a] =>
            current[a] \in failed[a] \cup {job[t].client : t \in Closing(a)}

\* Clients that are open but no adapter's any more, so that nothing can close them.
Leaked(a) == open[a] \ {current[a]}

\* A client leaks only when closes of the same adapter overlap: at most one for
\* every close that came while the adapter's client was closed and not forgotten.
LeaksNeedOverlap == \A a \in Adapters : Cardinality(Leaked(a)) <= twice[a]

\* close_all keeps its word when it returns: if no adapter failed, none was
\* registered meanwhile and no closes overlapped, every client the registered
\* adapters had at its start is closed.
CloseAllClosesAll ==
    [][\A t \in Tasks :
        job[t].at = "closing" /\ job[t].position > 0 /\ job'[t] = Idle
        /\ job[t].quiet /\ failed' = failed
        => \A d \in job[t].due : twice'[d[1]] > 0 \/ d[2] \notin open'[d[1]]]_vars
=============================================================================
