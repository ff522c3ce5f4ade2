-------------------------------- MODULE Context --------------------------------
(***************************************************************************)
(* core/context/manager.py: the symbol index and the just-in-time cache of *)
(* a ContextManager, over files that other programs edit.                  *)
(*                                                                         *)
(* Every method is synchronous, so they never overlap; an edit may fall    *)
(* between any two of them, and between two files of one index_repo.       *)
(* A file is a sequence of lines, and a line is what _extract_skeletons    *)
(* sees in it.  Paths are the strings the manager is given; StartsWith says*)
(* which of them start with which.                                         *)
(***************************************************************************)
EXTENDS Integers, Sequences, FiniteSets, SequencesExt

CONSTANTS Paths,           \* relative paths of the files
          Indexed,         \* those with an indexed extension that are not skipped
          StartsWith,      \* pairs <<q, p>>: the string q starts with the string p
          Lines,           \* what a line may be: a def, its kind or "text", and its name
          Contents,        \* what a file may hold: sequences of lines
          Absent,          \* the file is missing or cannot be read
          NoEnd,           \* None as the argument end of read_lines
          Ranges,          \* the arguments <<start, end>> of read_lines
          Around,          \* lines read_symbol shows on each side: 10
          TokensPerSymbol, \* 5
          Budgets,         \* arguments of get_context and truncated_to
          MaxEdits,        \* bound on the edits of other programs
          MaxCached        \* bound on the ranges kept in the unbounded cache

ASSUME ContextAssumption ==
    /\ Indexed \subseteq Paths
    /\ \A p \in Paths : <<p, p>> \in StartsWith
    /\ \A line \in Lines : line.def \in {"text", "class", "def", "constant"}
    /\ Contents \subseteq Seq(Lines)
    /\ Absent \notin Contents
    /\ Ranges \subseteq (Nat \ {0}) \X (Nat \cup {NoEnd})
    /\ {Around, MaxEdits, MaxCached} \cup Budgets \subseteq Nat
    /\ TokensPerSymbol \in Nat \ {0}

VARIABLES disk,       \* what each file holds now
          edits,      \* the edits so far
          index,      \* symbol_index.symbols
          centrality, \* symbol_index.centrality
          jit,        \* jit_cache: from <<path, start, end>> to lines
          walk,       \* the local state of a running index_repo
          since,      \* history: what each file held since its last invalidate
          during      \* history: what each file held since the last walk began

external == <<disk, edits>>
manager  == <<index, centrality, jit, walk>>
vars     == <<external, manager, since, during>>

Kinds == {"class", "function", "method", "constant"}

NoWalk == [busy |-> FALSE, left |-> {}, found |-> << >>]

ContextTypeOK ==
    /\ disk \in [Paths -> Contents \cup {Absent}]
    /\ edits \in 0 .. MaxEdits
    /\ \A i \in DOMAIN index :
          /\ index[i].file \in Indexed
          /\ index[i].kind \in Kinds
          /\ index[i].line \in Nat \ {0}
    /\ \A k \in DOMAIN centrality : centrality[k] \in Nat \ {0}
    /\ \A key \in DOMAIN jit : /\ key[1] \in Paths
                               /\ key[2] \in Nat \ {0}
                               /\ key[3] \in Nat \cup {NoEnd}
    /\ walk.busy \in BOOLEAN /\ walk.left \subseteq Indexed
    /\ \A p \in Paths : disk[p] \in since[p] \cap during[p]

Init ==
    /\ disk \in [Paths -> Contents \cup {Absent}]
    /\ edits = 0
    /\ index = << >>
    /\ centrality = << >>
    /\ jit = << >>
    /\ walk = NoWalk
    /\ since = [p \in Paths |-> {disk[p]}]
    /\ during = [p \in Paths |-> {disk[p]}]

\* Another program writes or removes a file, at any time.
Edit(p, content) ==
    /\ edits < MaxEdits
    /\ content # disk[p]
    /\ edits' = edits + 1
    /\ disk' = [disk EXCEPT ![p] = content]
    /\ since' = [since EXCEPT ![p] = @ \cup {content}]
    /\ during' = [during EXCEPT ![p] = @ \cup {content}]
    /\ UNCHANGED manager

-----------------------------------------------------------------------------
(* index_repo. *)

KindOf(def, inClass) ==
    IF def = "def" THEN IF inClass THEN "method" ELSE "function" ELSE def

\* _extract_skeletons: one pass; current_class is set by the first class and
\* never reset.
Extract(p, content) ==
    LET scan[n \in 0 .. Len(content)] ==
            IF n = 0 THEN [found |-> << >>, inClass |-> FALSE]
            ELSE LET acc  == scan[n - 1]
                     line == content[n]
                 IN  IF line.def = "text" THEN acc
                     ELSE [found   |-> Append(acc.found,
                                              [file |-> p, name |-> line.name, line |-> n,
                                               kind |-> KindOf(line.def, acc.inClass)]),
                           inClass |-> acc.inClass \/ line.def = "class"]
    IN  scan[Len(content)].found

Priority(kind) ==
    CASE kind = "class"                  -> 3
      [] kind \in {"function", "method"} -> 2
      [] kind = "constant"               -> 1

KeyOf(sym) == <<sym.file, sym.name>>

\* _compute_centrality: the first loop sets every weight to 1, the second one
\* multiplies, so a name defined twice in a file weighs the product.
Weights(symbols) ==
    LET weigh[n \in 0 .. Len(symbols)] ==
            IF n = 0 THEN [k \in {KeyOf(symbols[i]) : i \in DOMAIN symbols} |-> 1]
            ELSE [weigh[n - 1] EXCEPT ![KeyOf(symbols[n])] = @ * Priority(symbols[n].kind)]
    IN  weigh[Len(symbols)]

StartIndex ==
    /\ ~walk.busy
    /\ walk' = [busy |-> TRUE, left |-> Indexed, found |-> << >>]
    /\ during' = [p \in Paths |-> {disk[p]}]
    /\ UNCHANGED <<external, index, centrality, jit, since>>

\* The walk reads files in any order; one that is gone when it is read, or was not
\* there when its directory was listed, contributes nothing.
IndexFile(p) ==
    /\ p \in walk.left
    /\ \/ /\ disk[p] # Absent
          /\ walk' = [walk EXCEPT !.left = @ \ {p}, !.found = @ \o Extract(p, disk[p])]
       \/ /\ Absent \in during[p]
          /\ walk' = [walk EXCEPT !.left = @ \ {p}]
    /\ UNCHANGED <<external, index, centrality, jit, since, during>>

\* variant: the new symbols are appended to the old ones
NewIndexAppended == index \o walk.found

NewIndex == walk.found

FinishIndex ==
    /\ walk.busy /\ walk.left = {}
    /\ index' = NewIndex
    /\ centrality' = Weights(NewIndex)
    /\ walk' = NoWalk
    /\ UNCHANGED <<external, jit, since, during>>

-----------------------------------------------------------------------------
(* The JIT cache. *)

\* Where the slice bound i falls in a list of length n: negative bounds count
\* from the end.
Bound(i, n) == IF i < 0 THEN Max({0, n + i}) ELSE Min({i, n})

\* lines[start-1:end], where None and 0 mean to the end.
Slice(content, start, end) ==
    LET n    == Len(content)
        last == IF end \in {NoEnd, 0} THEN n ELSE end
    IN  SubSeq(content, Bound(start - 1, n) + 1, Bound(last, n))

\* read_lines: from the cache if there, else from the file and into the cache; a
\* file that cannot be read is the empty text and not cached.
ReadLines(p, start, end) ==
    /\ ~walk.busy
    /\ LET key == <<p, start, end>>
       IN  \/ /\ key \in DOMAIN jit
              /\ UNCHANGED jit
           \/ /\ key \notin DOMAIN jit
              /\ disk[p] # Absent
              /\ Cardinality(DOMAIN jit) < MaxCached
              /\ jit' = [k \in DOMAIN jit \cup {key} |->
                            IF k = key THEN Slice(disk[p], start, end) ELSE jit[k]]
           \/ /\ key \notin DOMAIN jit
              /\ disk[p] = Absent
              /\ UNCHANGED jit
    /\ UNCHANGED <<external, index, centrality, walk, since, during>>

WindowStartUnclamped(line) == line - Around     \* variant: no max(1, .)

WindowStart(line) == Max({1, line - Around})

WindowEnd(line) == line + Around

\* The position of the first symbol of that name in the file, 0 if none.
Lookup(p, name) == SelectInSeq(index, LAMBDA s : s.file = p /\ s.name = name)

\* read_symbol: the line is the index's, the text the cache's or the file's.  A
\* symbol that is not in the index is None, and nothing changes.
ReadSymbol(p, name) ==
    LET i == Lookup(p, name)
    IN  /\ i # 0
        /\ ReadLines(p, WindowStart(index[i].line), WindowEnd(index[i].line))

\* variant: only the whole file is dropped, not its ranges
DroppedWhole(p) == {key \in DOMAIN jit : key = <<p, 1, NoEnd>>}

Dropped(p) == {key \in DOMAIN jit : <<key[1], p>> \in StartsWith}

\* invalidate: all ranges whose key starts with the path, so also those of longer
\* paths.  The skeleton cache it clears is never filled, and the index stays.
Invalidate(p) ==
    /\ ~walk.busy
    /\ jit' = [key \in DOMAIN jit \ Dropped(p) |-> jit[key]]
    /\ since' = [since EXCEPT ![p] = {disk[p]}]
    /\ UNCHANGED <<external, index, centrality, walk, during>>

Next ==
    \/ \E p \in Paths :
          \/ \E content \in Contents \cup {Absent} : Edit(p, content)
          \/ IndexFile(p)
          \/ \E range \in Ranges : ReadLines(p, range[1], range[2])
          \/ \E i \in DOMAIN index : ReadSymbol(p, index[i].name)
          \/ Invalidate(p)
    \/ StartIndex
    \/ FinishIndex

Spec == Init /\ [][Next]_vars

-----------------------------------------------------------------------------
(* get_context and truncated_to, which only read. *)

SymbolsForRoundedUp(budget) ==                   \* variant: rounds up
    (budget + TokensPerSymbol - 1) \div TokensPerSymbol

SymbolsFor(budget) == budget \div TokensPerSymbol

FirstSymbols(symbols, n) == SubSeq(symbols, 1, Min({n, Len(symbols)}))

View(symbols, budget) ==
    [skeleton |-> symbols, tokens |-> Len(symbols) * TokensPerSymbol, budget |-> budget]

GetContext(budget) == View(FirstSymbols(index, SymbolsFor(budget)), budget)

TruncatedTo(view, budget) ==
    IF view.tokens <= budget THEN view
    ELSE View(FirstSymbols(view.skeleton, SymbolsFor(budget)), budget)

-----------------------------------------------------------------------------

\* What the cache serves for a file is a part of something the file held since it
\* was last invalidated: no text from before survives, whichever ranges were read.
ServedSinceInvalidate ==
    \A key \in DOMAIN jit : \E content \in since[key[1]] \ {Absent} :
        jit[key] = Slice(content, key[2], key[3])

Shown(sym) ==
    LET key == <<sym.file, WindowStart(sym.line), WindowEnd(sym.line)>>
    IN  IF key \in DOMAIN jit THEN jit[key] ELSE Slice(disk[sym.file], key[2], key[3])

Unchanged(p) == ~walk.busy /\ since[p] = {disk[p]} /\ during[p] = {disk[p]}

\* While a file is as it was when it was indexed and invalidated, what read_symbol
\* shows of a name contains a definition of it, also at the edges of the file.
SymbolShown ==
    \A i \in DOMAIN index :
        Unchanged(index[i].file) /\ disk[index[i].file] # Absent =>
            LET shown == Shown(index[Lookup(index[i].file, index[i].name)])
            IN  \E j \in DOMAIN shown : /\ shown[j].name = index[i].name
                                       /\ shown[j].def # "text"

\* What a file defines, without a scan: a def is a method if some class is above.
Defines(p, content) ==
    {[file |-> p, name |-> content[i].name, line |-> i,
      kind |-> IF content[i].def # "def" THEN content[i].def
               ELSE IF \E j \in 1 .. i - 1 : content[j].def = "class" THEN "method"
               ELSE "function"]
        : i \in {j \in DOMAIN content : content[j].def # "text"}}

\* Between walks the index holds, of each file, exactly the definitions of one
\* content it had since the last walk began, or none if it was absent meanwhile:
\* never a mixture of two, nothing of an earlier walk, and no file is left out.
IndexFromOneWalk ==
    ~walk.busy /\ index # << >> =>
        \A p \in Indexed :
            LET symbols == {index[i] : i \in {j \in DOMAIN index : index[j].file = p}}
            IN  \/ symbols = {} /\ Absent \in during[p]
                \/ \E content \in during[p] \ {Absent} : symbols = Defines(p, content)

\* A view fits the budget it was made for and the one it was truncated to, shows
\* the first symbols of the index, and leaves out none that would still fit.
ViewsFit ==
    \A b \in Budgets, c \in Budgets :
        LET view == TruncatedTo(GetContext(b), c)
        IN  /\ view.tokens = TokensPerSymbol * Len(view.skeleton)
            /\ view.tokens <= b /\ view.tokens <= c
            /\ view.skeleton = SubSeq(index, 1, Len(view.skeleton))
            /\ \/ Len(view.skeleton) = Len(index)
               \/ view.tokens + TokensPerSymbol > Min({b, c})
=============================================================================
