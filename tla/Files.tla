-------------------------------- MODULE Files ---------------------------------
(***************************************************************************)
(* core/tools/__init__.py: the tools that change files, and EDIT_HISTORY,  *)
(* which the terminal shows as the session's diffs.                        *)
(*                                                                         *)
(* Handlers are synchronous, so at most one tool call is under way, but    *)
(* other programs save files between its system calls, and each system     *)
(* call may fail.  A text is a sequence of marks; write_text empties the   *)
(* file when it opens it and writes afterwards.  The tools that only read  *)
(* (read_file, diff_preview, path_type, ...) change nothing here.          *)
(***************************************************************************)
EXTENDS Integers, Sequences, FiniteSets

CONSTANTS Paths, Marks,
          Absent,        \* of a path without a file
          MaxLength,     \* bound: marks in a file
          MaxHistory     \* bound: entries of EDIT_HISTORY

ASSUME FilesAssumption == MaxLength \in Nat \ {0} /\ MaxHistory \in Nat

VARIABLES files,         \* the text of each path, or Absent
          call,          \* the tool call under way, if any
          editHistory,   \* EDIT_HISTORY
          torn,          \* history: paths emptied by a tool and written by nobody since
          told           \* history: paths whose last emptying call reported a failure

filesVars == <<files, call, editHistory, torn, told>>

Texts == UNION {[1 .. n -> Marks] : n \in 0 .. MaxLength}

NoCall == [stage |-> "none"]

Edit == [path : Paths, old : Marks, new : Marks]

\* What follows a write: nothing, the entry of an edit, the end of a move.
Sequels == {NoCall} \cup Edit \cup [from : Paths]

\* The calls in flight: an edit that has read its file, an open, empty file, and a
\* move that has copied its source and not removed it yet.
CallStates == {NoCall} \cup [stage : {"read"}, path : Paths, text : Texts, sequel : Edit]
                  \cup [stage : {"opened"}, path : Paths, text : Texts, sequel : Sequels]
                  \cup [stage : {"copied"}, from : Paths]

FilesTypeOK ==
    /\ files \in [Paths -> Texts \cup {Absent}]
    /\ call \in CallStates
    /\ editHistory \in Seq(Edit)
    /\ Len(editHistory) <= MaxHistory
    /\ torn \subseteq Paths
    /\ told \subseteq Paths

FilesInit ==
    /\ files \in [Paths -> {<<m>> : m \in Marks} \cup {Absent}]
    /\ call = NoCall
    /\ editHistory = << >>
    /\ torn = {}
    /\ told = {}

-----------------------------------------------------------------------------

Put(p, text) == files' = [files EXCEPT ![p] = text] /\ torn' = torn \ {p}

\* A write call opens its file: from here to the write the file is empty.
Open(p, text, sequel) ==
    /\ files' = [files EXCEPT ![p] = << >>]
    /\ torn' = torn \cup {p}
    /\ told' = told \ {p}
    /\ call' = [stage |-> "opened", path |-> p, text |-> text, sequel |-> sequel]

\* write_file, and append_file when the directory it made has vanished again.  A
\* file that cannot be opened is not changed, and the call says so.
WriteFile(p, text) ==
    /\ call = NoCall
    /\ Open(p, text, NoCall)
    /\ UNCHANGED editHistory

Occurrences(text, mark) == {i \in DOMAIN text : text[i] = mark}

\* edit_file up to its read: the old text must be there exactly once.
EditFile(e) ==
    /\ call = NoCall
    /\ files[e.path] # Absent
    /\ Cardinality(Occurrences(files[e.path], e.old)) = 1
    /\ call' = [stage |-> "read", path |-> e.path, sequel |-> e,
                text |-> [i \in DOMAIN files[e.path] |->
                            IF files[e.path][i] = e.old THEN e.new ELSE files[e.path][i]]]
    /\ UNCHANGED <<files, editHistory, torn, told>>

\* The edit writes the text it computed, whatever the file holds by now.
EditOpens ==
    /\ call.stage = "read"
    /\ Open(call.path, call.text, call.sequel)
    /\ UNCHANGED editHistory

\* A text saved since the file was opened may survive instead of the tool's.  An
\* edit is entered after write_text has returned; a move has its source to remove.
WriteEnds ==
    /\ call.stage = "opened"
    /\ \/ Put(call.path, call.text)
       \/ files[call.path] \notin {<< >>, Absent} /\ Put(call.path, files[call.path])
    /\ \/ /\ call.sequel \in Edit
          /\ Len(editHistory) < MaxHistory
          /\ editHistory' = Append(editHistory, call.sequel)
       \/ call.sequel \notin Edit /\ UNCHANGED editHistory
    /\ call' = IF call.sequel \in [from : Paths]
               THEN [stage |-> "copied", from |-> call.sequel.from] ELSE NoCall
    /\ UNCHANGED told

\* variant: a write that failed is reported as written
Untold(p) == told

\* write_file, copy_file and move_file answer with the error, edit_file raises it.
Told(p) == told \cup {p}

\* The disk is full, say, after the file was emptied; of a copy only the metadata
\* may have failed, after the text was written.
WriteFails ==
    /\ call.stage = "opened"
    /\ \/ UNCHANGED <<files, torn>>
       \/ call.sequel \notin Edit /\ Put(call.path, call.text)
    /\ told' = Told(call.path)
    /\ call' = NoCall
    /\ UNCHANGED editHistory

\* The edit cannot open its file for writing: nothing has happened to it.
EditOpenFails ==
    /\ call.stage = "read"
    /\ call' = NoCall
    /\ UNCHANGED <<files, editHistory, torn, told>>

\* append_file never closes its file: its text is written when the file object is
\* collected, and a write that fails then is reported as a success.  A file that was
\* not there has been created by then.  (An append that raises has no other effect.)
AppendFile(p, mark) ==
    /\ call = NoCall
    /\ LET text == IF files[p] = Absent THEN << >> ELSE files[p] IN
         \/ Len(text) < MaxLength /\ Put(p, Append(text, mark))
         \/ files' = [files EXCEPT ![p] = text] /\ UNCHANGED torn
    /\ UNCHANGED <<call, editHistory, told>>

\* copy2: a file is not copied onto itself.
CopyFile(src, dst) ==
    /\ call = NoCall
    /\ src # dst
    /\ files[src] # Absent
    /\ Open(dst, files[src], NoCall)
    /\ UNCHANGED editHistory

\* shutil.move: a rename, which replaces the target at once.  A torn file stays torn.
RenameFile(src, dst) ==
    /\ call = NoCall
    /\ src # dst
    /\ files[src] # Absent
    /\ files' = [files EXCEPT ![dst] = files[src], ![src] = Absent]
    /\ torn' = (torn \ {src, dst}) \cup (IF src \in torn THEN {dst} ELSE {})
    /\ told' = (told \ {src, dst}) \cup (IF src \in told THEN {dst} ELSE {})
    /\ UNCHANGED <<call, editHistory>>

\* To another file system: a copy2, then the source is removed.
MoveAcross(src, dst) ==
    /\ call = NoCall
    /\ src # dst
    /\ files[src] # Absent
    /\ Open(dst, files[src], [from |-> src])
    /\ UNCHANGED editHistory

MoveFile(src, dst) == RenameFile(src, dst) \/ MoveAcross(src, dst)

\* The source of a copied move goes, with what was saved in it meanwhile.
MoveUnlinks ==
    /\ call.stage = "copied"
    /\ Put(call.from, Absent)
    /\ call' = NoCall
    /\ UNCHANGED <<editHistory, told>>

\* It cannot be removed: the call reports an error and both files stay.
MoveKeepsSource ==
    /\ call.stage = "copied"
    /\ call' = NoCall
    /\ UNCHANGED <<files, editHistory, torn, told>>

DeleteFile(p) ==
    /\ call = NoCall
    /\ files[p] # Absent
    /\ Put(p, Absent)
    /\ UNCHANGED <<call, editHistory, told>>

\* clear_edit_history.
ClearHistory ==
    /\ editHistory' = << >>
    /\ UNCHANGED <<files, call, torn, told>>

\* Another program saves a text of its own.
Save(p, mark) ==
    /\ Put(p, <<mark>>)
    /\ UNCHANGED <<call, editHistory, told>>

FilesNext ==
    \/ \E p \in Paths, text \in Texts : WriteFile(p, text)
    \/ \E e \in Edit : EditFile(e)
    \/ EditOpens
    \/ WriteEnds
    \/ WriteFails
    \/ EditOpenFails
    \/ \E p \in Paths, mark \in Marks : AppendFile(p, mark) \/ Save(p, mark)
    \/ \E src, dst \in Paths : CopyFile(src, dst) \/ MoveFile(src, dst)
    \/ MoveUnlinks
    \/ MoveKeepsSource
    \/ \E p \in Paths : DeleteFile(p)
    \/ ClearHistory

FilesSpec == FilesInit /\ [][FilesNext]_filesVars

-----------------------------------------------------------------------------

\* A file that a tool has emptied, and that nobody has written since, is the one
\* being written, or the call that emptied it reported a failure; copies, moves to
\* another file system and renames of such files included.  Two losses are silent in
\* the code and not claimed away here: an append whose late write fails, and a text
\* that another program saved and an edit or a move overwrites.
EmptiedIsTold ==
    torn \subseteq told \cup (IF call.stage = "opened" THEN {call.path} ELSE {})
=============================================================================
