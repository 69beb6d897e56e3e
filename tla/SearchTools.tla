---------------------------- MODULE SearchTools ----------------------------
(***************************************************************************)
(* The tools with which a language model looks through files               *)
(* (ai/tools/gs_core_ai_tools_fs.c and gs_core_ai_tools_code.c).  Each     *)
(* walks a directory in the order readdir gives its entries; all but two   *)
(* stop at max_results and say whether they did.                           *)
(*                                                                         *)
(* What a pattern matches is left out: a line has the place of its first   *)
(* match.  What is reported of a match is its file and line.  Full paths   *)
(* are shorter than the 1023 characters a walk keeps of them.              *)
(***************************************************************************)
EXTENDS Integers, Sequences, FiniteSets, SequencesExt, Functions

CONSTANTS
  Entries,     \* directory -> the files and directories in it
  Lines,       \* file -> its lines: [units, at], at = 0 without a match
  Accepted,    \* the files whose extension the filter accepts
  Missing,     \* a path that does not exist
  Closed,      \* the files and directories that fopen or opendir refuses
  Large,       \* the files above GS_CORE_AI_TOOLS_CODE_MAX_FILE_SIZE
  Limits,      \* values of max_results
  LineBuffer,  \* units that fgets reads at once (GS_CORE_AI_TOOLS_FS_MAX_LINE_LENGTH)
  MaxLines     \* lines that are stored (MAX_STORED_LINES, MAX_DEF_LINES)

VARIABLES
  order,       \* directory -> its entries in readdir's order
  asked,       \* the arguments of the last call, as a record
  answer       \* [status, results, truncated]

vars == <<order, asked, answer>>

Dirs == DOMAIN Entries
Files == DOMAIN Lines
Limited == {"search_files", "search_code", "list_functions"}
NoCall == [tool |-> "none"]
-----------------------------------------------------------------------------
Ceil(n, k) == (n + k - 1) \div k

\* A file as the sequence of what a tool takes for its lines: TRUE for a match.
\* _search_file: what fgets reads of a long line at once is a line.
Pieces(line) == [k \in 1 .. Ceil(line.units, LineBuffer) |-> line.at > 0 /\ k = Ceil(line.at, LineBuffer)]
FgetsLines(f) == FoldLeft(LAMBDA sofar, line : sofar \o Pieces(line), <<>>, Lines[f])

\* _search_code_in_file, _find_definition_in_file: when the array is full the
\* last line in it is all the rest of the file.
StoredLines(f) ==
  [i \in 1 .. IF Len(Lines[f]) < MaxLines THEN Len(Lines[f]) ELSE MaxLines |->
     \E j \in i .. IF i = MaxLines THEN Len(Lines[f]) ELSE i : Lines[f][j].at > 0]

\* _list_functions_in_file
PlainLines(f) == [i \in DOMAIN Lines[f] |-> Lines[f][i].at > 0]

LinesOf(tool, f) ==
  CASE tool = "search_files"   -> FgetsLines(f)
    [] tool = "list_functions" -> PlainLines(f)
    [] OTHER                   -> StoredLines(f)

\* What a tool reads: the code tools pass over a file that is too large, and
\* every tool over one it cannot open, without a word in the answer.
Reads(tool, f) == f \notin Closed /\ (tool # "search_files" => f \notin Large)

Reached(q, s) == q.tool \in Limited /\ Len(s.results) >= q.limit

\* Mutant: the limit is asked only when a file is opened.
SearchFileWhole(q, s, f) ==
  IF Reached(q, s) THEN [s EXCEPT !.truncated = TRUE]
  ELSE IF ~Reads(q.tool, f) THEN s
  ELSE [s EXCEPT !.results = @ \o SelectSeq([i \in DOMAIN LinesOf(q.tool, f) |-> <<f, i>>],
                                            LAMBDA r : LinesOf(q.tool, f)[r[2]])]

\* _search_file, _search_code_in_file, _list_functions_in_file,
\* _find_definition_in_file.  truncated is set by the file after the one in
\* which the limit was reached.
SearchFile(q, s, f) ==
  LET lines == LinesOf(q.tool, f)
      Line(t, i) == IF lines[i] /\ ~Reached(q, t) THEN [t EXCEPT !.results = Append(@, <<f, i>>)] ELSE t
  IN  IF Reached(q, s) THEN [s EXCEPT !.truncated = TRUE]
      ELSE IF ~Reads(q.tool, f) THEN s
      ELSE FoldLeft(Line, s, [i \in DOMAIN lines |-> i])

\* _search_directory, _search_code_directory, _list_functions_directory,
\* _find_definition_directory.  search_files stops when truncated is set; the
\* others go on, and return at once from whatever they come to.
RECURSIVE SearchDirectory(_, _, _)
SearchDirectory(q, s, d) ==
  LET Entry(t, e) ==
        CASE q.tool = "search_files" /\ t.truncated -> t
          [] e \in Dirs  -> IF q.recursive THEN SearchDirectory(q, t, e) ELSE t
          [] e \in Files -> IF e \in Accepted \/ ~q.filter THEN SearchFile(q, t, e) ELSE t
  IN  IF q.tool # "search_files" /\ Reached(q, s) THEN [s EXCEPT !.truncated = TRUE]
      ELSE IF d \in Closed THEN s
      ELSE FoldLeft(Entry, s, order[d])

\* _list_directory_recursive: the filter is for files only.
RECURSIVE ListDirectory(_, _)
ListDirectory(q, d) ==
  IF d \in Closed THEN <<>>
  ELSE FoldLeft(LAMBDA sofar, e :
                  IF q.filter /\ e \in Files \ Accepted THEN sofar
                  ELSE Append(sofar, e) \o (IF e \in Dirs /\ q.recursive THEN ListDirectory(q, e) ELSE <<>>),
                <<>>, order[d])

Nothing == [status |-> "success", results |-> <<>>, truncated |-> FALSE]

\* The execute functions.  Of a path that is no directory there is nothing to
\* list, and no error.
Answer(q) ==
  CASE q.tool = "list_directory" ->
         [Nothing EXCEPT !.results = IF q.path \in Dirs THEN ListDirectory(q, q.path) ELSE <<>>]
    [] q.tool # "list_directory" /\ q.path \in Dirs  -> SearchDirectory(q, Nothing, q.path)
    [] q.tool # "list_directory" /\ q.path \in Files -> SearchFile(q, Nothing, q.path)
    [] OTHER -> [Nothing EXCEPT !.status = "not_found"]
-----------------------------------------------------------------------------
Init ==
  /\ order \in {o \in [Dirs -> UNION {SetToSeqs(Entries[d]) : d \in Dirs}] :
                  \A d \in Dirs : ToSet(o[d]) = Entries[d]}
  /\ asked = NoCall
  /\ answer = Nothing

Call(q) ==
  /\ asked = NoCall
  /\ asked' = q
  /\ answer' = Answer(q)
  /\ UNCHANGED order

\* gs_core_ai_tool_result_free: nothing is kept for the next call.
ResultFree ==
  /\ asked # NoCall
  /\ asked' = NoCall
  /\ answer' = Nothing
  /\ UNCHANGED order

Next ==
  \/ ResultFree
  \/ \E path \in Dirs \cup Files \cup {Missing}, recursive, filter \in BOOLEAN :
       \/ \E tool \in Limited, limit \in Limits :
            Call([tool |-> tool, path |-> path, recursive |-> recursive, filter |-> filter, limit |-> limit])
       \/ \E tool \in {"find_definition", "list_directory"} :
            Call([tool |-> tool, path |-> path, recursive |-> recursive, filter |-> filter])

Spec == Init /\ [][Next]_vars
-----------------------------------------------------------------------------
\* What the calls are measured by: the way from the path to each entry below
\* it, as the places in readdir's order; entries are visited in the order of
\* these ways, a directory before what is in it.
Position(d, e) == CHOOSE i \in DOMAIN order[d] : order[d][i] = e
Way(e) ==
  LET way[x \in Dirs \cup Files] ==
        IF \E d \in Dirs : x \in Entries[d]
        THEN LET d == CHOOSE d \in Dirs : x \in Entries[d] IN Append(way[d], Position(d, x))
        ELSE <<>>
  IN  way[e]

Before(v, w) ==
  \/ IsStrictPrefix(v, w)
  \/ \E i \in DOMAIN v \cap DOMAIN w : SubSeq(v, 1, i - 1) = SubSeq(w, 1, i - 1) /\ v[i] < w[i]

Below(q) ==
  LET deep == IF q.recursive THEN Dirs \cup Files ELSE IF q.path \in Dirs THEN Entries[q.path] ELSE {}
      shut == {d \in Closed : IsPrefix(Way(q.path), Way(d))}
      taken == {e \in deep : /\ IsStrictPrefix(Way(q.path), Way(e))
                             /\ e \in Files \ Accepted => ~q.filter
                             /\ \A d \in shut : ~IsStrictPrefix(Way(d), Way(e))}
  IN  SetToSortSeq(taken, LAMBDA e, f : Before(Way(e), Way(f)))

\* Every match below the path, with its line, in the files that the tool reads.
Matches(q) ==
  LET named == IF q.path \in Files THEN <<q.path>> ELSE SelectSeq(Below(q), LAMBDA e : e \in Files)
      files == SelectSeq(named, LAMBDA f : Reads(q.tool, f))
      of(f) == SelectSeq([i \in DOMAIN Lines[f] |-> <<f, i>>], LAMBDA r : Lines[f][r[2]].at > 0)
  IN  FoldLeft(LAMBDA sofar, f : sofar \o of(f), <<>>, files)

\* The lines of f are what the tool takes for lines.
Fits(tool, f) ==
  CASE tool = "search_files"   -> \A i \in DOMAIN Lines[f] : Lines[f][i].units <= LineBuffer
    [] tool = "list_functions" -> TRUE
    [] OTHER                   -> Len(Lines[f]) <= MaxLines

FitsAll(q) == \A f \in {r[1] : r \in ToSet(Matches(q))} : Fits(q.tool, f)

\* In whatever order the entries of directories come, a search finds the first
\* max_results of all matches in the files it reads, each once and at its line,
\* whichever of the tools makes it: a file or directory that is passed over costs
\* no match of the others.  truncated is not set before there are max_results,
\* and when it is not set, what is missing lies in the file of the last result.
\* A list has every entry, after the directory it is in.  (For files whose lines
\* the tool can tell apart.)
SearchesFindTheFirst ==
  LET q == asked
      matches == Matches(q)
      n == Len(answer.results)
  IN  CASE q.tool = "none" -> TRUE
        [] q.tool = "list_directory" ->
             answer.results = IF q.path \in Dirs THEN Below(q) ELSE <<>>
        [] q.path = Missing -> answer = [Nothing EXCEPT !.status = "not_found"]
        [] OTHER ->
             FitsAll(q) =>
               /\ IsPrefix(answer.results, matches)
               /\ n = IF q.tool \in Limited /\ q.limit < Len(matches) THEN q.limit ELSE Len(matches)
               /\ answer.truncated => n = q.limit
               /\ ~answer.truncated => \A i \in n + 1 .. Len(matches) : n > 0 /\ matches[i][1] = answer.results[n][1]

\* truncated tells "whether results were truncated" (gs_core_ai_tools_fs.h:142,
\* gs_core_ai_tools_code.h:94 and :116): it is set when the limit has cut off
\* matches.  The tools set it at the next file they open, so that what is cut off
\* at the end of the last one is not told.
TruncatedIsTold ==
  asked.tool \in Limited /\ asked.path # Missing /\ FitsAll(asked) /\ asked.limit < Len(Matches(asked))
    => answer.truncated
=============================================================================
