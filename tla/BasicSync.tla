----------------------------- MODULE BasicSync -----------------------------
(* core/BasicLiveSync.cpp: a text file on the host and the Applesoft program  *)
(* in memory are kept the same. A change of the file is imported at the next  *)
(* frame; every few frames a changed program is exported. Characters and      *)
(* tokens are their codes, a text is its lines. The program's pages are a copy *)
(* of a bank that is written back only when it is marked dirty (PagedMemory). *)
EXTENDS Integers, Sequences, SequencesExt, TLC

CONSTANTS
  SyncTexts,       \* the texts an editor saves
  SyncTyped,       \* the lines the user of the guest types
  SyncKeywords,    \* [token -> name], of applesoft_tokens
  TokenRem,        \* token_rem
  CheckInterval,   \* frame_check_interval
  SyncRoom,        \* bytes between TXTTAB and HIMEM
  MaxLineNumber,   \* max_line_number
  MaxSyncSteps     \* steps of the guest and of the host: a bound of the model

VARIABLES
  syncSetup,      \* [positional, inotify, upper]: the line mode, whether events come,
                  \* a machine without lower case
  basicProgram,   \* the lines from TXTTAB on, [num, bytes]
  basicPointers,  \* TXTTAB and VARTAB hold a program
  booting,        \* BASIC has not started yet
  bankedProgram,  \* what the bank under the program's pages holds
  basicDirty,     \* the pages are marked dirty
  syncFile,       \* [there, text, mtime]
  syncClock,      \* the host's clock in seconds
  fileEvent,      \* an inotify event of the file waits
  lastSync,         \* [program, content, mtime, frame]: last_exported_hash,
                  \* last_file_content_hash, last_file_mtime, frame_counter
  behind,         \* history: who changed the program since the last import or export
  unwritten,      \* history: the last export did not reach the file, or not all of it
  syncSteps

syncVars == <<syncSetup, basicProgram, basicPointers, booting, bankedProgram, basicDirty,
              syncFile, syncClock, fileEvent, lastSync, behind, unwritten, syncSteps>>

Quote == 34
Space == 32
Digits == 48 .. 57
Upper(c) == IF c \in 97 .. 122 THEN c - 32 ELSE c

----------------------------------------------------------------------------
\* match_token: the table is in order of length, so the longest name wins.
NamesAt(content, i) ==
  {t \in DOMAIN SyncKeywords :
     /\ i + Len(SyncKeywords[t]) - 1 <= Len(content)
     /\ \A k \in 1 .. Len(SyncKeywords[t]) : Upper(content[i + k - 1]) = SyncKeywords[t][k]}
match_token(content, i) ==
  CHOOSE t \in NamesAt(content, i) :
    \A u \in NamesAt(content, i) : Len(SyncKeywords[u]) <= Len(SyncKeywords[t])

\* sanitize_and_truncate_line, of lines shorter than max_input_line_len.
sanitized(raw) ==
  SelectSeq([k \in 1 .. Len(raw) |-> IF syncSetup.upper THEN Upper(raw[k]) ELSE raw[k]],
            LAMBDA c : c \in Space .. 126)

\* tokenize_line_content: no keyword inside quotes or after REM.
tokenize_line_content(content) ==
  LET from[i \in 1 .. Len(content) + 1, quoted \in BOOLEAN, rem \in BOOLEAN] ==
        IF i > Len(content) THEN << >>
        ELSE IF content[i] = Quote THEN <<Quote>> \o from[i + 1, ~quoted, rem]
        ELSE IF ~quoted /\ ~rem /\ NamesAt(content, i) # {}
             THEN LET t == match_token(content, i)
                  IN  <<t>> \o from[i + Len(SyncKeywords[t]), quoted, t = TokenRem]
        ELSE <<content[i]>> \o from[i + 1, quoted, rem]
  IN  from[1, FALSE, FALSE]

\* detokenize_line_bytes.
detokenize_line_bytes(bytes) ==
  LET from[i \in 1 .. Len(bytes) + 1, quoted \in BOOLEAN, rem \in BOOLEAN] ==
        IF i > Len(bytes) THEN << >>
        ELSE IF bytes[i] = Quote THEN <<Quote>> \o from[i + 1, ~quoted, rem]
        ELSE IF quoted \/ rem \/ bytes[i] < 128 THEN <<bytes[i] % 128>> \o from[i + 1, quoted, rem]
        ELSE SyncKeywords[bytes[i]] \o from[i + 1, quoted, bytes[i] = TokenRem]
  IN  from[1, FALSE, FALSE]

----------------------------------------------------------------------------
\* What a line begins with, and what follows that.
Leading(line, chars) == Cardinality({k \in 1 .. Len(line) : \A i \in 1 .. k : line[i] \in chars})
Begins(line, chars) == SubSeq(line, 1, Leading(line, chars))
Past(line, chars) == SubSeq(line, Leading(line, chars) + 1, Len(line))
ValueOf(digits) ==
  IF Len(digits) <= 5 THEN FoldLeft(LAMBDA n, d : 10 * n + d - 48, 0, digits) ELSE MaxLineNumber

\* parse_positional_line: the place, and the statement without a number that
\* repeats it; any other number stays in the statement.
RepeatsPlace(line, index) ==
  LET digits == Begins(line, Digits)
      rest == Past(line, Digits)
  IN  digits # << >> /\ rest # << >> /\ rest[1] = Space /\ ValueOf(digits) = index
Positional(line, index) ==
  [num |-> index, bytes |-> tokenize_line_content(
     IF RepeatsPlace(line, index) THEN Past(Past(line, Digits), {Space}) ELSE line)]
\* parse_explicit_line: the number behind any spaces, and what follows its own.
Explicit(line) ==
  LET from == Past(line, {Space})
      value == ValueOf(Begins(from, Digits))
  IN  [num |-> IF value > MaxLineNumber THEN MaxLineNumber ELSE value,
       bytes |-> tokenize_line_content(Past(Past(from, Digits), {Space}))]
Parses(line, index) ==
  /\ line # << >>
  /\ IF syncSetup.positional THEN index <= MaxLineNumber ELSE Begins(Past(line, {Space}), Digits) # << >>
Parsed(line, index) == IF syncSetup.positional THEN Positional(line, index) ELSE Explicit(line)

\* inject_program_lines: the lines that fit below HIMEM.
LineSize(line) == 4 + Len(line.bytes) + 1
EndOf(lines) == FoldLeft(LAMBDA sum, line : sum + LineSize(line), 0, lines)
Fitting(lines) ==
  LET fits(k) == k = 0 \/ EndOf(SubSeq(lines, 1, k)) + 2 < SyncRoom
  IN  SubSeq(lines, 1, CHOOSE k \in 0 .. Len(lines) : fits(k) /\ (k = Len(lines) \/ ~fits(k + 1)))

\* basic_sync_import_from_string: std::sort by number, which may leave the lines
\* of one number in any order; what it makes of a text is a set of programs.
Once(x, op(_)) == CHOOSE y \in {op(z) : z \in {x}} : TRUE   \* op(x), with x evaluated once
Sorted(entries) ==
  LET before(a, b) == a.num < b.num \/ (a.num = b.num /\ a.at < b.at)
      shuffles == {q \in Permutations(entries) : \A e \in entries : q[e].num = e.num}
  IN  {[k \in 1 .. Len(order) |-> [num |-> order[k].num, bytes |-> q[order[k]].bytes]] :
         q \in shuffles, order \in {SetToSortSeq(entries, before)}}
Imported(text) ==
  LET parsed == {i \in 1 .. Len(text) : Once(sanitized(text[i]), LAMBDA line : Parses(line, i))}
      entries == {Once(sanitized(text[i]), LAMBDA line : [at |-> i] @@ Parsed(line, i)) : i \in parsed}
  IN  {Fitting(lines) : lines \in Once(entries, Sorted)}

\* append_line_prefix: a number in decimal and a space, or empty lines up to it.
Decimal(n) ==
  LET places == CHOOSE k \in 1 .. 5 : n < 10 ^ k /\ (k = 1 \/ n >= 10 ^ (k - 1))
  IN  [i \in 1 .. places |-> 48 + ((n \div (10 ^ (places - i))) % 10)]
LinePrefix(line) == IF syncSetup.positional THEN << >> ELSE Append(Decimal(line.num), Space)
Gap(program, k) ==
  LET next == IF k = 1 THEN 1 ELSE program[k - 1].num + 1
  IN  IF syncSetup.positional THEN [i \in 1 .. program[k].num - next |-> << >>] ELSE << >>
\* basic_sync_export_to_string.
Exported_unpadded(program) ==       \* a broken Exported: no empty lines for the gaps
  [k \in 1 .. Len(program) |-> LinePrefix(program[k]) \o detokenize_line_bytes(program[k].bytes)]
Exported(program) ==
  Once([k \in 1 .. Len(program) |->
          Gap(program, k) \o <<LinePrefix(program[k]) \o detokenize_line_bytes(program[k].bytes)>>], FlattenSeq)

\* compute_program_hash: taken as injective; 0 where there is no program.
HashOf(pointers, program) == IF pointers THEN [there |-> TRUE, lines |-> program]
                             ELSE [there |-> FALSE, lines |-> << >>]
compute_program_hash == HashOf(basicPointers, basicProgram)

----------------------------------------------------------------------------
\* basic_sync_init: the file is emptied before the watches are placed.
SyncInit ==
  /\ syncSetup \in [positional : BOOLEAN, inotify : BOOLEAN, upper : BOOLEAN]
  /\ basicProgram = << >> /\ bankedProgram = << >> /\ basicDirty = FALSE
  /\ basicPointers = FALSE /\ booting = TRUE
  /\ syncFile = [there |-> TRUE, text |-> << >>, mtime |-> 1]
  /\ syncClock = 1 /\ fileEvent = FALSE
  /\ lastSync = [program |-> compute_program_hash, content |-> << >>, mtime |-> 1, frame |-> 0]
  /\ behind = {} /\ unwritten = FALSE /\ syncSteps = 0

SyncStep == syncSteps < MaxSyncSteps /\ syncSteps' = syncSteps + 1
FileAlone == UNCHANGED <<syncFile, syncClock, fileEvent>>
MemoryAlone == UNCHANGED <<basicProgram, basicPointers, booting, bankedProgram, basicDirty>>

\* The guest: BASIC starts, a line is typed, NEW.
BasicStarts ==
  /\ booting /\ SyncStep
  /\ booting' = FALSE /\ basicPointers' = TRUE
  /\ basicProgram' = << >> /\ basicDirty' = TRUE /\ behind' = behind \cup {"guest"}
  /\ FileAlone /\ UNCHANGED <<syncSetup, bankedProgram, lastSync, unwritten>>
GuestEdits(program) ==
  /\ ~booting /\ SyncStep /\ EndOf(program) + 2 <= SyncRoom
  /\ basicProgram' = program /\ basicDirty' = TRUE /\ behind' = behind \cup {"guest"}
  /\ FileAlone /\ UNCHANGED <<syncSetup, basicPointers, booting, bankedProgram, lastSync, unwritten>>
TypeLine(line) ==
  LET others(op(_, _)) == SelectSeq(basicProgram, LAMBDA l : op(l.num, line.num))
      less(a, b) == a < b
      more(a, b) == a > b
  IN  GuestEdits(others(less) \o <<line>> \o others(more))

\* The program turns to another bank of memory and back: a dirty page is
\* written to its bank, the page is read again from it.
RemapProgram ==
  /\ ~booting /\ SyncStep
  /\ bankedProgram' = IF basicDirty THEN basicProgram ELSE bankedProgram
  /\ basicProgram' = IF basicDirty THEN basicProgram ELSE bankedProgram
  /\ basicDirty' = FALSE
  /\ behind' = IF basicProgram' # basicProgram THEN behind \cup {"remap"} ELSE behind
  /\ FileAlone /\ UNCHANGED <<syncSetup, basicPointers, booting, lastSync, unwritten>>

\* The host's editor: a save in place or by renaming, the emptied file of a
\* save in two steps, and the file away for a moment.
HostWrites(there, text) ==
  /\ SyncStep
  /\ \E now \in {syncClock, syncClock + 1} :
       syncClock' = now /\ syncFile' = [there |-> there, text |-> text, mtime |-> now]
  /\ fileEvent' = (fileEvent \/ (syncSetup.inotify /\ there)) /\ unwritten' = FALSE
  /\ MemoryAlone /\ UNCHANGED <<syncSetup, lastSync, behind>>

----------------------------------------------------------------------------
\* basic_sync_import_file: writes go to the pages behind their dirty marks. A
\* file that is away cannot be opened.
basic_sync_import_file ==
  \/ /\ \/ ~syncFile.there
        \/ lastSync.content = syncFile.text /\ lastSync.program = compute_program_hash
     /\ MemoryAlone /\ UNCHANGED <<lastSync, behind, unwritten>>
  \/ /\ syncFile.there
     /\ lastSync.content # syncFile.text \/ lastSync.program # compute_program_hash
     /\ basicProgram' \in Imported(syncFile.text) /\ basicPointers' = TRUE
     /\ lastSync' = [lastSync EXCEPT !.content = syncFile.text, !.mtime = syncFile.mtime,
                                 !.program = HashOf(TRUE, basicProgram')]
     /\ behind' = {} /\ unwritten' = FALSE
     /\ UNCHANGED <<booting, bankedProgram, basicDirty>>

\* basic_sync_export_file. A file that cannot be opened is tried again; a write
\* that ends early is not noticed, and what should be in the file is recorded.
basic_sync_export_file ==
  \E text \in {Exported(basicProgram)} :
    \/ /\ text = lastSync.content
       /\ lastSync' = [lastSync EXCEPT !.program = compute_program_hash, !.frame = 0]
       /\ behind' = {} /\ FileAlone /\ UNCHANGED unwritten
    \/ /\ text # lastSync.content /\ text = << >>
       /\ lastSync' = [lastSync EXCEPT !.frame = 0]
       /\ FileAlone /\ UNCHANGED <<behind, unwritten>>
    \/ /\ text # lastSync.content /\ text # << >>
       /\ lastSync' = [lastSync EXCEPT !.frame = 0]
       /\ unwritten' = TRUE
       /\ FileAlone /\ UNCHANGED behind
    \/ /\ text # lastSync.content /\ text # << >>
       /\ \E written \in 0 .. Len(text) :
            /\ syncFile' = [there |-> TRUE, text |-> SubSeq(text, 1, written), mtime |-> syncClock]
            /\ unwritten' = (written < Len(text))
       /\ fileEvent' = syncSetup.inotify
       /\ lastSync' = [program |-> compute_program_hash, content |-> text,
                     mtime |-> syncClock, frame |-> 0]
       /\ behind' = {} /\ UNCHANGED syncClock

\* check_inotify_events, or check_file_mtime_changed where there are none.
FileModified == IF syncSetup.inotify THEN fileEvent
                ELSE syncFile.there /\ syncFile.mtime > lastSync.mtime
Due == lastSync.frame + 1 >= CheckInterval
basic_sync_update ==
  /\ UNCHANGED <<syncSetup, syncSteps>>
  /\ \/ /\ FileModified /\ fileEvent' = FALSE
        /\ basic_sync_import_file
        /\ UNCHANGED <<syncFile, syncClock>>
     \/ /\ ~FileModified /\ ~Due
        /\ lastSync' = [lastSync EXCEPT !.frame = @ + 1]
        /\ MemoryAlone /\ FileAlone /\ UNCHANGED <<behind, unwritten>>
     \/ /\ ~FileModified /\ Due /\ MemoryAlone
        /\ \/ /\ compute_program_hash.there /\ compute_program_hash # lastSync.program
              /\ basic_sync_export_file
           \/ /\ ~compute_program_hash.there \/ compute_program_hash = lastSync.program
              /\ lastSync' = [lastSync EXCEPT !.frame = 0]
              /\ FileAlone /\ UNCHANGED <<behind, unwritten>>

SyncNext ==
  \/ BasicStarts \/ GuestEdits(<< >>)
  \/ \E line \in SyncTyped : TypeLine(line)
  \/ RemapProgram
  \/ \E text \in SyncTexts : HostWrites(TRUE, text)
  \/ HostWrites(FALSE, << >>)
  \/ basic_sync_update

----------------------------------------------------------------------------
(* A program the text cannot hold: line 0, lines without a statement and       *)
(* statements that repeat their place in a positional file; several lines of   *)
(* one number, or statements that begin with a space, in a numbered one; bytes *)
(* that read as one longer keyword; and a last line that leaves no byte free   *)
(* below HIMEM.                                                                *)
Mangled(program) ==
  \/ Fitting(program) # program
  \/ \E k \in 1 .. Len(program) :
       LET text == detokenize_line_bytes(program[k].bytes)
       IN  \/ tokenize_line_content(text) # program[k].bytes
           \/ syncSetup.positional /\ (program[k].num = 0 \/ text = << >> \/ RepeatsPlace(text, program[k].num))
           \/ ~syncSetup.positional /\ (Begins(text, {Space}) # << >> \/ \E j \in 1 .. k - 1 : program[j].num = program[k].num)

ReadsBack(program) == Imported(Exported(program)) = {program} \/ Mangled(program)

(* At a frame that looks at both and has nothing to read, the program is the  *)
(* file's text, or the text the program's, but for a program that is empty or *)
(* not there, a file that is away, an export the host refused or cut short,   *)
(* and an edit in the very second of the last import or export where only the *)
(* file's time is looked at (basic_sync_update).                              *)
InStep ==
  \/ ~syncFile.there \/ basicProgram = << >> \/ ~basicPointers \/ unwritten
  \/ basicProgram \in Imported(syncFile.text) \/ syncFile.text = Exported(basicProgram)
  \/ ~syncSetup.inotify /\ syncFile.mtime = lastSync.mtime
(* An export replaces the host's text only after the guest has changed the    *)
(* program since, or a change of banks has dropped an import from memory      *)
(* (inject_program_lines marks no page dirty). And the text of a program      *)
(* brings the same program back.                                              *)
BasicStaysInStep ==
  [][/\ basic_sync_update /\ ~FileModified /\ Due => InStep'
     /\ basic_sync_update /\ syncFile'.text # syncFile.text => behind # {}
     /\ basicProgram' # basicProgram => ReadsBack(basicProgram')]_syncVars
============================================================================
