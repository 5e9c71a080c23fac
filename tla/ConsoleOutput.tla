---------------------------- MODULE ConsoleOutput ----------------------------
(***************************************************************************)
(* The console output and the artifacts of one run_js execution: the       *)
(* buffer that the isolate writes, the pages in the execution database,    *)
(* the windows a client reads them through while the script still prints,  *)
(* and the ways a caller is answered: at once with an id, after the run    *)
(* has stopped (wait), by the polling loop of the stateless tool, as a     *)
(* task, or by the library that collects the pages.                        *)
(*                                                                         *)
(* A byte is a number; 0 is the newline, and the bytes Lead and Cont encode *)
(* the character Wide.  A printed line is a sequence of bytes that         *)
(* op_console_write ends with a newline.                                   *)
(***************************************************************************)
EXTENDS Naturals, Sequences, SequencesExt, FiniteSets

CONSTANTS
    Lines,      \* the lines the script prints, in order
    PageSize,   \* PAGE_SIZE
    LineLimit,  \* the line_limit of a client's window
    ByteLimit,  \* the byte_limit of a client's window
    MaxGot,     \* bound: the characters a reader collects before it gives up
    None        \* an absent value

VARIABLES
    exec,   \* the execution: its stage, its record and what it emitted
    console,\* ConsoleLogState: the lines printed, the buffer and the bytes in the tree's pages
    call,   \* the tool call that submitted the execution
    reader  \* a client that reads the output by its id

consoleVars == <<exec, console, call, reader>>

Lead == 8
Cont == 9
Wide == 10
Replacement == 11   \* U+FFFD

Terminal == {"completed", "failed", "timed_out", "cancelled"}

ConsoleStart(kind, mode) ==
    /\ exec = [stage |-> "none", status |-> None, stopped |-> FALSE,
               emitted |-> 0, artifacts |-> 0]
    /\ console = [printed |-> 0, buffer |-> <<>>, stored |-> <<>>]
    /\ call = [kind |-> kind, stage |-> "asking", seen |-> None,
               output |-> None, artifacts |-> 0]
    /\ reader = [mode |-> mode, line |-> IF mode = "collect" THEN 0 ELSE 1, byte |-> 0,
                 seen |-> None, got |-> <<>>, late |-> None,
                 stage |-> IF mode = "none" THEN "done" ELSE "reading"]

-----------------------------------------------------------------------------
(* The writer: console.rs *)

Wrote == FlattenSeq([i \in 1 .. console.printed |-> Append(Lines[i], 0)])
Stored == console.stored

\* write_buffer: every full page of the buffer goes to the tree.
WriteBuffer(c, data) ==
    LET all == c.buffer \o data
        n == Len(all) \div PageSize
    IN [c EXCEPT !.buffer = SubSeq(all, n * PageSize + 1, Len(all)),
                 !.stored = @ \o SubSeq(all, 1, n * PageSize)]

\* flush_buffer: what is left becomes the last page.
FlushBuffer(c) ==
    IF c.buffer = <<>> THEN c
    ELSE [c EXCEPT !.buffer = <<>>, !.stored = @ \o c.buffer]

\* op_console_write.
ConsoleWrite ==
    /\ exec.stage = "script"
    /\ console.printed < Len(Lines)
    /\ console' = [WriteBuffer(console, Append(Lines[console.printed + 1], 0))
                     EXCEPT !.printed = @ + 1]
    /\ UNCHANGED <<exec, call, reader>>

\* artifact(): the keys the script has written so far.
ArtifactWrite ==
    /\ exec.stage = "script"
    /\ exec.emitted = 0
    /\ exec' = [exec EXCEPT !.emitted = 1]
    /\ UNCHANGED <<console, call, reader>>

\* The script returns, throws or is terminated: the console is flushed before
\* the isolate is dropped.
ScriptEnds ==
    /\ exec.stage = "script"
    /\ console' = FlushBuffer(console)
    /\ exec' = [exec EXCEPT !.stage = "flushed"]
    /\ UNCHANGED <<call, reader>>

\* The driver files the artifacts once the blocking task has been joined.
SetArtifacts ==
    /\ exec.stage = "flushed"
    /\ exec' = [exec EXCEPT !.stage = "filed", !.artifacts = exec.emitted]
    /\ UNCHANGED <<console, call, reader>>

\* complete, fail and timed_out only settle a running execution.
Settle ==
    /\ exec.stage = "filed"
    /\ \E s \in {"completed", "failed", "timed_out"} :
          exec' = [exec EXCEPT !.stage = "settled",
                               !.status = IF @ = "running" THEN s ELSE @]
    /\ UNCHANGED <<console, call, reader>>

\* A fault: the waiters are not told.
FaultyMarkStopped ==
    /\ exec.stage = "settled"
    /\ exec' = [exec EXCEPT !.stage = "stopped"]
    /\ UNCHANGED <<console, call, reader>>

\* ExecutionActivity is dropped: mark_stopped.
MarkStopped ==
    /\ exec.stage = "settled"
    /\ exec' = [exec EXCEPT !.stage = "stopped", !.stopped = TRUE]
    /\ UNCHANGED <<console, call, reader>>

\* cancel: the status changes at once; the isolate ends later.  The HTTP
\* route takes no lifecycle lock.
CancelExecution ==
    /\ exec.status = "running"
    /\ exec' = [exec EXCEPT !.status = "cancelled"]
    /\ UNCHANGED <<console, call, reader>>

-----------------------------------------------------------------------------
(* The windows: get_console_output *)

Count(s, c) == Len(SelectSeq(s, LAMBDA b : b = c))
Newlines(s) == Count(s, 0)

\* String::from_utf8_lossy: half of a character becomes a replacement character.
Decode(s) ==
    LET whole(i) == i \in 1 .. Len(s) - 1 /\ s[i] = Lead /\ s[i + 1] = Cont
        starts == SelectSeq([i \in 1 .. Len(s) |-> i], LAMBDA i : ~whole(i - 1))
    IN [k \in DOMAIN starts |->
          IF whole(starts[k]) THEN Wide
          ELSE IF s[starts[k]] \in {Lead, Cont} THEN Replacement ELSE s[starts[k]]]

\* str::len of a decoded string: in UTF-8 the replacement character takes three bytes.
Size(text) == Len(text) + Count(text, Wide) + 2 * Count(text, Replacement)

\* A fault: the offset to resume at is not clamped to what there is.
FaultyByteWindow(full, offset, limit) ==
    LET start == IF offset < Len(full) THEN offset ELSE Len(full)
        end == IF start + limit < Len(full) THEN start + limit ELSE Len(full)
    IN [data |-> Decode(SubSeq(full, start + 1, end)),
        nextLine |-> Newlines(SubSeq(full, 1, end)) + 1,
        nextByte |-> start + limit,
        more |-> end < Len(full)]

\* Byte mode: the slice is decoded by itself.
ByteWindow(full, offset, limit) ==
    LET start == IF offset < Len(full) THEN offset ELSE Len(full)
        end == IF start + limit < Len(full) THEN start + limit ELSE Len(full)
    IN [data |-> Decode(SubSeq(full, start + 1, end)),
        nextLine |-> Newlines(SubSeq(full, 1, end)) + 1,
        nextByte |-> end,
        more |-> end < Len(full)]

\* Where the pieces of split('\n') begin, without an empty last piece.
LineStarts(full) ==
    SelectSeq([i \in 1 .. Len(full) |-> i], LAMBDA i : i = 1 \/ full[i - 1] = 0)

LineEnd(full, start) ==
    CHOOSE e \in start .. Len(full) + 1 :
        /\ e = Len(full) + 1 \/ full[e] = 0
        /\ \A i \in start .. e - 1 : full[i] # 0

\* Line mode: the lines joined by newlines, without a newline at the end.  What is
\* stored so far is decoded as a whole, and bytes are counted after that.
LineWindow(bytes, offset, limit) ==
    LET full == Decode(bytes)
        starts == LineStarts(full)
        skip == IF offset = 0 THEN 0 ELSE offset - 1
        n == IF skip >= Len(starts) THEN 0
             ELSE IF limit < Len(starts) - skip THEN limit ELSE Len(starts) - skip
        first == starts[skip + 1]
        end == LineEnd(full, starts[skip + n])
        endLine == IF n = 0 THEN 0 ELSE offset + n - 1
    IN [data |-> IF n = 0 THEN <<>> ELSE SubSeq(full, first, end - 1),
        nextLine |-> IF endLine > 0 THEN endLine + 1 ELSE 1,
        nextByte |-> IF n = 0 THEN Len(bytes) ELSE Size(SubSeq(full, 1, end - 1)) + 1,
        more |-> skip + n < Len(starts)]

-----------------------------------------------------------------------------
(* The readers *)

\* get_execution_output reads the status first and then the pages.  `late'
\* records whether the execution had stopped before the first read.
ReadStatus ==
    /\ reader.stage = "reading"
    /\ exec.stage # "none"
    /\ Len(reader.got) < MaxGot
    /\ reader' = [reader EXCEPT !.stage = "window", !.seen = exec.status,
                                !.late = IF @ = None THEN exec.stopped ELSE @]
    /\ UNCHANGED <<exec, console, call>>

\* A client that resumes with the next_byte_offset of the last page; it stops
\* once the status it was given is terminal and nothing is left.
ReadBytes ==
    /\ reader.stage = "window"
    /\ reader.mode = "bytes"
    /\ LET w == ByteWindow(Stored, reader.byte, ByteLimit) IN
       reader' = [reader EXCEPT !.got = @ \o w.data, !.byte = w.nextByte, !.line = w.nextLine,
                     !.stage = IF reader.seen \in Terminal /\ ~w.more THEN "done" ELSE "reading"]
    /\ UNCHANGED <<exec, console, call>>

\* A client that resumes with next_line_offset; it restores the newline that
\* the window leaves out.
ReadLines ==
    /\ reader.stage = "window"
    /\ reader.mode = "lines"
    /\ LET w == LineWindow(Stored, reader.line, LineLimit) IN
       reader' = [reader EXCEPT
           !.got = IF w.data = <<>> /\ w.nextLine = 1 THEN @ ELSE @ \o Append(w.data, 0),
           !.byte = w.nextByte, !.line = w.nextLine,
           !.stage = IF reader.seen \in Terminal /\ ~w.more THEN "done" ELSE "reading"]
    /\ UNCHANGED <<exec, console, call>>

\* runJs and collectOutput of the TypeScript client: wait for a terminal
\* status, then append the windows from offset 0 until has_more is false or
\* the cursor does not advance.
Collect ==
    /\ reader.stage = "window"
    /\ reader.mode = "collect"
    /\ LET w == LineWindow(Stored, reader.line, LineLimit) IN
       reader' = IF reader.seen \notin Terminal THEN [reader EXCEPT !.stage = "reading"]
                 ELSE [reader EXCEPT !.got = @ \o w.data,
                         !.line = IF w.more THEN w.nextLine ELSE @,
                         !.stage = IF w.more /\ w.nextLine > reader.line THEN "window" ELSE "done"]
    /\ UNCHANGED <<exec, console, call>>

-----------------------------------------------------------------------------
(* The tool call *)

\* submit_run_js registers the execution.
Submit ==
    /\ call.stage = "asking"
    /\ exec' = [exec EXCEPT !.stage = "script", !.status = "running"]
    /\ call' = [call EXCEPT !.stage = IF call.kind = "async" THEN "answered" ELSE "waiting"]
    /\ UNCHANGED <<console, reader>>

\* wait_for_execution: the activity guard has been dropped.
WaitSettled ==
    /\ call.kind = "wait"
    /\ call.stage = "waiting"
    /\ exec.stopped
    /\ call' = [call EXCEPT !.stage = "answered", !.seen = exec.status,
                            !.output = Decode(Stored), !.artifacts = exec.artifacts]
    /\ UNCHANGED <<exec, console, reader>>

\* The wait is bounded; the answer keeps the id and no output.
WaitTimedOut ==
    /\ call.kind = "wait"
    /\ call.stage = "waiting"
    /\ call' = [call EXCEPT !.stage = "timed_out", !.seen = exec.status]
    /\ UNCHANGED <<exec, console, reader>>

\* run_js_blocking: a poll finds a terminal status and keeps the artifacts of
\* that record.
PollTerminal ==
    /\ call.kind \in {"blocking", "task"}
    /\ call.stage = "waiting"
    /\ exec.status \in Terminal
    /\ call' = [call EXCEPT !.stage = "reading", !.seen = exec.status,
                            !.artifacts = exec.artifacts]
    /\ UNCHANGED <<exec, console, reader>>

\* ... and the whole output is read in line mode afterwards.
AnswerOutput ==
    /\ call.stage = "reading"
    /\ call' = [call EXCEPT !.stage = "answered",
                            !.output = LineWindow(Stored, 1, Len(Stored) + 1).data]
    /\ UNCHANGED <<exec, console, reader>>

\* The polls run out.
PollTimedOut ==
    /\ call.kind \in {"blocking", "task"}
    /\ call.stage = "waiting"
    /\ call' = [call EXCEPT !.stage = "timed_out"]
    /\ UNCHANGED <<exec, console, reader>>

\* tasks/cancel drops the invocation; the execution goes on.
CancelTask ==
    /\ call.kind = "task"
    /\ call.stage \in {"asking", "waiting", "reading"}
    /\ call' = [call EXCEPT !.stage = "cancelled"]
    /\ UNCHANGED <<exec, console, reader>>

Runs == ScriptEnds \/ SetArtifacts \/ Settle \/ MarkStopped
Reads == ReadStatus \/ ReadBytes \/ ReadLines \/ Collect
Answers == WaitSettled \/ PollTerminal \/ AnswerOutput

ConsoleNext ==
    \/ ConsoleWrite \/ ArtifactWrite \/ Runs \/ CancelExecution
    \/ Reads \/ Submit \/ Answers \/ WaitTimedOut \/ PollTimedOut \/ CancelTask

-----------------------------------------------------------------------------
(* Properties *)

Unended(s) == IF s # <<>> /\ s[Len(s)] = 0 THEN SubSeq(s, 1, Len(s) - 1) ELSE s

\* The halves of a character that two windows share, put together again.
Mended(text) ==
    LET half(i) == i \in DOMAIN text /\ text[i] = Replacement
        kept == SelectSeq([i \in DOMAIN text |-> i], LAMBDA i : ~(half(i) /\ half(i - 1)))
    IN [k \in DOMAIN kept |->
          IF half(kept[k]) /\ half(kept[k] + 1) THEN Wide ELSE text[kept[k]]]

\* Whatever the interleaving of the writer, the flush and the reads, the windows a
\* client reads by next_byte_offset are adjacent: every character that lies within
\* one of them is delivered once and in order, and one that a window's end cuts
\* leaves a replacement character in each of the two windows, and no other damage
\* (get_console_output decodes each slice by itself).  All of the output is covered
\* once the execution has ended by itself; a cancelled status may be read before
\* the flush.
BytesResume ==
    reader.mode = "bytes" =>
        /\ reader.byte <= Len(Wrote)
        /\ Mended(reader.got) = Decode(SubSeq(Wrote, 1, reader.byte))
        /\ (reader.stage = "done" /\ reader.seen # "cancelled") => reader.byte = Len(Wrote)

\* A call that waited is answered with the whole output and every artifact,
\* even when the execution was cancelled; the polling call as well unless it
\* was cancelled, and then with a prefix, whose last character may be cut.
CallersTold ==
    call.stage = "answered" =>
        /\ call.kind = "wait" =>
              /\ call.output = Decode(Wrote)
              /\ call.artifacts = exec.emitted
              /\ call.seen \in Terminal
        /\ call.kind \in {"blocking", "task"} =>
              /\ \E n \in 0 .. Len(Wrote) : call.output = Unended(Decode(SubSeq(Wrote, 1, n)))
              /\ call.seen # "cancelled" =>
                    call.output = Unended(Decode(Wrote)) /\ call.artifacts = exec.emitted

\* A client that begins to read once the execution has stopped and resumes
\* with next_line_offset collects every line once.  A client that follows a
\* running script does not: a window may end inside a line, and an empty
\* window sends it back to line 1.
LinesResume ==
    (reader.mode = "lines" /\ reader.stage = "done" /\ reader.late) => reader.got = Decode(Wrote)

\* A caller waits for its answer; it is owed one.
Unsettled == call.stage \in {"asking", "waiting", "reading"}
=============================================================================
