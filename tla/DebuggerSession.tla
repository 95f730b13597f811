-------------------------- MODULE DebuggerSession --------------------------
(* The debugger at work: the keys that enter and leave it, the console that   *)
(* pages what a command prints, and the commands that run instructions        *)
(* (Debugger_Console.cpp, Debugger_Cmd_CPU.cpp). The processor is a program   *)
(* of a few instructions and a stack of return addresses.                     *)
EXTENDS Integers, Sequences

CONSTANTS
  DebugCode,        \* [address -> [op, next, to]]: "nop", "jsr", "rts", "jmp", "brk",
                    \* and "io" for an address that is not code memory
  StackBottom,      \* where a return from an empty stack leads
  OverSteps,        \* the steps CmdStepOver allows a subroutine: 0xFFFF
  SessionCommands,  \* the lines the user types, [op] with their arguments
  PageLines,        \* [narrow, full]: console_display_lines - 1
  BufferLines,      \* CONSOLE_BUFFER_HEIGHT
  MaxSessionSteps   \* keys and instructions: a bound of the model

VARIABLES
  debugMode,     \* system_state.mode: "running", "debug" or "stepping"
  stepping,      \* [steps, force, skip]: debug_steps, bForceSingleStepNext, debug_skip_*
  breakOn,       \* [brk, op]: debug_break_on_invalid, debug_break_on_opcode
  debugCpu,      \* [pc, stack]
  stepOver,      \* [left, turns]: CmdStepOver's iterations to come, and the turns its
                 \* loop has made; -1 outside the loop
  console,       \* [buffer, shown, paused, input, full, viewing]
  traceFile,     \* trace_file is open
  announced,     \* history: the address the last stop was announced at
  strayed,       \* history: something other than a step followed that stop
  unannounced,   \* history: an instruction to stop at ran without a stop
  said,          \* history: the number of lines printed
  sessionSteps

sessionVars == <<debugMode, stepping, breakOn, debugCpu, stepOver, console, traceFile,
                 announced, strayed, unannounced, said, sessionSteps>>

ASSUME SessionAssumption ==
  /\ OverSteps \in Nat \ {0} /\ BufferLines \in Nat
  /\ PageLines.narrow \in Nat /\ PageLines.full \in Nat
  /\ \A c \in SessionCommands : /\ c.op \in {"trace", "over"} => c.n \in Nat
                                /\ c.op = "list" => c.lines \in Nat
                                /\ c.op = "go" => /\ c.form \in {"none", "comma", "colon", "help"}
                                                  /\ c.start \in Nat /\ c.arg \in Nat

NoAddress == -1
NoInput == [op |-> "none"]
NoSkip == [start |-> -1, len |-> -1]
OpAt(pc) == DebugCode[pc].op
Least(a, b) == IF a < b THEN a ELSE b

----------------------------------------------------------------------------
(* cpu_step, of a program without data. *)
cpu_step(cpu) ==
  LET i == DebugCode[cpu.pc]
  IN  CASE i.op \in {"nop", "io", "jmp"} -> [cpu EXCEPT !.pc = i.to]
        [] i.op \in {"jsr", "brk"} -> [pc |-> i.to, stack |-> <<i.next>> \o cpu.stack]
        [] i.op = "rts" -> IF cpu.stack = << >> THEN [cpu EXCEPT !.pc = StackBottom]
                           ELSE [pc |-> Head(cpu.stack), stack |-> Tail(cpu.stack)]

(* DebugContinueStepping: a window of skipped addresses sets the steps; an     *)
(* instruction asked for stops the first time it is met and runs the next.     *)
InWindow(skip, pc) == skip.start <= pc /\ pc < skip.start + skip.len
CheckBreakOpcode(pc) ==
  OpAt(pc) = "io" \/ (breakOn.brk /\ OpAt(pc) = "brk") \/ breakOn.op = OpAt(pc)
AskedSteps(s) ==
  CASE s.skip.len <= 0 -> s.steps
    [] s.skip.len > 0 /\ InWindow(s.skip, debugCpu.pc) -> -1
    [] OTHER -> 1
Turn(s, mode, stops, force) ==
  IF s.steps = 0 /\ ~s.force THEN [s |-> s, mode |-> "debug", ran |-> FALSE, hit |-> FALSE]
  ELSE IF stops THEN [s |-> [s EXCEPT !.force = TRUE], mode |-> mode, ran |-> FALSE, hit |-> TRUE]
  ELSE LET left == IF s.steps > 0 THEN s.steps - 1 ELSE s.steps
       IN  [s |-> [s EXCEPT !.steps = left, !.force = force],
            mode |-> IF left = 0 /\ ~force THEN "debug"
                     ELSE IF mode = "debug" THEN "stepping" ELSE mode,
            ran |-> TRUE, hit |-> FALSE]
ContinuedMode(s, mode) == IF s.skip.len > 0 THEN "stepping" ELSE mode
Continued_forced(s, mode) ==      \* a broken Continued: the pass is not used up
  Turn([s EXCEPT !.steps = AskedSteps(s)], ContinuedMode(s, mode),
       ~s.force /\ CheckBreakOpcode(debugCpu.pc), s.force)
Continued(s, mode) ==
  Turn([s EXCEPT !.steps = AskedSteps(s)], ContinuedMode(s, mode),
       ~s.force /\ CheckBreakOpcode(debugCpu.pc), FALSE)
Ran(t) ==
  /\ debugCpu' = IF t.ran THEN cpu_step(debugCpu) ELSE debugCpu
  /\ announced' = IF t.hit THEN debugCpu.pc ELSE IF t.ran THEN NoAddress ELSE announced
  /\ strayed' = IF t.hit \/ t.ran THEN FALSE ELSE strayed
  /\ unannounced' = (unannounced \/ (t.ran /\ CheckBreakOpcode(debugCpu.pc)
                                       /\ announced # debugCpu.pc /\ ~strayed))
DebugContinueStepping(s, mode) ==
  LET t == Continued(s, mode) IN stepping' = t.s /\ debugMode' = t.mode /\ Ran(t)

----------------------------------------------------------------------------
(* The console: what is printed waits in a buffer and is shown by the page. *)
Page(c) == IF c.full THEN PageLines.full ELSE PageLines.narrow
Shows(c, n) == [c EXCEPT !.shown = @ \o SubSeq(c.buffer, 1, n),
                         !.buffer = SubSeq(@, n + 1, Len(@))]
ConsoleBufferTryUnpause(c, n) ==
  LET d == Shows(c, n) IN [d EXCEPT !.paused = d.buffer # << >>, !.input = NoInput]
ConsoleUpdate(c) ==
  IF c.paused THEN c ELSE ConsoleBufferTryUnpause(c, Least(Len(c.buffer), Page(c)))
\* Lines pushed to a full buffer push its first ones to the screen.
ConsoleBufferPush(c, lines) ==
  LET d == [c EXCEPT !.buffer = @ \o lines]
  IN  Shows(d, IF Len(d.buffer) > BufferLines THEN Len(d.buffer) - BufferLines ELSE 0)

\* DebuggerProcessCommand: the echo is line said + 1, shown at once; then the
\* k lines of the command, and the input is reset unless the output waits.
Echoed == [console EXCEPT !.shown = Append(@, said + 1)]
Prints(k) ==
  LET c == IF k = 0 THEN Echoed
           ELSE ConsoleUpdate(ConsoleBufferPush(Echoed, [i \in 1 .. k |-> said + 1 + i]))
  IN  console' = (IF c.paused THEN c ELSE [c EXCEPT !.input = NoInput]) /\ said' = said + 1 + k
ConsoleAlone == UNCHANGED <<console, said>>

----------------------------------------------------------------------------
SessionInit ==
  /\ debugMode = "running"
  /\ stepping = [steps |-> 0, force |-> FALSE, skip |-> [start |-> 0, len |-> 0]]
  /\ breakOn = [brk |-> FALSE, op |-> "none"]
  /\ debugCpu = [pc |-> StackBottom, stack |-> << >>]
  /\ stepOver = [left |-> 0, turns |-> -1]
  /\ console = [buffer |-> << >>, shown |-> << >>, paused |-> FALSE, input |-> NoInput,
                full |-> FALSE, viewing |-> FALSE]
  /\ traceFile = FALSE /\ said = 0 /\ sessionSteps = 0
  /\ announced = NoAddress /\ strayed = FALSE /\ unannounced = FALSE

InLoop == stepOver.turns >= 0
Busy == InLoop \/ stepOver.left > 0      \* CmdStepOver has not returned
SessionStep == ~Busy /\ sessionSteps < MaxSessionSteps /\ sessionSteps' = sessionSteps + 1
HistoryAlone == UNCHANGED <<announced, strayed, unannounced>>
SteppingAlone == HistoryAlone /\ UNCHANGED <<stepping, debugCpu>>

\* linapple_run_frame: frames run in this mode only.
FrameRuns ==
  /\ debugMode = "running" /\ SessionStep
  /\ debugCpu' = cpu_step(debugCpu) /\ strayed' = TRUE
  /\ ConsoleAlone /\ UNCHANGED <<debugMode, stepping, breakOn, stepOver, traceFile, announced, unannounced>>

debug_begin == debugMode' = "debug" /\ UNCHANGED traceFile
debug_end == debugMode' = "running" /\ traceFile' = FALSE
handle_btn_debug ==                \* F7
  /\ SessionStep
  /\ IF debugMode = "debug" THEN debug_end ELSE debug_begin
  /\ SteppingAlone /\ ConsoleAlone /\ UNCHANGED <<breakOn, stepOver>>
handle_btn_run ==                  \* Ctrl-F2
  /\ debugMode # "running" /\ SessionStep
  /\ debug_end
  /\ SteppingAlone /\ ConsoleAlone /\ UNCHANGED <<breakOn, stepOver>>

----------------------------------------------------------------------------
(* G: the window of addresses to skip, after a comma a length, after a colon   *)
(* the last address; any other form prints its help, with the steps set.       *)
SkipWindow(c) ==
  CASE c.form = "none" -> NoSkip
    [] c.form = "comma" -> [start |-> c.start,
                            len |-> (Least(c.start + c.arg, 65536) - c.start) % 65536]
    [] c.form = "colon" -> LET n == c.arg + 1 - c.start
                           IN  [start |-> c.start, len |-> (IF n < 0 THEN -n ELSE n) % 65536]
CmdGo(c) ==
  /\ HistoryAlone /\ UNCHANGED <<debugCpu, breakOn, stepOver, traceFile>>
  /\ \/ /\ c.form = "help"
        /\ stepping' = [stepping EXCEPT !.steps = -1, !.skip = NoSkip]
        /\ UNCHANGED debugMode /\ Prints(2)
     \/ /\ c.form # "help"
        /\ stepping' = [stepping EXCEPT !.steps = -1, !.skip = SkipWindow(c)]
        /\ debugMode' = "stepping" /\ Prints(0)
CmdStepOut ==
  /\ Prints(0) /\ HistoryAlone /\ UNCHANGED <<debugCpu, breakOn, stepOver, traceFile>>
  /\ \/ debugCpu.stack = << >> /\ UNCHANGED <<stepping, debugMode>>
     \/ /\ debugCpu.stack # << >> /\ debugMode' = "stepping"
        /\ stepping' = [stepping EXCEPT !.steps = -1, !.skip = NoSkip]
CmdTrace(n) ==
  /\ DebugContinueStepping([stepping EXCEPT !.steps = n], "stepping")
  /\ Prints(0) /\ UNCHANGED <<breakOn, stepOver, traceFile>>

\* CmdStepOver, and an iteration of it: a trace; after a JSR a CmdStepOut and
\* the loop.
CmdStepOver(n) ==
  /\ stepOver' = [left |-> n, turns |-> -1]
  /\ SteppingAlone /\ UNCHANGED <<debugMode, breakOn, traceFile>> /\ Prints(0)
OverIteration ==
  LET t == Continued([stepping EXCEPT !.steps = 1], "stepping")
      out == OpAt(debugCpu.pc) = "jsr"
      goes == out /\ debugCpu'.stack # << >>
  IN  /\ ~InLoop /\ stepOver.left > 0
      /\ Ran(t)
      /\ stepping' = [t.s EXCEPT !.steps = IF out THEN OverSteps ELSE @,
                                 !.skip = IF goes THEN NoSkip ELSE @]
      /\ debugMode' = IF goes THEN "stepping" ELSE t.mode
      /\ stepOver' = [left |-> stepOver.left - 1, turns |-> IF out THEN 0 ELSE -1]
      /\ ConsoleAlone /\ UNCHANGED <<breakOn, traceFile, sessionSteps>>
OverLoop ==
  /\ InLoop
  /\ ConsoleAlone /\ UNCHANGED <<breakOn, traceFile, sessionSteps>>
  /\ \/ /\ stepping.steps # 0 /\ DebugContinueStepping(stepping, debugMode)
        /\ stepOver' = [stepOver EXCEPT !.turns = Least(@ + 1, 2 * OverSteps + 2)]
     \/ /\ stepping.steps = 0 /\ stepOver' = [stepOver EXCEPT !.turns = -1]
        /\ SteppingAlone /\ UNCHANGED debugMode

\* JSR pushes the high byte of PC, and the low byte of PC - 1.
JsrReturn(pc) == IF pc % 256 = 0 THEN pc + 256 ELSE pc
CmdJump(c) ==      \* JSR address, R PC = address
  /\ debugCpu' = [pc |-> c.to, stack |-> IF c.op = "jsr" THEN <<JsrReturn(debugCpu.pc)>> \o debugCpu.stack
                                         ELSE debugCpu.stack]
  /\ strayed' = TRUE /\ Prints(0)
  /\ UNCHANGED <<debugMode, stepping, breakOn, stepOver, traceFile, announced, unannounced>>
CmdBreakOn(c) ==   \* BRK toggles, BRKOP takes an opcode
  /\ breakOn' = IF c.op = "brk" THEN [breakOn EXCEPT !.brk = ~@] ELSE [breakOn EXCEPT !.op = c.break]
  /\ Prints(0) /\ SteppingAlone /\ UNCHANGED <<debugMode, stepOver, traceFile>>
\* DebuggerProcessCommand: ParseInput counts the words after the first, and a
\* line without any is not executed.
OneWord == Prints(0) /\ SteppingAlone /\ UNCHANGED <<debugMode, breakOn, stepOver, traceFile>>
CmdPrints(c) ==    \* a listing; TF opens or closes the trace file with a line
  /\ traceFile' = IF c.op = "tf" THEN ~traceFile ELSE traceFile
  /\ Prints(IF c.op = "tf" THEN 1 ELSE c.lines)
  /\ SteppingAlone /\ UNCHANGED <<debugMode, breakOn, stepOver>>
CmdWindowViewOutput ==
  /\ console' = [Echoed EXCEPT !.input = NoInput, !.viewing = TRUE] /\ said' = said + 1
  /\ SteppingAlone /\ UNCHANGED <<debugMode, breakOn, stepOver, traceFile>>

ExecuteCommand(c) ==
  \/ c.op = "word" /\ OneWord
  \/ c.op = "go" /\ CmdGo(c)
  \/ c.op = "out" /\ CmdStepOut
  \/ c.op = "trace" /\ CmdTrace(c.n)
  \/ c.op = "over" /\ CmdStepOver(c.n)
  \/ c.op \in {"jsr", "pc"} /\ CmdJump(c)
  \/ c.op \in {"brk", "brkop"} /\ CmdBreakOn(c)
  \/ c.op \in {"tf", "list"} /\ CmdPrints(c)
  \/ c.op = "view" /\ CmdWindowViewOutput

----------------------------------------------------------------------------
(* debugger_process_key: any key ends the view of the Apple's output; while    *)
(* output waits, Space, Return and Tab show a page and Escape shows it all.    *)
AtConsole == debugMode = "debug" /\ SessionStep
KeyOnly == SteppingAlone /\ UNCHANGED <<debugMode, breakOn, stepOver, traceFile, said>>
Waits == console.buffer # << >>
EndsView == AtConsole /\ console.viewing /\ console' = [console EXCEPT !.viewing = FALSE] /\ KeyOnly
TypesLine(c) ==            \* debugger_input_console_char, a line at a time
  /\ debugMode = "debug" /\ ~Busy /\ sessionSteps < MaxSessionSteps
  /\ ~console.viewing /\ ~console.paused /\ console.input = NoInput
  /\ console' = [console EXCEPT !.input = c] /\ KeyOnly /\ UNCHANGED sessionSteps
ShowsMore(all) ==
  /\ AtConsole /\ ~console.viewing /\ Waits
  /\ LET n == Len(console.buffer)
     IN  console' = ConsoleBufferTryUnpause(console, IF all THEN n ELSE Least(n, Page(console)))
  /\ KeyOnly
Return ==
  /\ AtConsole /\ ~console.viewing /\ ~Waits
  /\ \/ console.input # NoInput /\ ExecuteCommand(console.input)
     \/ /\ console.input = NoInput /\ debugMode' = "stepping"
        /\ stepping' = [stepping EXCEPT !.steps = -1, !.skip = NoSkip]
        /\ ConsoleAlone /\ HistoryAlone /\ UNCHANGED <<debugCpu, breakOn, stepOver, traceFile>>
Escape ==
  /\ AtConsole /\ ~console.viewing /\ ~Waits
  /\ \/ console.input # NoInput /\ console' = [console EXCEPT !.input = NoInput] /\ KeyOnly
     \/ /\ console.input = NoInput /\ debug_end
        /\ SteppingAlone /\ ConsoleAlone /\ UNCHANGED <<breakOn, stepOver>>
ToggleFullScreenConsole ==
  /\ AtConsole /\ ~console.viewing /\ ~Waits /\ console.input = NoInput
  /\ console' = [console EXCEPT !.full = ~@] /\ KeyOnly

SessionNext ==
  \/ FrameRuns \/ handle_btn_debug \/ handle_btn_run
  \/ OverIteration \/ OverLoop
  \/ \E c \in SessionCommands : TypesLine(c)
  \/ EndsView \/ ShowsMore(TRUE) \/ ShowsMore(FALSE)
  \/ Return \/ Escape \/ ToggleFullScreenConsole

SessionSpec == SessionInit /\ [][SessionNext]_sessionVars

----------------------------------------------------------------------------
(* Every line printed is shown or waits, in order and once; lines wait only    *)
(* under the prompt that says so, which is why a key typed at any other time   *)
(* is a key typed (debugger_process_key, ConsoleBufferTryUnpause). The machine *)
(* stands still in the mode "stepping" only with steps to make, stepping over  *)
(* a subroutine ends but for a window of skipped addresses, and an instruction *)
(* to stop at runs only after a stop at it, or when the pass that stop gave    *)
(* was carried elsewhere (DebugContinueStepping, CmdStepOver).                 *)
ConsoleInOrder ==
  /\ console.shown \o console.buffer = [i \in 1 .. said |-> i]
  /\ Waits => console.paused
  /\ console.paused => Waits /\ console.input = NoInput
StepsRemain == debugMode = "stepping" => stepping.steps # 0 \/ stepping.force
OverEnds == stepping.skip.len <= 0 => stepOver.turns <= 2 * OverSteps
SessionHolds == ConsoleInOrder /\ StepsRemain /\ OverEnds /\ ~unannounced
============================================================================
