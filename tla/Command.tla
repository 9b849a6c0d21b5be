-------------------------------- MODULE Command --------------------------------
(***************************************************************************)
(* One run of the Python command line: main of python/thuelang/cli.py with *)
(* the interpreter behind it.  The run loop itself is Interpreter; here it *)
(* is what the process does to its surroundings: it starts the processes   *)
(* of its bindings, reads, prints, grows, and ends in one of its ways.     *)
(* Whichever way that is, the reports are written and the bound processes  *)
(* terminated before the status is set.                                    *)
(***************************************************************************)
EXTENDS Integers, FiniteSets

CONSTANTS
    Asked,       \* the sets of reports a command line may ask for
    ExitCode,    \* the codes of the ::- rules of the program
    Bound,       \* its process bindings
    Stubborn,    \* those whose process does not end when it is terminated
    LimitCode,   \* the statuses of the limits it may meet
    MaxInput,    \* bound: the pieces of standard input
    MaxPrinted   \* bound: the pieces printed on each stream

Report == {"coverage", "counts", "metrics", "resources"}
Stream == {"stdout", "stderr"}

ASSUME CommandAssumption ==
    /\ Asked \subseteq SUBSET Report
    /\ ExitCode \subseteq Int /\ LimitCode \subseteq 10 .. 13
    /\ Stubborn \subseteq Bound
    /\ MaxInput \in Nat /\ MaxPrinted \in [Stream -> Nat]

VARIABLES
    asked,     \* the reports this command line asks for
    phase,     \* where main is
    ran,       \* whether the program was run
    exitCode,  \* exit_code
    crashed,   \* whether an exception that main does not catch is on its way
    tried, failed,  \* the reports tried so far, and those of them that failed
    started,   \* the bindings whose process was started
    alive,     \* those whose process is alive
    pending,   \* the stream it is writing to, or "none"
    large,     \* whether the process is larger than the cap
    inPipe,    \* the pieces in the standard input pipe
    pipe, printed       \* the pieces in each output pipe, and all that were printed

mainVars == <<asked, phase, ran, exitCode, crashed, tried, failed>>
childVars == <<started, alive>>
ioVars == <<pending, large, inPipe, pipe, printed>>
commandVars == <<mainVars, childVars, ioVars>>

Phases == {"load", "bind", "run", "report", "cleanup", "exited", "killed"}

CommandTypeOK ==
    /\ asked \in SUBSET Report
    /\ phase \in Phases
    /\ ran \in BOOLEAN /\ crashed \in BOOLEAN /\ large \in BOOLEAN
    /\ exitCode \in Int
    /\ tried \in SUBSET Report /\ failed \in SUBSET tried
    /\ started \in SUBSET Bound /\ alive \in SUBSET started
    /\ pending \in Stream \cup {"none"}
    /\ inPipe \in 0 .. 1
    /\ pipe \in [Stream -> 0 .. 1]
    /\ printed \in [Stream -> Nat]
    /\ \A s \in Stream : printed[s] <= MaxPrinted[s]

CommandInit ==
    /\ asked \in Asked
    /\ phase = "load"
    /\ ran = FALSE /\ exitCode = 0 /\ crashed = FALSE
    /\ tried = {} /\ failed = {}
    /\ started = {} /\ alive = {}
    /\ pending = "none" /\ large = FALSE
    /\ inPipe = 0
    /\ pipe = [s \in Stream |-> 0] /\ printed = [s \in Stream |-> 0]

-----------------------------------------------------------------------------
\* Leaving the try block: to its finally clause, with the code the clause that
\* caught the exception set.

Leave(code, crash) ==
    /\ phase' = "report" /\ exitCode' = code /\ crashed' = crash
    /\ UNCHANGED <<asked, ran, tried, failed, childVars, ioVars>>

\* A RuntimeError; an exception of another kind, which ends the process with status
\* 1 and a traceback; an interrupt.
Fail == Leave(1, FALSE)
Crash == Leave(1, TRUE)
Interrupt == Leave(130, FALSE)

Goto(p) ==
    /\ phase' = p
    /\ UNCHANGED <<asked, exitCode, crashed, tried, failed, childVars, ioVars>>

Load ==
    /\ phase = "load"
    /\ \/ Goto("bind") /\ UNCHANGED ran
       \/ Fail \/ Crash \/ Interrupt

\* --list-rules, or the input override and the scripts.
ListRules == phase = "bind" /\ Leave(0, FALSE)

Bind ==
    /\ phase = "bind"
    /\ \/ Goto("run") /\ ran' = TRUE
       \/ Fail \/ Crash \/ Interrupt

-----------------------------------------------------------------------------
\* The run.

\* The run loop is between two steps, or waits for a pipe it writes to.
Running == phase = "run" /\ pending = "none"

\* _ensure_process: the process of a binding is started when it is first used.
EnsureProcess(b) ==
    /\ Running /\ b \notin started
    /\ started' = started \cup {b} /\ alive' = alive \cup {b}
    /\ UNCHANGED <<mainVars, ioVars>>

ReadInput ==
    /\ Running /\ inPipe > 0
    /\ inPipe' = inPipe - 1
    /\ UNCHANGED <<mainVars, childVars, pending, large, pipe, printed>>

WriteString(s) ==
    /\ Running /\ printed[s] < MaxPrinted[s]
    /\ pending' = s
    /\ UNCHANGED <<mainVars, childVars, large, inPipe, pipe, printed>>

\* A write waits for room in the pipe.
PutOn(s) ==
    /\ pipe[s] = 0
    /\ pipe' = [pipe EXCEPT ![s] = 1]
    /\ printed' = [printed EXCEPT ![s] = @ + 1]

Written ==
    /\ phase = "run" /\ pending # "none"
    /\ PutOn(pending)
    /\ pending' = "none"
    /\ UNCHANGED <<mainVars, childVars, large, inPipe>>

Grow ==
    /\ Running /\ ~large
    /\ large' = TRUE
    /\ UNCHANGED <<mainVars, childVars, pending, inPipe, pipe, printed>>

\* The program quiesces, a ::- rule ends it, a limit, an error.
RunEnds ==
    /\ Running
    /\ \/ \E code \in {0} \cup ExitCode \cup LimitCode : Leave(code, FALSE)
       \/ Fail \/ Crash \/ Interrupt

-----------------------------------------------------------------------------
\* The finally clause, and behind it.

\* Mutant: nothing is reported of a program that a limit or an error stopped.
Due_OnSuccess == IF ran /\ exitCode = 0 THEN asked ELSE asked \cap {"coverage"}

Due == IF ran THEN asked ELSE asked \cap {"coverage"}

ReportOrder == <<"coverage", "counts", "metrics", "resources">>

NextReport(r) ==
    /\ r \in Due \ tried
    /\ \E i \in DOMAIN ReportOrder :
          /\ ReportOrder[i] = r
          /\ \A j \in 1 .. i - 1 : ReportOrder[j] \notin Due \ tried

\* An OSError is kept for later and the other reports are written.
WriteReport(r) ==
    /\ phase = "report" /\ NextReport(r)
    /\ tried' = tried \cup {r} /\ failed' \in {failed, failed \cup {r}}
    /\ UNCHANGED <<asked, phase, ran, exitCode, crashed, childVars, ioVars>>

ReportsDone ==
    /\ phase = "report" /\ Due \subseteq tried
    /\ Goto("cleanup") /\ UNCHANGED ran

\* cleanup waits a second for each process it terminates, and then goes on.
Cleanup ==
    /\ phase = "cleanup" /\ alive \ Stubborn # {}
    /\ alive' = alive \cap Stubborn
    /\ UNCHANGED <<mainVars, started, ioVars>>

\* Mutant: the status of a run whose report failed is the status of the program.
Status_Unreported == exitCode % 256

\* What the caller sees: a code is taken modulo 256.
Status == IF crashed \/ failed # {} THEN 1 ELSE exitCode % 256

\* The trace and the error lines are printed last: there is always something to
\* print here (bound: MaxPrinted).
Finish ==
    /\ phase = "cleanup" /\ alive \subseteq Stubborn
    /\ IF printed["stderr"] = MaxPrinted["stderr"] THEN UNCHANGED <<pipe, printed>>
       ELSE PutOn("stderr")
    /\ phase' = "exited" /\ exitCode' = Status
    /\ UNCHANGED <<asked, ran, crashed, tried, failed, childVars, pending, large, inPipe>>

Main == \/ Load \/ ListRules \/ Bind
        \/ (\E b \in Bound : EnsureProcess(b))
        \/ ReadInput \/ (\E s \in Stream : WriteString(s)) \/ Written \/ Grow \/ RunEnds
        \/ (\E r \in Report : WriteReport(r)) \/ ReportsDone \/ Cleanup \/ Finish

Over == phase \in {"exited", "killed"}
=============================================================================
