-------------------------- MODULE NativeMessaging --------------------------
(***************************************************************************)
(* One run of the program as the browser or the command line sees it:      *)
(* main.cpp, Application::parseArgs, the version message, the length       *)
(* prefix and the command on standard input                                *)
(* (src/src/controller/inputoutputmode.cpp), the response on standard      *)
(* output (writeresponse.cpp), and the help button, which keeps what other *)
(* programs print out of that channel.                                     *)
(*                                                                         *)
(* Between the start of a command and its response the program is          *)
(* "serving"; Controller models that, and the signals that are delivered   *)
(* behind the response because they were posted before disconnect().  A    *)
(* file descriptor may be missing when the help button needs one, and the  *)
(* browser may go away at any time.                                        *)
(***************************************************************************)
EXTENDS Naturals, Sequences

CONSTANTS
    Lengths,    \* lengths a message may announce
    Starts,     \* how the program may be started in this instance
    Descriptors,\* what the help button may find: "free", "none" or "two" left
    MaxLate     \* bound: signals that are delivered behind a response

ASSUME ChannelInputs ==
    /\ Lengths \subseteq Nat
    /\ Starts \subseteq {"stdin", "command", "wrongArguments", "about"}
    /\ Descriptors \subseteq {"free", "none", "two"}
    /\ MaxLate \in Nat

VARIABLES
    process,  \* off, main, reading, serving, fatal, about or leaving
    start,    \* how it was started
    input,    \* what the browser has written to standard input, until it is read
    output,   \* what has arrived from standard output
    stdout,   \* what file descriptor 1 is: the browser's pipe, the same pipe
              \* after the browser has gone, or a broken one
    late,     \* signals of the command that may yet be delivered
    exit,     \* the exit code of the last run
    spoilt    \* history: the help button found no descriptor

channelVars == <<process, start, input, output, stdout, late, exit, spoilt>>

(* A message: the length it announces, whether that many bytes come, what  *)
(* the command is, and whether its arguments are accepted: origin by       *)
(* CertificateReader, the others by the handler itself.                    *)
Messages ==
    [length : Lengths, whole : BOOLEAN,
     command : {"known", "quit", "unknown", "none"},
     arguments : {"valid", "wrongOrigin", "wrongOther"}]

NoMessage == [length |-> 0, whole |-> FALSE, command |-> "none", arguments |-> "valid"]
NoInput == [closed |-> FALSE, message |-> NoMessage, written |-> FALSE]

(* What is printed: a frame with a length prefix, or a line.               *)
Frame(w) == [what |-> w, framed |-> start = "stdin"]
Noise == [what |-> "noise", framed |-> FALSE]

ChannelInit ==
    /\ process = "off" /\ start = "none" /\ exit = "none"
    /\ input = NoInput /\ late = 0
    /\ output = <<>> /\ stdout = "browser" /\ spoilt = FALSE

(* The browser or the user starts the program.                             *)
StartProcess(s) ==
    /\ process = "off"
    /\ process' = "main" /\ start' = s /\ exit' = "none"
    /\ input' = NoInput /\ late' = 0
    /\ output' = <<>> /\ stdout' = "browser" /\ spoilt' = FALSE

(* Writing to a pipe that nobody reads any more ends the process with      *)
(* SIGPIPE, or on Windows is an error that std::cout keeps to itself.      *)
Write(items, next) ==
    \/ /\ stdout = "browser"
       /\ output' = output \o items /\ process' = next
       /\ UNCHANGED exit
    \/ /\ stdout # "browser"
       /\ process' = "off" /\ exit' = "killed"
       /\ UNCHANGED output
    \/ /\ stdout = "gone"
       /\ process' = next
       /\ UNCHANGED <<output, exit>>

(* main: parseArgs, and Controller::run up to the read, which begins with  *)
(* the version message in stdin mode.                                      *)
ParseArgs ==
    /\ process = "main"
    /\ \/ /\ start = "wrongArguments"
          /\ process' = "off" /\ exit' = "-1"
          /\ UNCHANGED output
       \/ start = "about" /\ process' = "about" /\ UNCHANGED <<output, exit>>
       \/ start = "command" /\ process' = "reading" /\ UNCHANGED <<output, exit>>
       \/ start = "stdin" /\ Write(<<Frame("version")>>, "reading")
    /\ UNCHANGED <<start, input, stdout, late, spoilt>>

(* The browser writes a request.                                           *)
BrowserWrites(m) ==
    /\ process \in {"main", "reading"} /\ start = "stdin"
    /\ ~input.written /\ ~input.closed
    /\ input' = [input EXCEPT !.message = m, !.written = TRUE]
    /\ UNCHANGED <<process, start, output, stdout, late, exit, spoilt>>

(* The browser goes away, or disconnects the port: both pipes lose their   *)
(* other end, at any time.                                                 *)
BrowserCloses ==
    /\ process # "off" /\ start = "stdin"
    /\ ~input.closed
    /\ input' = [input EXCEPT !.closed = TRUE]
    /\ stdout' = IF stdout = "browser" THEN "gone" ELSE stdout
    /\ UNCHANGED <<process, start, output, late, exit, spoilt>>

(* The bounds of the length prefix.  Bytes that do not come are zero, and  *)
(* JSON that is cut off or followed by zeros is not accepted.              *)
Readable(m) == m.length >= 5 /\ m.length <= 8192

(* readCommandFromStdin: a JSON object with a command and arguments.       *)
Parsed(m) == Readable(m) /\ m.whole /\ m.command # "none"

(* CommandType's constructor knows the name; "quit" only in stdin mode.    *)
Known(m) == Parsed(m) /\ m.command \in {"known", "quit"}

(* Plausible bug: the end of standard input is not noticed.                *)
MessageRead_Waits ==
    /\ process = "reading" /\ start = "stdin"
    /\ input.written
    /\ input' = [input EXCEPT !.message = NoMessage, !.written = FALSE]
    /\ UNCHANGED <<start, stdout, late, spoilt>>

(* The read takes what was written, or finds nothing.                      *)
MessageRead ==
    /\ process = "reading" /\ start = "stdin"
    /\ input.written \/ input.closed
    /\ input' = [input EXCEPT !.message = NoMessage, !.written = FALSE]
    /\ UNCHANGED <<start, stdout, late, spoilt>>

ReadQuit ==
    /\ MessageRead
    /\ Known(input.message) /\ input.message.command = "quit"
    /\ Write(<<Frame("quit")>>, "leaving")

(* Plausible bug: the program ends without telling the browser.            *)
ReadFails_Silent ==
    /\ MessageRead
    /\ ~Known(input.message)
    /\ process' = "leaving"
    /\ UNCHANGED <<output, exit>>

ReadFails ==
    /\ MessageRead
    /\ ~Known(input.message)
    /\ process' = "fatal"
    /\ UNCHANGED <<output, exit>>

ReadCommand(arguments) ==
    /\ MessageRead
    /\ Known(input.message) /\ input.message.command = "known"
    /\ input.message.arguments = arguments
    /\ process' = IF arguments = "valid" THEN "serving" ELSE "fatal"
    /\ UNCHANGED <<output, exit>>

(* Command-line mode: parseArgs has checked the name and the JSON object,  *)
(* the handler's constructor checks the arguments.                         *)
LineCommand(arguments) ==
    /\ process = "reading" /\ start = "command"
    /\ process' = IF arguments = "valid" THEN "serving" ELSE "fatal"
    /\ UNCHANGED <<start, input, output, stdout, late, exit, spoilt>>

(* The command's result, or "cancelled".  finish() disconnects the threads *)
(* and waits for them; signals they have posted by then are delivered all  *)
(* the same.                                                               *)
Respond(r) ==
    /\ process = "serving"
    /\ Write(<<Frame(r)>>, "leaving")
    /\ late' \in 0 .. MaxLate
    /\ UNCHANGED <<start, input, stdout, spoilt>>

(* onCriticalFailure, before and after the fatal error dialog, whose event *)
(* loop delivers what the threads post.                                    *)
Fail ==
    /\ process = "serving"
    /\ process' = "fatal"
    /\ late' \in 0 .. MaxLate
    /\ UNCHANGED <<start, input, output, stdout, exit, spoilt>>

CloseFatal ==
    /\ process = "fatal"
    /\ Write(<<Frame("fatal")>>, "leaving")
    /\ UNCHANGED <<start, input, stdout, late, spoilt>>

(* A signal is delivered behind the response, or over the fatal error      *)
(* dialog: a result or a cancellation is written and finishes once more;   *)
(* a card event starts another attempt, which may get as far as that.      *)
LateResponse(r) ==
    /\ process \in {"fatal", "leaving"} /\ late > 0
    /\ late' = late - 1
    /\ \/ Write(<<Frame(r)>>, process)
       \/ UNCHANGED <<process, output, exit>>
    /\ UNCHANGED <<start, input, stdout, spoilt>>

(* A failure, or cardsAvailable without a window: the fatal error dialog   *)
(* comes up.  Over another one it is closed before it, and its response    *)
(* written first.                                                          *)
LateFailure ==
    /\ process = "leaving" /\ late > 0
    /\ process' = "fatal"
    /\ late' = late - 1
    /\ UNCHANGED <<start, input, output, stdout, exit, spoilt>>

LateFailureOverFatal ==
    /\ process = "fatal" /\ late > 0
    /\ late' = late - 1
    /\ Write(<<Frame("fatal")>>, "fatal")
    /\ UNCHANGED <<start, input, stdout, spoilt>>

CloseAbout ==
    /\ process = "about"
    /\ process' = "leaving"
    /\ UNCHANGED <<start, input, output, stdout, late, exit, spoilt>>

(* Plausible bug: the browser is opened without redirecting its output.    *)
ClickHelp_Direct ==
    /\ process \in {"serving", "fatal"}
    /\ output' = IF Len(output) < 3 THEN Append(output, Noise) ELSE output
    /\ UNCHANGED <<process, start, input, stdout, late, exit, spoilt>>

(* The help button: standard output is a pipe while the web browser is     *)
(* launched, which prints to it.  Without a descriptor for the pipe        *)
(* nothing is redirected; without a third one, to save standard output,    *)
(* the pipe takes its place for good.                                      *)
ClickHelp ==
    /\ process \in {"serving", "fatal"} /\ ~spoilt
    /\ \E d \in Descriptors :
         /\ spoilt' = (d # "free")
         /\ output' = IF d = "none" /\ stdout = "browser" THEN Append(output, Noise) ELSE output
         /\ stdout' = IF d = "two" THEN "broken" ELSE stdout
    /\ UNCHANGED <<process, start, input, late, exit>>

(* finished() and requestQuit(): the event loop and main() return.         *)
Leave ==
    /\ process = "leaving"
    /\ process' = "off" /\ exit' = "0"
    /\ UNCHANGED <<start, input, output, stdout, late, spoilt>>

-----------------------------------------------------------------------------
Items == [what : {"version", "success", "cancelled", "fatal", "quit", "noise"}, framed : BOOLEAN]

ChannelTypeOK ==
    /\ process \in {"off", "main", "reading", "serving", "fatal", "about", "leaving"}
    /\ start \in Starts \cup {"none"}
    /\ input \in [closed : BOOLEAN, message : Messages \cup {NoMessage}, written : BOOLEAN]
    /\ output \in Seq(Items)
    /\ stdout \in {"browser", "gone", "broken"}
    /\ late \in 0 .. MaxLate
    /\ exit \in {"none", "0", "-1", "killed"}
    /\ spoilt \in BOOLEAN

Answers == {"success", "cancelled", "fatal", "quit"}
Answered == \E i \in 1 .. Len(output) : output[i].what \in Answers

(* A browser reads frames and nothing else: first the version (README.md:  *)
(* 185 "initiates communication by sending its version"), then answers;    *)
(* the command line reads answers without a frame.  What programs started  *)
(* by the help button print is not among them (webeiddialog.cpp:111 "ruins *)
(* the browser-app communication channel"), unless no descriptor was left  *)
(* for the pipe.  That there is one answer cannot be said: Controller's    *)
(* SingleResponse is violated.                                             *)
ChannelIsClean ==
    ~spoilt =>
        \A i \in 1 .. Len(output) :
            /\ output[i].framed = (start = "stdin")
            /\ IF start = "stdin" /\ i = 1 THEN output[i].what = "version"
               ELSE output[i].what \in Answers

(* A run that ends by itself has answered: there is no path from a command *)
(* to exit code 0 without a response, as long as somebody is there to read *)
(* it, and none from arguments that were rejected to one.  The process is  *)
(* killed only for writing to a pipe without a reader.                     *)
ExitMeansAnswered ==
    /\ exit = "0" /\ start \in {"stdin", "command"} => Answered \/ input.closed
    /\ exit = "-1" => ~Answered
    /\ exit = "killed" => spoilt \/ input.closed

(* Every run ends, once the browser has written or closed and the user has *)
(* closed what is shown.                                                   *)
EveryRunEnds == process # "off" ~> process = "off"
=============================================================================
