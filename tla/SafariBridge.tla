---------------------------- MODULE SafariBridge ----------------------------
(***************************************************************************)
(* The two native halves of the Safari extension (src/src/mac): the        *)
(* handler in the extension (safari-extension.mm) and the app (main.mm).   *)
(* They share user defaults, a dictionary that both may write, and wake    *)
(* each other with distributed notifications, which reach only processes   *)
(* that observe them at the time.  The extension starts the app for a      *)
(* request and waits, with a flag in the defaults, until its event loop    *)
(* runs; only then it posts the request.                                   *)
(*                                                                         *)
(* The handler runs on one thread: its dictionary of contexts has no lock. *)
(* A request's nonce is the request.  Ten seconds of polling are one wait  *)
(* that ends because of what it looks at or, at any time, by timeout.      *)
(***************************************************************************)
EXTENDS Naturals, Sequences, SequencesExt

CONSTANTS Requests,    \* the requests of the browser, with their nonces
          MaxCrashes   \* how often the app may crash or be killed

NoMessage == "none"

VARIABLES
    ext,          \* how far the extension is with each request
    contexts,     \* contexts: the requests it has to complete
    resp,         \* the response it holds while it waits for the app to exit
    answers,      \* what each request was completed with
    starting,     \* defaults[WebEidStarting]
    messages,     \* defaults[nonce]
    toApp, toExt, \* notifications on their way, by nonce
    app,          \* the app's process
    serving,      \* nested notificationEvent calls of the app, outermost first
    finished,     \* the served requests whose Controller has finished
    served,       \* the requests for which the app has run a Controller
    crashes,
    calm          \* nothing has come late, failed, or been done by others

extVars == <<ext, contexts, resp, answers>>
appVars == <<app, serving, finished, served>>
vars == <<extVars, starting, messages, toApp, toExt, appVars, crashes, calm>>

Results == {"version", "result", "unfinished", "failed"}

TypeOK ==
    /\ ext \in [Requests -> {"idle", "launch", "wait", "sent", "forward", "done"}]
    /\ contexts \subseteq Requests
    /\ resp \in Results \cup {NoMessage}
    /\ answers \in [Requests -> Seq(Results)]
    /\ starting \in BOOLEAN
    /\ messages \in [Requests -> Results \cup {NoMessage, "request"}]
    /\ toApp \subseteq Requests /\ toExt \subseteq Requests
    /\ app \in {"off", "main", "observing", "starting", "loop", "about", "quitting"}
    /\ serving \in Seq(Requests)
    /\ finished \subseteq Requests /\ served \subseteq Requests
    /\ crashes \in Nat
    /\ calm \in BOOLEAN

Init ==
    /\ ext = [r \in Requests |-> "idle"]
    /\ contexts = {}
    /\ resp = NoMessage
    /\ answers = [r \in Requests |-> <<>>]
    /\ starting = FALSE
    /\ messages = [r \in Requests |-> NoMessage]
    /\ toApp = {} /\ toExt = {}
    /\ app = "off"
    /\ serving = <<>> /\ finished = {} /\ served = {}
    /\ crashes = 0
    /\ calm = TRUE

-----------------------------------------------------------------------------
(* The extension *)

(* The handler's thread is not inside beginRequest... or notificationEvent *)
Free == \A r \in Requests : ext[r] \notin {"launch", "wait", "forward"}

Goto(r, step) == ext' = [ext EXCEPT ![r] = step]

Complete(r, result) ==
    /\ Goto(r, "done")
    /\ answers' = [answers EXCEPT ![r] = Append(@, result)]

(* "status" is answered by the extension itself.                           *)
Status(r) ==
    /\ Free /\ ext[r] = "idle"
    /\ Complete(r, "version")
    /\ UNCHANGED <<contexts, resp, starting, messages, toApp, toExt, appVars, crashes, calm>>

(* execNativeApp finds the app's URL and raises the flag.                  *)
BeginRequest(r) ==
    /\ Free /\ ext[r] = "idle"
    /\ Goto(r, "launch")
    /\ starting' = TRUE
    /\ calm' = (calm /\ \A q \in Requests : ext[q] \in {"idle", "done"})
    /\ UNCHANGED <<contexts, resp, answers, messages, toApp, toExt, appVars, crashes>>

(* There is no app, or launchApplication returns NO: the flag stays.       *)
LaunchFails(r) ==
    /\ \/ Free /\ ext[r] = "idle"
       \/ ext[r] = "launch"
    /\ Complete(r, "failed")
    /\ calm' = FALSE
    /\ UNCHANGED <<contexts, resp, starting, messages, toApp, toExt, appVars, crashes>>

(* An app that runs already is only brought to the front.                  *)
Launch(r) ==
    /\ ext[r] = "launch"
    /\ Goto(r, "wait")
    /\ app' = IF app = "off" THEN "main" ELSE app
    /\ UNCHANGED <<contexts, resp, answers, starting, messages, toApp, toExt,
                   serving, finished, served, crashes, calm>>

(* The app observes WebEidApp from the first line of main to its exit.     *)
Observing == app \notin {"off", "main"}

Send(r) ==
    /\ Goto(r, "sent")
    /\ contexts' = contexts \cup {r}
    /\ messages' = [messages EXCEPT ![r] = "request"]
    /\ toApp' = IF Observing THEN toApp \cup {r} ELSE toApp

(* Plausible bug: the request is posted as soon as the app has been launched *)
AppHasStarted_Blind(r) ==
    /\ ext[r] = "wait"
    /\ Send(r)
    /\ UNCHANGED <<resp, answers, starting, toExt, appVars, crashes, calm>>

(* The flag has been cleared: the app's event loop runs.                   *)
AppHasStarted(r) ==
    /\ ext[r] = "wait" /\ ~starting
    /\ Send(r)
    /\ UNCHANGED <<resp, answers, starting, toExt, appVars, crashes, calm>>

(* Plausible bug: no return after "Failed to start app" *)
StartTimeout_GoesOn(r) ==
    /\ ext[r] = "wait" /\ starting
    /\ starting' = FALSE
    /\ Complete(r, "failed")
    /\ contexts' = contexts \cup {r}
    /\ messages' = [messages EXCEPT ![r] = "request"]
    /\ toApp' = IF Observing THEN toApp \cup {r} ELSE toApp
    /\ calm' = (calm /\ app \notin {"main", "observing", "starting"})
    /\ UNCHANGED <<resp, toExt, appVars, crashes>>

(* Plausible bug: the wait for the app has no end *)
StartTimeout_Never(r) == FALSE /\ UNCHANGED vars

(* Twenty looks at the flag were in vain; it is taken back.  The app may   *)
(* be slow, or it is one that was running and does not look at the flag.   *)
StartTimeout(r) ==
    /\ ext[r] = "wait" /\ starting
    /\ starting' = FALSE
    /\ Complete(r, "failed")
    /\ calm' = (calm /\ app \notin {"main", "observing", "starting"})
    /\ UNCHANGED <<contexts, resp, messages, toApp, toExt, appVars, crashes>>

(* notificationEvent of the extension, up to its wait for the app's exit.  *)
TakeResponse(r) ==
    /\ Free /\ r \in toExt
    /\ toExt' = toExt \ {r}
    /\ IF messages[r] = NoMessage
       THEN UNCHANGED <<ext, resp, messages>>
       ELSE /\ Goto(r, "forward")
            /\ resp' = messages[r]
            /\ messages' = [messages EXCEPT ![r] = NoMessage]
    /\ UNCHANGED <<contexts, answers, starting, toApp, appVars, crashes, calm>>

(* Plausible bug: the response is passed on while the app is still quitting *)
Forward_AtOnce(r) ==
    /\ ext[r] = "forward"
    /\ contexts' = contexts \ {r}
    /\ Complete(r, resp)
    /\ resp' = NoMessage
    /\ UNCHANGED <<starting, messages, toApp, toExt, appVars, crashes, calm>>

(* The app has exited, or twenty looks found it still running.             *)
Forward(r) ==
    /\ ext[r] = "forward"
    /\ calm' = (calm /\ app = "off")
    /\ contexts' = contexts \ {r}
    /\ IF r \in contexts THEN Complete(r, resp) ELSE Goto(r, "done") /\ UNCHANGED answers
    /\ resp' = NoMessage
    /\ UNCHANGED <<starting, messages, toApp, toExt, appVars, crashes>>

Extension(r) ==
    \/ Launch(r) \/ AppHasStarted(r) \/ StartTimeout(r)
    \/ TakeResponse(r) \/ Forward(r)

-----------------------------------------------------------------------------
(* The app *)

(* main adds its observer before it looks at the flag.                     *)
Observe ==
    /\ app = "main"
    /\ app' = "observing"
    /\ UNCHANGED <<extVars, starting, messages, toApp, toExt, serving, finished, served,
                   crashes, calm>>

(* Started by the extension it goes into its event loop, which first clears *)
(* the flag; started by the user, without arguments, it shows the about     *)
(* page.                                                                    *)
ReadStarting ==
    /\ app = "observing"
    /\ app' = IF starting THEN "starting" ELSE "about"
    /\ UNCHANGED <<extVars, starting, messages, toApp, toExt, serving, finished, served,
                   crashes, calm>>

(* Plausible bug: a timer that fires again and again clears the flag *)
TakeStarting_Again ==
    /\ app \in {"starting", "loop"}
    /\ app' = "loop"
    /\ starting' = FALSE
    /\ UNCHANGED <<extVars, messages, toApp, toExt, serving, finished, served, crashes, calm>>

TakeStarting ==
    /\ app = "starting"
    /\ app' = "loop"
    /\ starting' = FALSE
    /\ UNCHANGED <<extVars, messages, toApp, toExt, serving, finished, served, crashes, calm>>

(* notificationEvent of the app up to Controller::run, in whichever event   *)
(* loop is the innermost.  An unsupported command ends it at once; that is  *)
(* AnswerRequest without anything in between.                               *)
ReceiveRequest(r) ==
    /\ app \in {"starting", "loop", "about"} /\ r \in toApp
    /\ toApp' = toApp \ {r}
    /\ IF messages[r] # "request"
       THEN UNCHANGED <<messages, serving, served>>
       ELSE /\ messages' = [messages EXCEPT ![r] = NoMessage]
            /\ serving' = Append(serving, r)
            /\ served' = served \cup {r}
    /\ UNCHANGED <<extVars, starting, toExt, app, finished, crashes, calm>>

(* The user has answered and Controller::finished ends the request's loop, *)
(* or CommandType() throws.                                                *)
ControllerFinished(r) ==
    /\ r \in Range(serving) \ finished
    /\ app # "quitting"
    /\ finished' = finished \cup {r}
    /\ UNCHANGED <<extVars, starting, messages, toApp, toExt, app, serving, served,
                   crashes, calm>>

(* Plausible bug: the app goes on after its response *)
AnswerRequest_NoQuit ==
    /\ serving # <<>>
    /\ LET r == Last(serving) IN
        /\ r \in finished
        /\ messages' = [messages EXCEPT ![r] = "result"]
        /\ toExt' = toExt \cup {r}
        /\ finished' = finished \ {r}
    /\ serving' = Front(serving)
    /\ UNCHANGED <<extVars, starting, toApp, app, served, crashes, calm>>

(* The rest of notificationEvent.  The innermost call returns first, and   *)
(* quit() ends the loops of all the others.                                *)
AnswerRequest ==
    /\ serving # <<>>
    /\ LET r == Last(serving) IN
        /\ r \in finished \/ app = "quitting"
        /\ messages' = [messages EXCEPT ![r] = IF r \in finished THEN "result" ELSE "unfinished"]
        /\ toExt' = toExt \cup {r}
        /\ finished' = finished \ {r}
    /\ serving' = Front(serving)
    /\ app' = "quitting"
    /\ UNCHANGED <<extVars, starting, toApp, served, crashes, calm>>

(* The process ends; notifications to it are lost with it.                 *)
Exit ==
    /\ app = "quitting" /\ serving = <<>>
    /\ app' = "off"
    /\ toApp' = {}
    /\ UNCHANGED <<extVars, starting, messages, toExt, serving, finished, served, crashes, calm>>

App ==
    \/ Observe \/ ReadStarting \/ TakeStarting \/ AnswerRequest \/ Exit
    \/ \E r \in Requests : ReceiveRequest(r)

-----------------------------------------------------------------------------
(* The user and the system *)

UserStartsApp ==
    /\ app = "off"
    /\ app' = "main"
    /\ calm' = FALSE
    /\ UNCHANGED <<extVars, starting, messages, toApp, toExt, serving, finished, served, crashes>>

UserClosesAbout ==
    /\ app = "about"
    /\ app' = "quitting"
    /\ UNCHANGED <<extVars, starting, messages, toApp, toExt, serving, finished, served,
                   crashes, calm>>

Crash ==
    /\ app # "off" /\ crashes < MaxCrashes
    /\ crashes' = crashes + 1
    /\ app' = "off"
    /\ serving' = <<>> /\ finished' = {} /\ toApp' = {}
    /\ calm' = FALSE
    /\ UNCHANGED <<extVars, starting, messages, toExt, served>>

Next ==
    \/ \E r \in Requests :
        \/ Status(r) \/ BeginRequest(r) \/ LaunchFails(r)
        \/ Extension(r)
        \/ ControllerFinished(r)
    \/ App
    \/ UserStartsApp \/ UserClosesAbout \/ Crash

(* Both processes go on, waits time out, and the user answers the dialog.  *)
Fairness ==
    /\ WF_vars(App)
    /\ \A r \in Requests : WF_vars(Extension(r)) /\ WF_vars(ControllerFinished(r))

Spec == Init /\ [][Next]_vars
FairSpec == Spec /\ Fairness

-----------------------------------------------------------------------------
(* Properties *)

(* One request at a time: notificationEvent runs an event loop in which    *)
(* the next notification would start a Controller inside the first one's   *)
(* loop, and end it with quit().  Nothing in main.mm prevents it; the       *)
(* start flag does, which an app that serves a request never clears.  (It  *)
(* takes a crash and an app that the user starts again meanwhile to break  *)
(* it.)                                                                    *)
OneAtATime == crashes = 0 => Len(serving) <= 1

(* A request that the extension has reported as failed to start the app    *)
(* is not carried out later, when the slow app comes up after all; and no  *)
(* request is completed twice.                                             *)
FailedIsNeverServed ==
    \A r \in Requests :
        /\ Len(answers[r]) <= 1
        /\ "failed" \in Range(answers[r]) => r \notin served /\ r \notin contexts

(* A request that has been sent is never lost while the app lives: its     *)
(* notification, the app's handler or the notification of its response is  *)
(* on the way, although nobody asks again for a missed notification.       *)
InGoodHands ==
    \A r \in Requests :
        ext[r] = "sent" /\ crashes = 0 => r \in toApp \cup Range(serving) \cup toExt

(* An app without a page or a request, which the user cannot even see, is  *)
(* there only because a request is coming or its answer has been sent.     *)
IdleAppIsExpected ==
    calm /\ app \in {"starting", "loop"} /\ serving = <<>> =>
        toApp # {} \/ \E r \in Requests : ext[r] = "wait"

(* Requests that come one after the other get their results, as long as    *)
(* nothing is late and nobody else starts or kills the app: the next one   *)
(* never meets the app of the last one, which the extension has seen exit. *)
CalmRequestsAreServed ==
    calm => \A r \in Requests : Range(answers[r]) \subseteq {"version", "result"}

(* Every request is completed, with a result or a failure.                 *)
EveryRequestAnswered ==
    \A r \in Requests : ext[r] = "launch" ~> (ext[r] = "done" \/ crashes > 0)
=============================================================================
