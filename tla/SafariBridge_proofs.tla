------------------------ MODULE SafariBridge_proofs ------------------------
(***************************************************************************)
(* Proofs about the Safari bridge, for any set of requests and any number  *)
(* of crashes: the start flag keeps requests apart in the app, a request   *)
(* is in one place at a time, so that none is lost on its way, and one     *)
(* that was reported as failed is never carried out.                       *)
(***************************************************************************)
EXTENDS SafariBridge, TLAPS

Steps == {"idle", "launch", "wait", "sent", "forward", "done"}
Busy == {"launch", "wait", "forward"}

(* The part of the type that the argument needs.                           *)
FlagType ==
    /\ ext \in [Requests -> Steps]
    /\ toApp \subseteq Requests
    /\ crashes \in Nat

(* The handler's one thread is inside one call.                            *)
OneCall == \A q, r \in Requests : ext[q] \in Busy /\ ext[r] \in Busy => q = r

(* An app that has not cleared the flag, or has answered, has no request.  *)
OnlyInLoop == app = "loop" \/ (serving = <<>> /\ toApp = {})

(* It has one request at most, announced or served.                        *)
OneRequest ==
    /\ serving = <<>> \/ (toApp = {} /\ \E r \in Requests : serving = <<r>>)
    /\ \A q, r \in toApp : q = r

(* While the extension waits, a cleared flag comes from an app that has    *)
(* nothing to do; one that has a request never clears it.                  *)
ClearedByIdle ==
    \A r \in Requests :
        ext[r] \in {"launch", "wait"} /\ ~starting => app = "loop" /\ serving = <<>> /\ toApp = {}

FlagInv == OneCall /\ (crashes = 0 => OnlyInLoop /\ OneRequest /\ ClearedByIdle)

Inv == FlagType /\ FlagInv

LEMMA InitInv == Init => Inv
BY DEF Init, Inv, FlagType, FlagInv, Steps, Busy, OneCall, OnlyInLoop, OneRequest, ClearedByIdle

(* What the extension does for a request keeps the invariant.              *)
LEMMA ExtensionInv ==
    ASSUME Inv, NEW r \in Requests,
           Status(r) \/ BeginRequest(r) \/ LaunchFails(r) \/ Extension(r)
    PROVE  Inv'
<1> USE DEF Inv, FlagType, FlagInv, Steps, Busy, OneCall, OnlyInLoop, OneRequest, ClearedByIdle,
            Goto, Complete, appVars, extVars
<1>1. CASE Status(r)
  BY <1>1 DEF Status
<1>2. CASE BeginRequest(r)
  BY <1>2 DEF BeginRequest, Free
<1>3. CASE LaunchFails(r)
  BY <1>3 DEF LaunchFails
<1>4. CASE Launch(r)
  BY <1>4 DEF Launch
<1>5. CASE AppHasStarted(r)
  BY <1>5 DEF AppHasStarted, Send
<1>6. CASE StartTimeout(r)
  BY <1>6 DEF StartTimeout
<1>7. CASE TakeResponse(r)
  BY <1>7 DEF TakeResponse, Free
<1>8. CASE Forward(r)
  BY <1>8 DEF Forward
<1> QED
  BY <1>1, <1>2, <1>3, <1>4, <1>5, <1>6, <1>7, <1>8 DEF Extension

(* What the app and the user do keeps the invariant.                       *)
LEMMA AppInv ==
    ASSUME Inv,
           \/ App \/ UserStartsApp \/ UserClosesAbout \/ Crash \/ UNCHANGED vars
           \/ \E r \in Requests : ControllerFinished(r)
    PROVE  Inv'
<1> USE DEF Inv, FlagType, FlagInv, Steps, Busy, OneCall, OnlyInLoop, OneRequest, ClearedByIdle,
            appVars, extVars, vars
<1>1. CASE Observe \/ ReadStarting
  BY <1>1 DEF Observe, ReadStarting
<1>2. CASE TakeStarting
  BY <1>2 DEF TakeStarting
<1>3. CASE \E r \in Requests : ReceiveRequest(r)
  <2> PICK r \in Requests : ReceiveRequest(r)
    BY <1>3
  <2>1. CASE UNCHANGED serving
    BY <2>1 DEF ReceiveRequest
  <2>2. CASE serving' = Append(serving, r) /\ crashes = 0
    <3>1. serving = <<>> /\ toApp = {r}
      BY <2>2 DEF ReceiveRequest
    <3>2. serving' = <<r>> /\ toApp' = {}
      BY <2>2, <3>1 DEF ReceiveRequest
    <3>3. app = "loop"
      BY <2>2, <3>1
    <3> QED
      BY <2>2, <3>1, <3>2, <3>3 DEF ReceiveRequest
  <2>3. CASE crashes # 0
    BY <2>3 DEF ReceiveRequest
  <2> QED
    BY <2>1, <2>2, <2>3 DEF ReceiveRequest
<1>4. CASE \E r \in Requests : ControllerFinished(r)
  BY <1>4 DEF ControllerFinished
<1>5. CASE AnswerRequest
  <2>1. CASE crashes = 0
    <3>1. PICK r \in Requests : serving = <<r>> /\ toApp = {}
      BY <1>5, <2>1 DEF AnswerRequest
    <3>2. Len(serving) = 1
      BY <3>1
    <3>3. serving' = <<>>
      BY <1>5, <3>1, <3>2 DEF AnswerRequest, Front
    <3> QED
      BY <1>5, <2>1, <3>1, <3>3 DEF AnswerRequest
  <2>2. CASE crashes # 0
    BY <1>5, <2>2 DEF AnswerRequest
  <2> QED
    BY <2>1, <2>2
<1>6. CASE Exit \/ UserClosesAbout \/ UserStartsApp
  BY <1>6 DEF Exit, UserClosesAbout, UserStartsApp
<1>7. CASE Crash
  BY <1>7 DEF Crash
<1>8. CASE UNCHANGED vars
  BY <1>8
<1> QED
  BY <1>1, <1>2, <1>3, <1>4, <1>5, <1>6, <1>7, <1>8 DEF App

LEMMA Invariance == Spec => []Inv
<1>1. Inv /\ [Next]_vars => Inv'
  BY ExtensionInv, AppInv DEF Next
<1> QED
  BY InitInv, <1>1, PTL DEF Spec

(* No second Controller is started inside the event loop of the first, as  *)
(* long as the app does not crash.                                         *)
THEOREM OneRequestAtATime == Spec => []OneAtATime
<1>1. ASSUME Inv, crashes = 0
      PROVE  Len(serving) <= 1
  <2>1. CASE serving = <<>>
    BY <2>1
  <2>2. CASE \E r \in Requests : serving = <<r>>
    <3>1. PICK r \in Requests : serving = <<r>>
      BY <2>2
    <3> QED
      BY <3>1
  <2> QED
    BY <1>1, <2>1, <2>2 DEF Inv, FlagInv, OneRequest
<1>2. Inv => OneAtATime
  BY <1>1 DEF OneAtATime
<1> QED
  BY <1>2, Invariance, PTL

-----------------------------------------------------------------------------
(* A request is in one place at a time: announced to the app, in one of    *)
(* the app's nested calls, or announced to the extension, which has it as  *)
(* sent then.                                                              *)

Apart(s) == \A i, j \in 1 .. Len(s) : s[i] = s[j] => i = j

PlaceType ==
    /\ ext \in [Requests -> Steps]
    /\ answers \in [Requests -> Seq(Results)]
    /\ messages \in [Requests -> Results \cup {NoMessage, "request"}]
    /\ toApp \subseteq Requests /\ toExt \subseteq Requests
    /\ serving \in Seq(Requests) /\ Apart(serving)

OnePlace ==
    /\ \A r \in Requests : r \in contexts <=> ext[r] \in {"sent", "forward"}
    /\ \A r \in toApp :
         ext[r] = "sent" /\ messages[r] = "request" /\ r \notin Range(serving) /\ r \notin toExt
    /\ \A r \in Range(serving) : ext[r] = "sent" /\ r \notin toExt
    /\ \A r \in toExt : ext[r] = "sent" /\ messages[r] \in {"result", "unfinished"}
    /\ \A r \in Requests : ext[r] = "forward" => resp \in {"result", "unfinished"}

(* An answer is the last thing that happens to a request.                  *)
AnsweredLast ==
    /\ served \subseteq {r \in Requests : ext[r] \in {"sent", "forward", "done"}}
    /\ \A r \in Requests : ext[r] # "done" => answers[r] = <<>>
    /\ FailedIsNeverServed

PlaceInv == PlaceType /\ OnePlace /\ AnsweredLast

LEMMA RangeOfNothing == Range(<<>>) = {} /\ Apart(<<>>)
BY DEF Range, Apart

LEMMA RangeOfOne ==
    ASSUME NEW x
    PROVE  Range(<<x>>) = {x} /\ Len(<<x>>) = 1
BY DEF Range

LEMMA RangeOfAppend ==
    ASSUME NEW s \in Seq(Requests), NEW r \in Requests, Apart(s), r \notin Range(s)
    PROVE  /\ Append(s, r) \in Seq(Requests) /\ Apart(Append(s, r))
           /\ Range(Append(s, r)) = Range(s) \cup {r}
<1> DEFINE t == Append(s, r)
<1>1. /\ t \in Seq(Requests) /\ Len(t) = Len(s) + 1 /\ t[Len(s) + 1] = r
      /\ \A i \in 1 .. Len(s) : t[i] = s[i] /\ s[i] # r
      /\ DOMAIN t = 1 .. Len(s) + 1 /\ DOMAIN s = 1 .. Len(s) /\ Len(s) \in Nat
  BY DEF Range
<1> HIDE DEF t
<1>2. Apart(t)
  BY <1>1 DEF Apart
<1>3. Range(t) = Range(s) \cup {r}
  <2>1. Range(t) \subseteq Range(s) \cup {r}
    <3> SUFFICES ASSUME NEW i \in 1 .. Len(s) + 1 PROVE t[i] \in Range(s) \cup {r}
      BY <1>1 DEF Range
    <3>1. i \in 1 .. Len(s) \/ i = Len(s) + 1
      BY <1>1
    <3> QED
      BY <1>1, <3>1 DEF Range
  <2>2. \A i \in 1 .. Len(s) : s[i] \in Range(t)
    BY <1>1 DEF Range
  <2>3. Range(s) \subseteq Range(t)
    BY <1>1, <2>2 DEF Range
  <2>4. r \in Range(t)
    BY <1>1 DEF Range
  <2> QED
    BY <2>1, <2>3, <2>4
<1> QED
  BY <1>1, <1>2, <1>3 DEF t

LEMMA RangeOfFront ==
    ASSUME NEW s \in Seq(Requests), s # <<>>, Apart(s)
    PROVE  /\ Front(s) \in Seq(Requests) /\ Apart(Front(s)) /\ Last(s) \in Requests
           /\ Last(s) \in Range(s)
           /\ Range(Front(s)) = Range(s) \ {Last(s)}
<1> DEFINE t == Front(s)
           n == Len(s)
<1>1. n \in Nat /\ n > 0 /\ DOMAIN s = 1 .. n
  OBVIOUS
<1>2. /\ t \in Seq(Requests) /\ Len(t) = n - 1 /\ DOMAIN t = 1 .. n - 1
      /\ \A i \in 1 .. n - 1 : t[i] = s[i]
  BY <1>1 DEF Front
<1>3. Last(s) = s[n] /\ s[n] \in Requests
  BY <1>1 DEF Last
<1> HIDE DEF t, n
<1>4. Apart(t)
  BY <1>1, <1>2 DEF Apart, n
<1>5. \A i \in 1 .. n - 1 : s[i] # s[n]
  BY <1>1 DEF Apart, n
<1>6. Range(t) \subseteq Range(s) \ {s[n]}
  BY <1>1, <1>2, <1>5 DEF Range
<1>7. Range(s) \ {s[n]} \subseteq Range(t)
  <2> SUFFICES ASSUME NEW i \in 1 .. n, s[i] # s[n] PROVE s[i] \in Range(t)
    BY <1>1 DEF Range
  <2>1. i \in 1 .. n - 1
    BY <1>1
  <2> QED
    BY <1>2, <2>1 DEF Range
<1>8. s[n] \in Range(s)
  BY <1>1 DEF Range
<1> QED
  BY <1>2, <1>3, <1>4, <1>6, <1>7, <1>8 DEF t

LEMMA PlaceInitInv == Init => PlaceInv
<1> SUFFICES ASSUME Init PROVE PlaceInv
  OBVIOUS
<1>1. PlaceType /\ OnePlace
  BY RangeOfNothing DEF Init, PlaceType, OnePlace, Steps, NoMessage
<1>2. \A r \in Requests : answers[r] = <<>>
  BY DEF Init
<1>3. AnsweredLast
  BY <1>2, RangeOfNothing DEF Init, AnsweredLast, FailedIsNeverServed
<1> QED
  BY <1>1, <1>3 DEF PlaceInv

(* A request is completed once, with a failure only if it was not sent.    *)
LEMMA CompleteInv ==
    ASSUME PlaceInv, NEW r \in Requests, NEW result \in Results, ext[r] # "done",
           Complete(r, result), UNCHANGED served,
           result = "failed" => ext[r] \notin {"sent", "forward"},
           contexts' \subseteq contexts, r \notin contexts'
    PROVE  AnsweredLast' /\ answers' \in [Requests -> Seq(Results)]
           /\ ext' \in [Requests -> Steps]
<1>1. answers[r] = <<>> /\ answers \in [Requests -> Seq(Results)] /\ ext \in [Requests -> Steps]
  BY DEF PlaceInv, PlaceType, AnsweredLast
<1>2. /\ ext' = [ext EXCEPT ![r] = "done"]
      /\ answers' = [answers EXCEPT ![r] = Append(@, result)]
  BY DEF Complete, Goto
<1>3. answers'[r] = <<result>>
  BY <1>1, <1>2
<1>4. answers' \in [Requests -> Seq(Results)] /\ ext' \in [Requests -> Steps]
  BY <1>1, <1>2 DEF Steps
<1>5. \A q \in Requests \ {r} : answers'[q] = answers[q] /\ ext'[q] = ext[q]
  BY <1>1, <1>2
<1>6. ext'[r] = "done"
  BY <1>1, <1>2
<1>7. result = "failed" => r \notin served
  BY <1>1 DEF PlaceInv, AnsweredLast
<1>8. FailedIsNeverServed'
  <2> SUFFICES ASSUME NEW q \in Requests
               PROVE  /\ Len(answers'[q]) <= 1
                      /\ "failed" \in Range(answers'[q]) => q \notin served' /\ q \notin contexts'
    BY DEF FailedIsNeverServed
  <2>1. CASE q = r
    <3>1. Len(<<result>>) = 1 /\ Range(<<result>>) = {result}
      BY RangeOfOne
    <3>2. answers'[q] = <<result>>
      BY <1>3, <2>1
    <3>3. Len(answers'[q]) = 1 /\ Range(answers'[q]) = {result}
      BY <3>1, <3>2
    <3>4. result = "failed" => q \notin served' /\ q \notin contexts'
      BY <1>7, <2>1
    <3> QED
      BY <3>3, <3>4
  <2>2. CASE q # r
    BY <1>5, <2>2 DEF PlaceInv, AnsweredLast, FailedIsNeverServed
  <2> QED
    BY <2>1, <2>2
<1> QED
  BY <1>4, <1>5, <1>6, <1>8 DEF PlaceInv, AnsweredLast

(* A step that completes nothing keeps what is known of the answers.       *)
LEMMA OthersKeepAnswers ==
    ASSUME PlaceInv, UNCHANGED answers, ext' \in [Requests -> Steps],
           \A q \in Requests : q \in contexts' => q \in contexts \/ ext[q] # "done",
           \A q \in Requests : ext[q] = "done" => ext'[q] = "done",
           \A q \in Requests : ext'[q] = "done" => ext[q] = "done",
           served' \subseteq served \cup {q \in Requests : ext[q] = "sent"},
           \A q \in served' : ext'[q] \in {"sent", "forward", "done"}
    PROVE  AnsweredLast'
<1>1. AnsweredLast
  BY DEF PlaceInv
<1>2. \A q \in Requests : ext'[q] # "done" => answers'[q] = <<>>
  BY <1>1 DEF AnsweredLast
<1>3. served' \subseteq {q \in Requests : ext'[q] \in {"sent", "forward", "done"}}
  BY <1>1 DEF AnsweredLast
<1>4. FailedIsNeverServed'
  <2> SUFFICES ASSUME NEW q \in Requests
               PROVE  /\ Len(answers'[q]) <= 1
                      /\ "failed" \in Range(answers'[q]) => q \notin served' /\ q \notin contexts'
    BY DEF FailedIsNeverServed
  <2>1. answers'[q] = answers[q]
    OBVIOUS
  <2>2. CASE ext[q] = "done"
    BY <1>1, <2>1, <2>2 DEF AnsweredLast, FailedIsNeverServed
  <2>3. CASE ext[q] # "done"
    <3>1. answers'[q] = <<>>
      BY <1>1, <2>1, <2>3 DEF AnsweredLast
    <3>2. Range(<<>>) = {}
      BY RangeOfNothing
    <3> QED
      BY <3>1, <3>2
  <2> QED
    BY <2>2, <2>3
<1> QED
  BY <1>2, <1>3, <1>4 DEF AnsweredLast

(* What the extension does for a request keeps the places.                 *)
LEMMA ExtensionPlaces ==
    ASSUME Inv, PlaceInv, NEW r \in Requests,
           Status(r) \/ BeginRequest(r) \/ LaunchFails(r) \/ Extension(r)
    PROVE  PlaceInv'
<1>1. PlaceType /\ OnePlace /\ AnsweredLast /\ OneCall
  BY DEF PlaceInv, Inv, FlagInv
<1>2. ASSUME Status(r) \/ LaunchFails(r) \/ StartTimeout(r)
      PROVE  PlaceInv'
  <2>1. PICK result \in {"version", "failed"} : Complete(r, result)
    BY <1>2 DEF Status, LaunchFails, StartTimeout
  <2>2. /\ ext[r] \in {"idle", "launch", "wait"}
        /\ UNCHANGED <<contexts, resp, messages, toApp, toExt, serving, served>>
    BY <1>2 DEF Status, LaunchFails, StartTimeout, appVars
  <2>3. r \notin contexts'
    BY <1>1, <2>2 DEF OnePlace
  <2>4. AnsweredLast' /\ answers' \in [Requests -> Seq(Results)] /\ ext' \in [Requests -> Steps]
    BY <2>1, <2>2, <2>3, CompleteInv DEF Results
  <2>5. ext' = [ext EXCEPT ![r] = "done"] /\ ext \in [Requests -> Steps]
    BY <1>1, <2>1 DEF Complete, Goto, PlaceType
  <2>6. ext'[r] = "done" /\ \A q \in Requests \ {r} : ext'[q] = ext[q]
    BY <2>5
  <2>7. PlaceType'
    BY <1>1, <2>2, <2>4 DEF PlaceType, Apart
  <2>8. r \notin toApp /\ r \notin toExt /\ r \notin Range(serving)
    BY <1>1, <2>2 DEF OnePlace
  <2>9. Range(serving') = Range(serving) /\ Range(serving) \subseteq Requests
    BY <1>1, <2>2 DEF PlaceType, Range
  <2>10. OnePlace'
    BY <1>1, <2>2, <2>3, <2>6, <2>8, <2>9 DEF OnePlace, PlaceType
  <2> QED
    BY <2>4, <2>7, <2>10 DEF PlaceInv
<1>3. ASSUME BeginRequest(r) \/ Launch(r)
      PROVE  PlaceInv'
  <2>1. /\ ext[r] \in {"idle", "launch"}
        /\ ext' = [ext EXCEPT ![r] = "launch"] \/ ext' = [ext EXCEPT ![r] = "wait"]
        /\ UNCHANGED <<contexts, resp, answers, messages, toApp, toExt, serving, served>>
    BY <1>3 DEF BeginRequest, Launch, Goto, appVars
  <2>2. ext' \in [Requests -> Steps] /\ ext'[r] \in {"launch", "wait"}
        /\ \A q \in Requests \ {r} : ext'[q] = ext[q]
    BY <1>1, <2>1 DEF PlaceType, Steps
  <2>3. PlaceType'
    BY <1>1, <2>1, <2>2 DEF PlaceType, Apart
  <2>4. r \notin toApp /\ r \notin toExt /\ r \notin Range(serving) /\ r \notin contexts
    BY <1>1, <2>1 DEF OnePlace
  <2>5. Range(serving') = Range(serving) /\ Range(serving) \subseteq Requests
    BY <1>1, <2>1 DEF PlaceType, Range
  <2>6. OnePlace'
    BY <1>1, <2>1, <2>2, <2>4, <2>5 DEF OnePlace, PlaceType
  <2>7. r \notin served
    BY <1>1, <2>1 DEF AnsweredLast
  <2>8. \A q \in served' : ext'[q] \in {"sent", "forward", "done"}
    BY <1>1, <2>1, <2>2, <2>7 DEF AnsweredLast
  <2>9. AnsweredLast'
    BY <2>1, <2>2, <2>8, OthersKeepAnswers
  <2> QED
    BY <2>3, <2>6, <2>9 DEF PlaceInv
<1>4. ASSUME AppHasStarted(r)
      PROVE  PlaceInv'
  <2>1. /\ ext[r] = "wait" /\ ext' = [ext EXCEPT ![r] = "sent"]
        /\ contexts' = contexts \cup {r}
        /\ messages' = [messages EXCEPT ![r] = "request"]
        /\ toApp' \subseteq toApp \cup {r}
        /\ UNCHANGED <<resp, answers, toExt, serving, served>>
    BY <1>4 DEF AppHasStarted, Send, Goto, appVars
  <2>2. /\ ext' \in [Requests -> Steps] /\ ext'[r] = "sent"
        /\ messages' \in [Requests -> Results \cup {NoMessage, "request"}]
        /\ messages'[r] = "request"
        /\ \A q \in Requests \ {r} : ext'[q] = ext[q] /\ messages'[q] = messages[q]
    BY <1>1, <2>1 DEF PlaceType, Steps
  <2>3. PlaceType'
    BY <1>1, <2>1, <2>2 DEF PlaceType, Apart
  <2>4. r \notin toApp /\ r \notin toExt /\ r \notin Range(serving) /\ r \notin served
    BY <1>1, <2>1 DEF OnePlace, AnsweredLast
  <2>5. Range(serving') = Range(serving) /\ Range(serving) \subseteq Requests
    BY <1>1, <2>1 DEF PlaceType, Range
  <2>6. OnePlace'
    BY <1>1, <2>1, <2>2, <2>4, <2>5 DEF OnePlace, PlaceType
  <2>7. \A q \in served' : ext'[q] \in {"sent", "forward", "done"}
    BY <1>1, <2>1, <2>2, <2>4 DEF AnsweredLast
  <2>8. AnsweredLast'
    BY <2>1, <2>2, <2>7, OthersKeepAnswers
  <2> QED
    BY <2>3, <2>6, <2>8 DEF PlaceInv
<1>5. ASSUME TakeResponse(r)
      PROVE  PlaceInv'
  <2>1. ext[r] = "sent" /\ messages[r] \in {"result", "unfinished"}
    BY <1>1, <1>5 DEF TakeResponse, OnePlace
  <2>2. /\ ext' = [ext EXCEPT ![r] = "forward"] /\ resp' = messages[r]
        /\ messages' = [messages EXCEPT ![r] = NoMessage] /\ toExt' = toExt \ {r}
        /\ UNCHANGED <<contexts, answers, toApp, serving, served>>
        /\ \A q \in Requests : ext[q] # "forward"
    BY <1>5, <2>1 DEF TakeResponse, Goto, appVars, Free, NoMessage
  <2>3. /\ ext' \in [Requests -> Steps] /\ ext'[r] = "forward"
        /\ messages' \in [Requests -> Results \cup {NoMessage, "request"}]
        /\ \A q \in Requests \ {r} : ext'[q] = ext[q] /\ messages'[q] = messages[q]
    BY <1>1, <2>2 DEF PlaceType, Steps
  <2>4. PlaceType'
    BY <1>1, <2>2, <2>3 DEF PlaceType, Apart
  <2>5. r \notin toApp /\ r \notin Range(serving)
    BY <1>1, <1>5 DEF OnePlace, TakeResponse
  <2>6. Range(serving') = Range(serving) /\ Range(serving) \subseteq Requests
    BY <1>1, <2>2 DEF PlaceType, Range
  <2>7. OnePlace'
    BY <1>1, <2>1, <2>2, <2>3, <2>5, <2>6 DEF OnePlace, PlaceType
  <2>8. \A q \in served' : ext'[q] \in {"sent", "forward", "done"}
    BY <1>1, <2>2, <2>3 DEF AnsweredLast
  <2>9. AnsweredLast'
    BY <2>1, <2>2, <2>3, <2>8, OthersKeepAnswers
  <2> QED
    BY <2>4, <2>7, <2>9 DEF PlaceInv
<1>6. ASSUME Forward(r)
      PROVE  PlaceInv'
  <2>1. /\ ext[r] = "forward" /\ r \in contexts /\ resp \in {"result", "unfinished"}
        /\ \A q \in Requests \ {r} : ext[q] # "forward"
    BY <1>1, <1>6 DEF Forward, OnePlace, OneCall, Busy
  <2>2. /\ contexts' = contexts \ {r} /\ Complete(r, resp)
        /\ UNCHANGED <<messages, toApp, toExt, serving, served>>
    BY <1>6, <2>1 DEF Forward, appVars
  <2>3. resp \in Results /\ resp # "failed"
    BY <2>1 DEF Results
  <2>4. AnsweredLast' /\ answers' \in [Requests -> Seq(Results)] /\ ext' \in [Requests -> Steps]
    BY <2>1, <2>2, <2>3, CompleteInv
  <2>5. ext' = [ext EXCEPT ![r] = "done"] /\ ext \in [Requests -> Steps]
    BY <1>1, <2>2 DEF Complete, Goto, PlaceType
  <2>6. ext'[r] = "done" /\ \A q \in Requests \ {r} : ext'[q] = ext[q]
    BY <2>5
  <2>7. PlaceType'
    BY <1>1, <2>2, <2>4 DEF PlaceType, Apart
  <2>8. r \notin toApp /\ r \notin toExt /\ r \notin Range(serving)
    BY <1>1, <2>1 DEF OnePlace
  <2>9. Range(serving') = Range(serving) /\ Range(serving) \subseteq Requests
    BY <1>1, <2>2 DEF PlaceType, Range
  <2>10. OnePlace'
    BY <1>1, <2>1, <2>2, <2>6, <2>8, <2>9 DEF OnePlace, PlaceType
  <2> QED
    BY <2>4, <2>7, <2>10 DEF PlaceInv
<1> QED
  BY <1>2, <1>3, <1>4, <1>5, <1>6 DEF Extension

(* What the app, the user and the system do keeps the places.              *)
LEMMA AppPlaces ==
    ASSUME PlaceInv,
           \/ App \/ UserStartsApp \/ UserClosesAbout \/ Crash \/ UNCHANGED vars
           \/ \E r \in Requests : ControllerFinished(r)
    PROVE  PlaceInv'
<1>1. PlaceType /\ OnePlace /\ AnsweredLast
  BY DEF PlaceInv
<1>2. UNCHANGED extVars
  BY DEF App, Observe, ReadStarting, TakeStarting, AnswerRequest, Exit, ReceiveRequest,
         UserStartsApp, UserClosesAbout, Crash, ControllerFinished, vars
<1>3. UNCHANGED <<ext, contexts, resp, answers>>
  BY <1>2 DEF extVars
<1>4. Range(serving) \subseteq Requests
  BY <1>1 DEF PlaceType, Range
<1>5. ASSUME UNCHANGED served
      PROVE  AnsweredLast'
  BY <1>1, <1>3, <1>5 DEF AnsweredLast, FailedIsNeverServed
<1>6. ASSUME NEW r \in Requests, ReceiveRequest(r)
      PROVE  PlaceInv'
  <2>1. r \in toApp /\ ext[r] = "sent" /\ messages[r] = "request" /\ r \notin Range(serving)
        /\ r \notin toExt
    BY <1>1, <1>6 DEF ReceiveRequest, OnePlace
  <2>2. /\ messages' = [messages EXCEPT ![r] = NoMessage] /\ toApp' = toApp \ {r}
        /\ serving' = Append(serving, r) /\ served' = served \cup {r} /\ UNCHANGED toExt
    BY <1>6, <2>1 DEF ReceiveRequest
  <2>3. /\ serving' \in Seq(Requests) /\ Apart(serving')
        /\ Range(serving') = Range(serving) \cup {r}
    <3>1. serving \in Seq(Requests) /\ Apart(serving)
      BY <1>1 DEF PlaceType
    <3>2. /\ Append(serving, r) \in Seq(Requests) /\ Apart(Append(serving, r))
          /\ Range(Append(serving, r)) = Range(serving) \cup {r}
      BY <2>1, <3>1, RangeOfAppend
    <3> QED
      BY <2>2, <3>2
  <2>4. /\ messages' \in [Requests -> Results \cup {NoMessage, "request"}]
        /\ \A q \in Requests \ {r} : messages'[q] = messages[q]
    BY <1>1, <2>2 DEF PlaceType
  <2>5. PlaceType'
    BY <1>1, <1>3, <2>2, <2>3, <2>4 DEF PlaceType
  <2>6. OnePlace'
    BY <1>1, <1>3, <1>4, <2>1, <2>2, <2>3, <2>4, <2>5 DEF OnePlace, PlaceType
  <2>7. AnsweredLast'
    <3>1. served' \subseteq served \cup {q \in Requests : ext[q] = "sent"}
      BY <2>1, <2>2
    <3>2. \A q \in served' : ext'[q] \in {"sent", "forward", "done"}
      BY <1>1, <1>3, <2>1, <2>2 DEF AnsweredLast
    <3>3. ext' \in [Requests -> Steps]
      BY <2>5 DEF PlaceType
    <3>4. \A q \in Requests : q \in contexts' => q \in contexts \/ ext[q] # "done"
      BY <1>3
    <3> QED
      BY <1>3, <3>1, <3>2, <3>3, <3>4, OthersKeepAnswers
  <2> QED
    BY <2>5, <2>6, <2>7 DEF PlaceInv
<1>7. ASSUME AnswerRequest
      PROVE  PlaceInv'
  <2> DEFINE r == Last(serving)
  <2>1. serving \in Seq(Requests) /\ Apart(serving) /\ serving # <<>>
    BY <1>1, <1>7 DEF PlaceType, AnswerRequest
  <2>2. /\ Front(serving) \in Seq(Requests) /\ Apart(Front(serving)) /\ r \in Requests
        /\ r \in Range(serving) /\ Range(Front(serving)) = Range(serving) \ {r}
    BY <2>1, RangeOfFront
  <2>3. PICK answer \in {"result", "unfinished"} :
           messages' = [messages EXCEPT ![r] = answer]
    BY <1>7 DEF AnswerRequest
  <2>4. toExt' = toExt \cup {r} /\ serving' = Front(serving) /\ UNCHANGED <<toApp, served>>
    BY <1>7 DEF AnswerRequest
  <2> HIDE DEF r
  <2>5. /\ serving' \in Seq(Requests) /\ Apart(serving')
        /\ Range(serving') = Range(serving) \ {r}
    BY <2>2, <2>4
  <2>6. ext[r] = "sent" /\ r \notin toApp
    BY <1>1, <2>2 DEF OnePlace
  <2>7. /\ messages' \in [Requests -> Results \cup {NoMessage, "request"}]
        /\ messages'[r] \in {"result", "unfinished"}
        /\ \A q \in Requests \ {r} : messages'[q] = messages[q]
    BY <1>1, <2>2, <2>3 DEF PlaceType, Results
  <2>8. PlaceType'
    BY <1>1, <1>3, <2>2, <2>4, <2>5, <2>7 DEF PlaceType
  <2>9. OnePlace'
    BY <1>1, <1>3, <1>4, <2>2, <2>4, <2>5, <2>6, <2>7 DEF OnePlace, PlaceType
  <2> QED
    BY <1>5, <2>4, <2>8, <2>9 DEF PlaceInv
<1>8. ASSUME Exit \/ Crash
      PROVE  PlaceInv'
  <2>1. /\ serving' \in {serving, <<>>} /\ toApp' = {} /\ UNCHANGED <<messages, toExt, served>>
    BY <1>8 DEF Exit, Crash
  <2>2. Range(serving') \subseteq Range(serving) /\ Apart(serving')
    BY <1>1, <2>1, RangeOfNothing DEF PlaceType
  <2>3. PlaceType'
    <3>1. <<>> \in Seq(Requests) /\ serving \in Seq(Requests)
      BY <1>1 DEF PlaceType
    <3>2. serving' \in Seq(Requests)
      BY <2>1, <3>1
    <3> QED
      BY <1>1, <1>3, <2>1, <2>2, <3>2 DEF PlaceType
  <2>4. OnePlace'
    BY <1>1, <1>3, <1>4, <2>1, <2>2 DEF OnePlace
  <2> QED
    BY <1>5, <2>1, <2>3, <2>4 DEF PlaceInv
<1>9. ASSUME UNCHANGED <<messages, toApp, toExt, serving, served>>
      PROVE  PlaceInv'
  <2>1. Range(serving') = Range(serving) /\ Apart(serving')
    BY <1>1, <1>9 DEF PlaceType
  <2>2. PlaceType'
    BY <1>1, <1>3, <1>9, <2>1 DEF PlaceType
  <2>3. OnePlace'
    BY <1>1, <1>3, <1>9, <2>1 DEF OnePlace
  <2> QED
    BY <1>5, <1>9, <2>2, <2>3 DEF PlaceInv
<1>10. CASE Observe \/ ReadStarting \/ TakeStarting \/ UserStartsApp \/ UserClosesAbout
  BY <1>9, <1>10 DEF Observe, ReadStarting, TakeStarting, UserStartsApp, UserClosesAbout
<1>11. CASE UNCHANGED vars \/ \E r \in Requests : ControllerFinished(r)
  BY <1>9, <1>11 DEF ControllerFinished, vars, appVars
<1> QED
  BY <1>6, <1>7, <1>8, <1>10, <1>11 DEF App

LEMMA PlacesInvariance == Spec => [](Inv /\ PlaceInv)
<1>1. Init => Inv /\ PlaceInv
  BY InitInv, PlaceInitInv
<1>2. Inv /\ PlaceInv /\ [Next]_vars => (Inv /\ PlaceInv)'
  BY ExtensionInv, AppInv, ExtensionPlaces, AppPlaces DEF Next
<1> QED
  BY <1>1, <1>2, PTL DEF Spec

(* A request reported as failed is never carried out after all, and none   *)
(* is completed twice, whatever crashes.                                   *)
THEOREM FailedIsNeverEverServed == Spec => []FailedIsNeverServed
<1>1. PlaceInv => FailedIsNeverServed
  BY DEF PlaceInv, AnsweredLast
<1> QED
  BY <1>1, PlacesInvariance, PTL

-----------------------------------------------------------------------------
(* Without a crash no notification of a request is lost: the app observes  *)
(* when the request is posted, and exits only when it has none.            *)

LEMMA ExtensionKeepsHands ==
    ASSUME Inv, PlaceInv, InGoodHands, NEW r \in Requests,
           Status(r) \/ BeginRequest(r) \/ LaunchFails(r) \/ Extension(r)
    PROVE  InGoodHands'
<1>1. OnePlace /\ PlaceType /\ (crashes = 0 => ClearedByIdle) /\ UNCHANGED <<serving, crashes>>
  BY DEF PlaceInv, Inv, FlagInv, Extension, Status, BeginRequest, LaunchFails, Launch,
         AppHasStarted, StartTimeout, TakeResponse, Forward, appVars
<1>2. SUFFICES ASSUME NEW q \in Requests, ext'[q] = "sent", crashes = 0
               PROVE  q \in toApp' \cup Range(serving) \cup toExt'
  BY <1>1 DEF InGoodHands
<1>3. CASE AppHasStarted(r)
  <2>1. Observing /\ toApp' = toApp \cup {r} /\ UNCHANGED toExt
    BY <1>1, <1>2, <1>3 DEF AppHasStarted, Send, ClearedByIdle, Observing
  <2>2. q # r => ext[q] = "sent"
    BY <1>1, <1>2, <1>3 DEF AppHasStarted, Send, Goto, PlaceType
  <2> QED
    BY <1>2, <2>1, <2>2 DEF InGoodHands
<1>4. CASE TakeResponse(r)
  <2>1. messages[r] # NoMessage /\ toExt' = toExt \ {r} /\ UNCHANGED toApp
    BY <1>1, <1>4 DEF TakeResponse, OnePlace, NoMessage
  <2>2. q # r /\ ext[q] = "sent"
    BY <1>1, <1>2, <1>4, <2>1 DEF TakeResponse, Goto, PlaceType
  <2> QED
    BY <1>2, <2>1, <2>2 DEF InGoodHands
<1>5. CASE Status(r) \/ BeginRequest(r) \/ LaunchFails(r) \/ Launch(r) \/ StartTimeout(r)
           \/ Forward(r)
  <2>1. PICK step \in Steps \ {"sent"} : ext' = [ext EXCEPT ![r] = step]
    BY <1>5 DEF Status, BeginRequest, LaunchFails, Launch, StartTimeout, Forward, Complete, Goto,
                Steps
  <2>2. UNCHANGED <<toApp, toExt>>
    BY <1>5 DEF Status, BeginRequest, LaunchFails, Launch, StartTimeout, Forward
  <2>3. ext[q] = "sent"
    BY <1>1, <1>2, <2>1 DEF PlaceType
  <2> QED
    BY <1>2, <2>2, <2>3 DEF InGoodHands
<1> QED
  BY <1>3, <1>4, <1>5 DEF Extension

LEMMA AppKeepsHands ==
    ASSUME Inv, PlaceInv, InGoodHands,
           \/ App \/ UserStartsApp \/ UserClosesAbout \/ Crash \/ UNCHANGED vars
           \/ \E r \in Requests : ControllerFinished(r)
    PROVE  InGoodHands'
<1>1. OnePlace /\ PlaceType /\ (crashes = 0 => OnlyInLoop)
  BY DEF PlaceInv, Inv, FlagInv
<1>2. UNCHANGED ext
  BY DEF App, Observe, ReadStarting, TakeStarting, AnswerRequest, Exit, ReceiveRequest,
         UserStartsApp, UserClosesAbout, Crash, ControllerFinished, vars, extVars
<1>3. CASE \E r \in Requests : ReceiveRequest(r)
  <2>1. PICK r \in Requests : ReceiveRequest(r)
    BY <1>3
  <2>2. /\ r \in toApp /\ messages[r] = "request" /\ r \notin Range(serving)
        /\ serving \in Seq(Requests) /\ Apart(serving)
    BY <1>1, <2>1 DEF ReceiveRequest, OnePlace, PlaceType
  <2>3. /\ toApp' = toApp \ {r} /\ serving' = Append(serving, r)
        /\ UNCHANGED <<toExt, crashes>>
    BY <2>1, <2>2 DEF ReceiveRequest
  <2>4. Range(Append(serving, r)) = Range(serving) \cup {r}
    BY <2>2, RangeOfAppend
  <2>5. toApp' \cup Range(serving') \cup toExt' = toApp \cup Range(serving) \cup toExt
    BY <2>2, <2>3, <2>4
  <2> QED
    BY <1>2, <2>3, <2>5 DEF InGoodHands
<1>4. CASE AnswerRequest
  <2>1. serving \in Seq(Requests) /\ Apart(serving) /\ serving # <<>>
    BY <1>1, <1>4 DEF PlaceType, AnswerRequest
  <2>2. Range(Front(serving)) = Range(serving) \ {Last(serving)} /\ Last(serving) \in Range(serving)
    BY <2>1, RangeOfFront
  <2>3. /\ toExt' = toExt \cup {Last(serving)} /\ serving' = Front(serving)
        /\ UNCHANGED <<toApp, crashes>>
    BY <1>4 DEF AnswerRequest
  <2>4. toApp' \cup Range(serving') \cup toExt' = toApp \cup Range(serving) \cup toExt
    BY <2>2, <2>3
  <2> QED
    BY <1>2, <2>3, <2>4 DEF InGoodHands
<1>5. CASE Exit
  <2>1. crashes = 0 => toApp = {}
    BY <1>1, <1>5 DEF Exit, OnlyInLoop
  <2> QED
    BY <1>2, <1>5, <2>1 DEF Exit, InGoodHands
<1>6. CASE Crash
  <2>1. crashes' # 0
    BY <1>6 DEF Crash, Inv, FlagType
  <2> QED
    BY <2>1 DEF InGoodHands
<1>7. CASE UNCHANGED <<toApp, toExt, serving, crashes>>
  BY <1>2, <1>7 DEF InGoodHands
<1> QED
  BY <1>3, <1>4, <1>5, <1>6, <1>7
     DEF App, Observe, ReadStarting, TakeStarting, UserStartsApp, UserClosesAbout,
         ControllerFinished, vars, appVars

(* A request that has been sent stays in somebody's hands.                 *)
THEOREM SentIsAlwaysInGoodHands == Spec => []InGoodHands
<1>1. Init => InGoodHands
  BY DEF Init, InGoodHands
<1>2. Inv /\ PlaceInv /\ InGoodHands /\ [Next]_vars => InGoodHands'
  BY ExtensionKeepsHands, AppKeepsHands DEF Next
<1> QED
  BY <1>1, <1>2, PlacesInvariance, PTL DEF Spec

-----------------------------------------------------------------------------
(* The rest of the type.                                                   *)

RestType ==
    /\ contexts \subseteq Requests
    /\ resp \in Results \cup {NoMessage}
    /\ starting \in BOOLEAN /\ calm \in BOOLEAN
    /\ app \in {"off", "main", "observing", "starting", "loop", "about", "quitting"}
    /\ finished \subseteq Requests /\ served \subseteq Requests

LEMMA ExtensionType ==
    ASSUME PlaceInv, RestType, NEW r \in Requests,
           Status(r) \/ BeginRequest(r) \/ LaunchFails(r) \/ Extension(r)
    PROVE  RestType'
<1> USE DEF RestType, appVars
<1>1. CASE Status(r) \/ BeginRequest(r) \/ LaunchFails(r)
  BY <1>1 DEF Status, BeginRequest, LaunchFails
<1>2. CASE Launch(r)
  BY <1>2 DEF Launch
<1>3. CASE AppHasStarted(r) \/ StartTimeout(r)
  BY <1>3 DEF AppHasStarted, Send, StartTimeout
<1>4. CASE TakeResponse(r)
  <2>1. r \in toExt /\ messages[r] \in {"result", "unfinished"}
    BY <1>4 DEF TakeResponse, PlaceInv, OnePlace
  <2> QED
    BY <1>4, <2>1 DEF TakeResponse, Results
<1>5. CASE Forward(r)
  BY <1>5 DEF Forward
<1> QED
  BY <1>1, <1>2, <1>3, <1>4, <1>5 DEF Extension

LEMMA AppType ==
    ASSUME PlaceInv, RestType,
           \/ App \/ UserStartsApp \/ UserClosesAbout \/ Crash \/ UNCHANGED vars
           \/ \E r \in Requests : ControllerFinished(r)
    PROVE  RestType'
<1> USE DEF RestType, appVars, extVars, vars
<1>1. CASE Observe \/ ReadStarting \/ TakeStarting \/ Exit
  BY <1>1 DEF Observe, ReadStarting, TakeStarting, Exit
<1>2. CASE AnswerRequest
  BY <1>2 DEF AnswerRequest
<1>3. CASE \E r \in Requests : ReceiveRequest(r) \/ ControllerFinished(r)
  BY <1>3 DEF ReceiveRequest, ControllerFinished
<1>4. CASE UserStartsApp \/ UserClosesAbout \/ Crash \/ UNCHANGED vars
  BY <1>4 DEF UserStartsApp, UserClosesAbout, Crash
<1> QED
  BY <1>1, <1>2, <1>3, <1>4 DEF App

(* What the two processes share and keep stays of its type, for any set of *)
(* requests and any number of crashes.                                     *)
THEOREM TypeCorrect == Spec => []TypeOK
<1>1. Init => RestType
  BY DEF Init, RestType
<1>2. PlaceInv /\ RestType /\ [Next]_vars => RestType'
  BY ExtensionType, AppType DEF Next
<1>3. Inv /\ PlaceInv /\ RestType => TypeOK
  BY DEF Inv, FlagType, PlaceInv, PlaceType, RestType, Steps, TypeOK
<1> QED
  BY <1>1, <1>2, <1>3, PlacesInvariance, PTL DEF Spec

-----------------------------------------------------------------------------
(* Requests one after the other: as long as nothing is late, fails, or is  *)
(* done by others, extension and app go through a request hand in hand.    *)

Active(r) == ext[r] \notin {"idle", "done"}

Quiet == serving = <<>> /\ toApp = {} /\ toExt = {}

(* Where the app is at each step of the request: off when it is launched   *)
(* and when the response is passed on, the flag up until its event loop    *)
(* runs, and then the request or its response with one of the two.         *)
CalmPhase(r) ==
    /\ ext[r] = "launch" => app = "off" /\ starting /\ Quiet
    /\ ext[r] = "wait" =>
         /\ Quiet
         /\ starting => app \in {"main", "observing", "starting"}
         /\ ~starting => app = "loop"
    /\ ext[r] = "sent" =>
         /\ ~starting
         /\ \/ app = "loop" /\ toExt = {} /\ serving = <<>> /\ toApp = {r}
            \/ app = "loop" /\ toExt = {} /\ serving = <<r>> /\ toApp = {}
            \/ /\ app \in {"quitting", "off"} /\ toExt = {r} /\ serving = <<>> /\ toApp = {}
               /\ messages[r] = "result"
    /\ ext[r] = "forward" =>
         ~starting /\ app \in {"quitting", "off"} /\ Quiet /\ resp = "result"

Good == {<<>>, <<"version">>, <<"result">>}

Calm ==
    /\ \A q, r \in Requests : Active(q) /\ Active(r) => q = r
    /\ (\A r \in Requests : ~Active(r)) => app = "off" /\ ~starting /\ Quiet
    /\ \A r \in Requests : CalmPhase(r)
    /\ \A r \in Requests : answers[r] \in Good

CalmInv == calm => Calm

LEMMA CalmInit == Init => CalmInv
BY DEF Init, CalmInv, Calm, Active, CalmPhase, Quiet, Good

(* What a step of one request does to the others when it is the only one.  *)
LEMMA OnlyOne ==
    ASSUME Calm, ext \in [Requests -> Steps], NEW r \in Requests,
           Active(r) \/ \A q \in Requests : ~Active(q),
           NEW step \in Steps, ext' = [ext EXCEPT ![r] = step]
    PROVE  /\ ext'[r] = step
           /\ \A q \in Requests \ {r} : ~Active(q) /\ ~Active(q)' /\ CalmPhase(q)'
           /\ \A p, q \in Requests : Active(p)' /\ Active(q)' => p = q
<1>1. ext'[r] = step /\ \A q \in Requests \ {r} : ext'[q] = ext[q]
  OBVIOUS
<1>2. \A q \in Requests \ {r} : ~Active(q)
  BY DEF Calm
<1>3. \A q \in Requests \ {r} : ~Active(q)' /\ CalmPhase(q)'
  BY <1>1, <1>2 DEF Active, CalmPhase
<1> QED
  BY <1>1, <1>2, <1>3

LEMMA BeginCalm ==
    ASSUME PlaceInv, CalmInv, NEW r \in Requests, BeginRequest(r)
    PROVE  CalmInv'
<1> SUFFICES ASSUME calm' PROVE Calm'
  BY DEF CalmInv
<1>1. /\ Calm /\ ext \in [Requests -> Steps] /\ \A q \in Requests : ~Active(q)
      /\ ext' = [ext EXCEPT ![r] = "launch"] /\ "launch" \in Steps /\ starting'
      /\ UNCHANGED <<answers, toApp, toExt, serving, app>>
  BY DEF BeginRequest, CalmInv, PlaceInv, PlaceType, Goto, appVars, Active, Steps
<1>2. /\ ext'[r] = "launch"
      /\ \A q \in Requests \ {r} : ~Active(q) /\ ~Active(q)' /\ CalmPhase(q)'
      /\ \A p, q \in Requests : Active(p)' /\ Active(q)' => p = q
  BY <1>1, OnlyOne
<1>3. app = "off" /\ Quiet
  BY <1>1 DEF Calm
<1>4. CalmPhase(r)' /\ Active(r)'
  BY <1>1, <1>2, <1>3 DEF CalmPhase, Quiet, Active
<1> QED
  BY <1>1, <1>2, <1>4 DEF Calm

LEMMA StatusCalm ==
    ASSUME PlaceInv, CalmInv, NEW r \in Requests, Status(r)
    PROVE  CalmInv'
<1> SUFFICES ASSUME calm' PROVE Calm'
  BY DEF CalmInv
<1>1. /\ Calm /\ ext \in [Requests -> Steps] /\ answers \in [Requests -> Seq(Results)]
      /\ ext' = [ext EXCEPT ![r] = "done"] /\ ext[r] = "idle"
      /\ answers' = [answers EXCEPT ![r] = Append(@, "version")]
      /\ UNCHANGED <<resp, starting, messages, toApp, toExt, serving, app>>
  BY DEF Status, CalmInv, PlaceInv, PlaceType, Complete, Goto, appVars
<1>2. answers[r] = <<>>
  BY <1>1 DEF PlaceInv, AnsweredLast
<1>3. \A q \in Requests : answers'[q] \in Good
  BY <1>1, <1>2 DEF Calm, Good
<1>4. \A q \in Requests : (q # r => ext'[q] = ext[q]) /\ (q = r => ext'[q] = "done")
  BY <1>1
<1>5. \A q \in Requests : (Active(q)' <=> Active(q)) /\ (Active(q) => ext'[q] = ext[q])
  BY <1>1, <1>4 DEF Active
<1>6. ASSUME NEW q \in Requests PROVE CalmPhase(q)'
  BY <1>1, <1>4 DEF Calm, CalmPhase, Quiet
<1> QED
  BY <1>1, <1>3, <1>5, <1>6 DEF Calm, Quiet

LEMMA LaunchCalm ==
    ASSUME PlaceInv, CalmInv, NEW r \in Requests, Launch(r)
    PROVE  CalmInv'
<1> SUFFICES ASSUME calm' PROVE Calm'
  BY DEF CalmInv
<1>1. /\ Calm /\ ext \in [Requests -> Steps] /\ ext[r] = "launch"
      /\ ext' = [ext EXCEPT ![r] = "wait"] /\ "wait" \in Steps
      /\ app' = (IF app = "off" THEN "main" ELSE app)
      /\ UNCHANGED <<answers, starting, toApp, toExt, serving>>
  BY DEF Launch, CalmInv, PlaceInv, PlaceType, Goto, Steps
<1>2. Active(r)
  BY <1>1 DEF Active
<1>3. /\ ext'[r] = "wait"
      /\ \A q \in Requests \ {r} : ~Active(q) /\ ~Active(q)' /\ CalmPhase(q)'
      /\ \A p, q \in Requests : Active(p)' /\ Active(q)' => p = q
  BY <1>1, <1>2, OnlyOne
<1>4. app = "off" /\ starting /\ Quiet
  BY <1>1 DEF Calm, CalmPhase
<1>5. CalmPhase(r)' /\ Active(r)'
  BY <1>1, <1>3, <1>4 DEF CalmPhase, Quiet, Active
<1> QED
  BY <1>1, <1>3, <1>5 DEF Calm

(* The flag has been cleared by the app that was started for the request,  *)
(* and that now runs its event loop.                                       *)
LEMMA SendCalm ==
    ASSUME PlaceInv, CalmInv, NEW r \in Requests, AppHasStarted(r)
    PROVE  CalmInv'
<1> SUFFICES ASSUME calm' PROVE Calm'
  BY DEF CalmInv
<1>1. /\ Calm /\ ext \in [Requests -> Steps] /\ ext[r] = "wait" /\ ~starting
      /\ ext' = [ext EXCEPT ![r] = "sent"] /\ "sent" \in Steps
      /\ toApp' = IF Observing THEN toApp \cup {r} ELSE toApp
      /\ UNCHANGED <<answers, starting, toExt, serving, app>>
  BY DEF AppHasStarted, Send, CalmInv, PlaceInv, PlaceType, Goto, appVars, Steps
<1>2. Active(r)
  BY <1>1 DEF Active
<1>3. /\ ext'[r] = "sent"
      /\ \A q \in Requests \ {r} : ~Active(q) /\ ~Active(q)' /\ CalmPhase(q)'
      /\ \A p, q \in Requests : Active(p)' /\ Active(q)' => p = q
  BY <1>1, <1>2, OnlyOne
<1>4. app = "loop" /\ Quiet
  BY <1>1 DEF Calm, CalmPhase
<1>5. CalmPhase(r)' /\ Active(r)'
  BY <1>1, <1>3, <1>4 DEF CalmPhase, Quiet, Active, Observing
<1> QED
  BY <1>1, <1>3, <1>5 DEF Calm

(* The app that is waited for is on its way, so that a timeout is late.    *)
LEMMA TimeoutCalm ==
    ASSUME CalmInv, NEW r \in Requests, StartTimeout(r)
    PROVE  ~calm'
BY DEF CalmInv, Calm, CalmPhase, StartTimeout

LEMMA TakeCalm ==
    ASSUME PlaceInv, CalmInv, NEW r \in Requests, TakeResponse(r)
    PROVE  CalmInv'
<1> SUFFICES ASSUME calm' PROVE Calm'
  BY DEF CalmInv
<1>1. /\ Calm /\ ext \in [Requests -> Steps] /\ r \in toExt /\ ext[r] = "sent"
  BY DEF TakeResponse, CalmInv, PlaceInv, PlaceType, OnePlace
<1>2. /\ ~starting /\ app \in {"quitting", "off"} /\ toExt = {r} /\ serving = <<>> /\ toApp = {}
      /\ messages[r] = "result"
  BY <1>1 DEF Calm, CalmPhase
<1>3. /\ ext' = [ext EXCEPT ![r] = "forward"] /\ "forward" \in Steps /\ resp' = "result"
      /\ toExt' = {} /\ UNCHANGED <<answers, starting, toApp, serving, app>>
  BY <1>2 DEF TakeResponse, NoMessage, Goto, appVars, Steps
<1>4. Active(r)
  BY <1>1 DEF Active
<1>5. /\ ext'[r] = "forward"
      /\ \A q \in Requests \ {r} : ~Active(q) /\ ~Active(q)' /\ CalmPhase(q)'
      /\ \A p, q \in Requests : Active(p)' /\ Active(q)' => p = q
  BY <1>1, <1>3, <1>4, OnlyOne
<1>6. CalmPhase(r)' /\ Active(r)'
  BY <1>2, <1>3, <1>5 DEF CalmPhase, Quiet, Active
<1> QED
  BY <1>1, <1>3, <1>5, <1>6 DEF Calm

(* The response is passed on when the app has exited.                      *)
LEMMA ForwardCalm ==
    ASSUME PlaceInv, CalmInv, NEW r \in Requests, Forward(r)
    PROVE  CalmInv'
<1> SUFFICES ASSUME calm' PROVE Calm'
  BY DEF CalmInv
<1>1. /\ Calm /\ ext \in [Requests -> Steps] /\ answers \in [Requests -> Seq(Results)]
      /\ ext[r] = "forward" /\ r \in contexts /\ app = "off"
      /\ UNCHANGED <<starting, toApp, toExt, serving, app>>
  BY DEF Forward, CalmInv, PlaceInv, PlaceType, OnePlace, appVars
<1>2. ~starting /\ Quiet /\ resp = "result" /\ answers[r] = <<>>
  BY <1>1 DEF Calm, CalmPhase, PlaceInv, AnsweredLast
<1>3. /\ ext' = [ext EXCEPT ![r] = "done"] /\ "done" \in Steps
      /\ answers' = [answers EXCEPT ![r] = Append(@, "result")]
  BY <1>1, <1>2 DEF Forward, Complete, Goto, Steps
<1>4. Active(r)
  BY <1>1 DEF Active
<1>5. /\ ext'[r] = "done"
      /\ \A q \in Requests \ {r} : ~Active(q) /\ ~Active(q)' /\ CalmPhase(q)'
      /\ \A p, q \in Requests : Active(p)' /\ Active(q)' => p = q
  BY <1>1, <1>3, <1>4, OnlyOne
<1>6. CalmPhase(r)'
  BY <1>5 DEF CalmPhase
<1>7. \A q \in Requests : answers'[q] \in Good
  BY <1>1, <1>2, <1>3 DEF Calm, Good
<1>8. app' = "off" /\ ~starting' /\ Quiet'
  BY <1>1, <1>2 DEF Quiet
<1> QED
  BY <1>5, <1>6, <1>7, <1>8 DEF Calm

(* A step of the app keeps the phase of the request it is there for; there *)
(* is no app without one.                                                  *)
LEMMA AppStepCalm ==
    ASSUME Calm, UNCHANGED <<ext, answers>>,
           app # "off" \/ UNCHANGED <<app, starting, serving, toApp, toExt>>,
           \A r \in Requests : CalmPhase(r) => CalmPhase(r)'
    PROVE  Calm'
<1>1. \A r \in Requests : Active(r)' <=> Active(r)
  BY DEF Active
<1>2. ASSUME \A r \in Requests : ~Active(r)' PROVE app' = "off" /\ ~starting' /\ Quiet'
  BY <1>1, <1>2 DEF Calm, Quiet
<1> QED
  BY <1>1, <1>2 DEF Calm

LEMMA AppCalm ==
    ASSUME Inv, PlaceInv, CalmInv,
           \/ App \/ UserStartsApp \/ UserClosesAbout \/ Crash \/ UNCHANGED vars
           \/ \E r \in Requests : ControllerFinished(r)
    PROVE  CalmInv'
<1> SUFFICES ASSUME calm' PROVE Calm'
  BY DEF CalmInv
<1>1. ~UserStartsApp /\ ~Crash
  BY DEF UserStartsApp, Crash
<1>2. UNCHANGED <<ext, resp, answers, calm>>
  BY <1>1 DEF App, Observe, ReadStarting, TakeStarting, AnswerRequest, Exit, ReceiveRequest,
         UserClosesAbout, ControllerFinished, vars, extVars
<1>3. Calm /\ ext \in [Requests -> Steps]
  BY <1>2 DEF CalmInv, PlaceInv, PlaceType
<1>4. CASE Observe \/ ReadStarting \/ TakeStarting
  <2>1. app # "off"
    BY <1>4 DEF Observe, ReadStarting, TakeStarting
  <2>2. ASSUME NEW r \in Requests, CalmPhase(r) PROVE CalmPhase(r)'
    BY <1>2, <1>4, <2>2 DEF Observe, ReadStarting, TakeStarting, CalmPhase, Quiet
  <2> QED
    BY <1>2, <1>3, <2>1, <2>2, AppStepCalm
<1>5. CASE \E r \in Requests : ReceiveRequest(r)
  <2>1. PICK r \in Requests : ReceiveRequest(r)
    BY <1>5
  <2>2. ext[r] = "sent" /\ messages[r] = "request" /\ app # "off" /\ r \in toApp
    BY <2>1 DEF ReceiveRequest, PlaceInv, OnePlace
  <2>3. app = "loop" /\ toExt = {} /\ serving = <<>> /\ toApp = {r} /\ ~starting
    BY <1>3, <2>2 DEF Calm, CalmPhase
  <2>4. serving' = <<r>> /\ toApp' = {} /\ UNCHANGED <<toExt, app, starting>>
    BY <2>1, <2>2, <2>3 DEF ReceiveRequest
  <2>5. ASSUME NEW q \in Requests, CalmPhase(q) PROVE CalmPhase(q)'
    <3>1. CASE q = r
      BY <1>2, <2>2, <2>3, <2>4, <3>1 DEF CalmPhase
    <3>2. CASE q # r
      <4>1. ~Active(q)
        BY <1>3, <2>2, <3>2 DEF Calm, Active
      <4> QED
        BY <1>2, <4>1 DEF Active, CalmPhase
    <3> QED
      BY <3>1, <3>2
  <2> QED
    BY <1>2, <1>3, <2>2, <2>5, AppStepCalm
<1>6. CASE AnswerRequest
  <2>1. serving # <<>>
    BY <1>6 DEF AnswerRequest
  <2>2. PICK r \in Requests : Active(r)
    BY <1>3, <2>1 DEF Calm, Quiet
  <2>3. ext[r] = "sent" /\ app = "loop" /\ toExt = {} /\ serving = <<r>> /\ toApp = {} /\ ~starting
    BY <1>3, <2>1, <2>2 DEF Calm, CalmPhase, Quiet, Active, Steps
  <2>4. Last(serving) = r /\ Front(serving) = <<>>
    BY <2>3 DEF Last, Front
  <2>5. /\ messages' = [messages EXCEPT ![r] = "result"] /\ toExt' = {r} /\ serving' = <<>>
        /\ app' = "quitting" /\ UNCHANGED <<toApp, starting>>
    BY <1>6, <2>3, <2>4 DEF AnswerRequest
  <2>6. messages'[r] = "result"
    BY <2>5 DEF PlaceInv, PlaceType
  <2>7. ASSUME NEW q \in Requests, CalmPhase(q) PROVE CalmPhase(q)'
    <3>1. CASE q = r
      BY <1>2, <2>3, <2>5, <2>6, <3>1 DEF CalmPhase
    <3>2. CASE q # r
      <4>1. ~Active(q)
        BY <1>3, <2>2, <3>2 DEF Calm
      <4> QED
        BY <1>2, <4>1 DEF Active, CalmPhase
    <3> QED
      BY <3>1, <3>2
  <2>8. app # "off"
    BY <2>3
  <2> QED
    BY <1>2, <1>3, <2>7, <2>8, AppStepCalm
<1>7. CASE Exit \/ UserClosesAbout
  <2>1. app # "off"
    BY <1>7 DEF Exit, UserClosesAbout
  <2>2. ASSUME NEW r \in Requests, CalmPhase(r) PROVE CalmPhase(r)'
    <3>1. CASE Exit
      <4>1. /\ app = "quitting" /\ app' = "off" /\ serving = <<>> /\ toApp' = {}
            /\ UNCHANGED <<starting, messages, toExt, serving>>
        BY <3>1 DEF Exit
      <4> QED
        BY <1>2, <2>2, <4>1 DEF CalmPhase, Quiet
    <3>2. CASE UserClosesAbout
      <4>1. app = "about"
        BY <3>2 DEF UserClosesAbout
      <4> QED
        BY <1>2, <2>2, <4>1 DEF CalmPhase
    <3> QED
      BY <1>7, <3>1, <3>2
  <2> QED
    BY <1>2, <1>3, <2>1, <2>2, AppStepCalm
<1>8. CASE UNCHANGED vars \/ \E r \in Requests : ControllerFinished(r)
  <2>1. UNCHANGED <<app, starting, serving, toApp, toExt, messages>>
    BY <1>8 DEF vars, appVars, ControllerFinished
  <2>2. ASSUME NEW r \in Requests, CalmPhase(r) PROVE CalmPhase(r)'
    BY <1>2, <2>1, <2>2 DEF CalmPhase, Quiet
  <2> QED
    BY <1>2, <1>3, <2>1, <2>2, AppStepCalm
<1> QED
  BY <1>1, <1>4, <1>5, <1>6, <1>7, <1>8 DEF App

LEMMA CalmInvariance == Spec => []CalmInv
<1>1. ASSUME Inv, PlaceInv, CalmInv, [Next]_vars PROVE CalmInv'
  <2>1. ASSUME NEW r \in Requests,
               Status(r) \/ BeginRequest(r) \/ LaunchFails(r) \/ Extension(r)
        PROVE  CalmInv'
    <3>1. LaunchFails(r) \/ StartTimeout(r) => ~calm'
      BY <1>1, TimeoutCalm DEF LaunchFails
    <3> QED
      BY <1>1, <2>1, <3>1, StatusCalm, BeginCalm, LaunchCalm, SendCalm, TakeCalm, ForwardCalm
         DEF Extension, CalmInv
  <2> QED
    BY <1>1, <2>1, AppCalm DEF Next
<1>2. Inv /\ PlaceInv /\ CalmInv /\ [Next]_vars => CalmInv'
  BY <1>1
<1> QED
  BY CalmInit, <1>2, PlacesInvariance, PTL DEF Spec

(* As long as nothing is late and nobody else starts or kills the app, an  *)
(* app without a page is one whose request is coming or has been answered  *)
(* (IdleAppIsExpected).                                                    *)
THEOREM IdleAppIsAlwaysExpected == Spec => []IdleAppIsExpected
<1>1. ASSUME PlaceInv, CalmInv, calm, app \in {"starting", "loop"}, serving = <<>>
      PROVE  toApp # {} \/ \E r \in Requests : ext[r] = "wait"
  <2>1. PICK r \in Requests : Active(r)
    BY <1>1 DEF CalmInv, Calm
  <2> QED
    BY <1>1, <2>1 DEF CalmInv, Calm, CalmPhase, Active, PlaceInv, PlaceType, Steps
<1>2. PlaceInv /\ CalmInv => IdleAppIsExpected
  BY <1>1 DEF IdleAppIsExpected
<1> QED
  BY <1>2, PlacesInvariance, CalmInvariance, PTL

(* Requests that come one after the other all get their results: the next  *)
(* one never meets the app of the last one (CalmRequestsAreServed).        *)
THEOREM CalmRequestsAlwaysServed == Spec => []CalmRequestsAreServed
<1>1. ASSUME NEW x \in {"version", "result"}
      PROVE  Range(<<x>>) \subseteq {"version", "result"}
  BY RangeOfOne
<1>2. \A s \in Good : Range(s) \subseteq {"version", "result"}
  BY <1>1, RangeOfNothing DEF Good
<1>3. CalmInv => CalmRequestsAreServed
  BY <1>2 DEF CalmInv, Calm, CalmRequestsAreServed
<1> QED
  BY <1>3, CalmInvariance, PTL
=============================================================================
