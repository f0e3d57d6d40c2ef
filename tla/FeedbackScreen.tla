--------------------------- MODULE FeedbackScreen ---------------------------
(***************************************************************************)
(* FeedbackVC on its notifier: Submit asks for the connection, each report *)
(* of one sends the feedback or says that there is none, and the answer    *)
(* closes the screen or says what failed.                                  *)
(***************************************************************************)
EXTENDS Reachability

CONSTANT SubmitLimit    \* how often the user taps Submit with a text

ASSUME SubmitAssumption == SubmitLimit \in Nat

VARIABLES
  screen,      \* "feedback", or what came after it
  submits,     \* the taps on Submit that registered an observer
  requests,    \* the requests in flight
  sent,        \* the requests sent so far
  alerts,      \* the alerts over the screen
  warned,      \* has an alert answered a Submit
  overlay      \* is Loader's view over the window

screenVars   == <<screen, submits, requests, sent, alerts, warned, overlay>>
feedbackVars == <<reachVars, screenVars>>

Touched == main = "free" /\ screen = "feedback" /\ alerts = 0 /\ ~overlay

showAlert(n) == alerts' = alerts + n /\ warned' = TRUE

\* FeedbackVC, and its notifier with it, live as long as it is presented or
\* a request's closure waits; then deinit stops the notifier.
Released ==
  IF screen' = "feedback" \/ requests' > 0
    THEN UNCHANGED <<watched, notifierRunning, serial, held>>
    ELSE stopNotifier(serial) /\ held' = FALSE

---------------------------------------------------------------------------

\* With an empty text only an alert is shown.
submitEmpty ==
  /\ Touched
  /\ alerts' = 1
  /\ UNCHANGED <<reachVars, screen, submits, requests, sent, warned, overlay>>

submitBTNtapped ==
  /\ Touched /\ submits < SubmitLimit
  /\ submits' = submits + 1
  /\ startNotifier
  /\ UNCHANGED <<networkVars, watched, flags, serial, reports, told, notifierRunning, held,
                 screen, requests, sent, alerts, warned, overlay>>

\* The selector runs once for every time an observer was added.
reachabilityChanged ==
  /\ NotifyRuns
  /\ IF ~held THEN UNCHANGED screenVars
     ELSE /\ IF Connection(flags) = "unavailable"
               THEN showAlert(submits) /\ UNCHANGED <<requests, sent, overlay>>
               ELSE /\ requests' = requests + submits /\ sent' = sent + submits
                    /\ overlay' = TRUE
                    /\ UNCHANGED <<alerts, warned>>
          /\ UNCHANGED <<screen, submits>>
  /\ UNCHANGED held

\* dismiss takes away the alerts over the screen, or, without any, the screen
\* itself; the menu below shows its thanks if nothing is over it then.
PostSucceeds ==
  /\ main = "free" /\ requests > 0
  /\ requests' = requests - 1 /\ overlay' = FALSE
  /\ screen' = IF alerts = 0 THEN "success" ELSE screen
  /\ alerts' = IF screen = "feedback" THEN 0 ELSE alerts
  /\ Released
  /\ UNCHANGED <<networkVars, flags, reports, told, main, submits, sent, warned>>

PostFails ==
  /\ main = "free" /\ requests > 0
  /\ requests' = requests - 1 /\ overlay' = FALSE
  /\ showAlert(1) /\ UNCHANGED screen
  /\ Released
  /\ UNCHANGED <<networkVars, flags, reports, told, main, submits, sent>>

AlertClosed ==
  /\ main = "free" /\ alerts > 0
  /\ alerts' = alerts - 1
  /\ UNCHANGED <<reachVars, screen, submits, requests, sent, warned, overlay>>

backBTNtapped ==
  /\ Touched
  /\ screen' = "menu" /\ UNCHANGED requests
  /\ Released
  /\ UNCHANGED <<networkVars, flags, reports, told, main, submits, sent, alerts, warned,
                 overlay>>

---------------------------------------------------------------------------

Notifying == (Starting \/ Serving \/ NetworkChanges) /\ UNCHANGED screenVars

FeedbackNext ==
  \/ Notifying
  \/ submitEmpty
  \/ submitBTNtapped
  \/ reachabilityChanged
  \/ PostSucceeds
  \/ PostFails
  \/ AlertClosed
  \/ backBTNtapped

FeedbackInit ==
  /\ NotifierInit
  /\ screen = "feedback" /\ submits = 0 /\ requests = 0 /\ sent = 0
  /\ alerts = 0 /\ warned = FALSE /\ overlay = FALSE

\* Both queues run what is on them, and every request ends.
FeedbackFairness ==
  /\ WF_feedbackVars(Starting /\ UNCHANGED screenVars)
  /\ WF_feedbackVars(Serving /\ UNCHANGED screenVars)
  /\ WF_feedbackVars(reachabilityChanged)
  /\ WF_feedbackVars(PostSucceeds \/ PostFails)

FeedbackSpec == FeedbackInit /\ [][FeedbackNext]_feedbackVars /\ FeedbackFairness

---------------------------------------------------------------------------
(* Properties.                                                             *)

\* Type correctness of the notifier and of the screen.
FeedbackTypeOK ==
  /\ NotifierTypeOK
  /\ screen \in {"feedback", "menu", "success"}
  /\ submits \in 0..SubmitLimit
  /\ requests \in 0..sent /\ sent \in Nat
  /\ alerts \in Nat /\ warned \in BOOLEAN
  /\ overlay \in BOOLEAN

\* As long as the network does not change, a tap on Submit sends the feedback
\* at most once, although iOS may bring the flags the first look has found
\* (the guard in flags' didSet, and the one in startNotifier).
OneFeedbackPerSubmit == changes = 0 => sent <= submits

\* The first Submit whose notifier starts is answered: the feedback is sent,
\* or an alert says why not.  Later ones need not be: a notifier that runs
\* already reports nothing until the network changes.
SubmitIsAnswered ==
  notifierRunning ~> sent > 0 \/ warned \/ screen # "feedback"
=============================================================================
