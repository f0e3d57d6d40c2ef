---------------------------- MODULE Reachability ----------------------------
(***************************************************************************)
(* Reachability.swift: one notifier.  The main queue starts it in steps    *)
(* (the callback, the queue it runs on, a first look at the flags), iOS    *)
(* calls back on reachabilitySerialQueue when the network changes, and     *)
(* every new value of flags puts a block on the main queue that posts      *)
(* .reachabilityChanged.  The first look is made on the serial queue too,  *)
(* while the main queue waits for it.                                      *)
(***************************************************************************)
EXTENDS Naturals, Sequences

CONSTANTS Flags,        \* the values of SCNetworkReachabilityFlags, sets of options
          NoFlags,      \* flags is nil
          ChangeLimit,  \* how often the network changes
          FailLimit     \* how often a call of SystemConfiguration fails

ASSUME FlagsAssumption == Flags # {} /\ NoFlags \notin Flags
ASSUME LimitsAssumption == ChangeLimit \in Nat /\ FailLimit \in Nat

VARIABLES
  actual,           \* the network's flags
  changes,          \* how often they have changed
  failures,         \* how many calls have failed
  watched,          \* are the callback and its queue set
  flags,            \* what the notifier knows, or NoFlags
  serial,           \* the blocks on reachabilitySerialQueue
  reports,          \* the notify blocks on the main queue
  told,             \* what the last of them found, or "nothing"
  notifierRunning,
  main,             \* where startNotifier is on the main queue, or "free"
  held              \* is the Reachability object alive

networkVars  == <<actual, changes, failures>>
notifierVars == <<watched, flags, serial, reports, told, notifierRunning, main>>
reachVars    == <<networkVars, notifierVars, held>>

\* A block is a callback of iOS with the flags it brings, or the first look.
Callback(f) == [what |-> "callback", flags |-> f]
FirstLook   == [what |-> "look", flags |-> NoFlags]

Block == [what : {"callback", "look"}, flags : Flags \cup {NoFlags}]

\* The flags' own connection: a device on the cellular network is on it
\* whatever else is set.
Connection(f) ==
  CASE f = NoFlags -> "unavailable"
    [] f # NoFlags /\ "reachable" \notin f -> "unavailable"
    [] f # NoFlags /\ {"reachable", "isWWAN"} \subseteq f -> "cellular"
    [] OTHER ->
         IF \/ "connectionRequired" \notin f
            \/ /\ f \cap {"connectionOnTraffic", "connectionOnDemand"} # {}
               /\ "interventionRequired" \notin f
           THEN "wifi" ELSE "unavailable"

---------------------------------------------------------------------------
(* startNotifier and stopNotifier.                                         *)

\* What is already on the serial queue, callbacks all, may come all the same.
stopNotifier(queued) ==
  /\ watched' = FALSE /\ notifierRunning' = FALSE
  /\ serial' \in {queued, <<>>}

CallFails == failures < FailLimit /\ failures' = failures + 1

\* A notifier that runs is not started again.
startNotifier ==
  main' = IF notifierRunning THEN "free" ELSE "setCallback"

SetCallback ==
  /\ main = "setCallback"
  /\ \/ main' = "setQueue" /\ UNCHANGED <<watched, notifierRunning, serial, failures>>
     \/ main' = "free" /\ CallFails /\ stopNotifier(serial)
  /\ UNCHANGED <<actual, changes, flags, reports, told, held>>

\* iOS may call back with the flags there are.
SetDispatchQueue ==
  /\ main = "setQueue"
  /\ \/ /\ main' = "look" /\ watched' = TRUE
        /\ serial' \in {serial, Append(serial, Callback(actual))}
        /\ UNCHANGED <<notifierRunning, failures>>
     \/ main' = "free" /\ CallFails /\ stopNotifier(serial)
  /\ UNCHANGED <<actual, changes, flags, reports, told, held>>

\* reachabilitySerialQueue.sync: the main queue waits.
setReachabilityFlags ==
  /\ main = "look"
  /\ main' = "wait" /\ serial' = Append(serial, FirstLook)
  /\ UNCHANGED <<networkVars, watched, flags, reports, told, notifierRunning, held>>

StartReturns ==
  /\ main = "started"
  /\ main' = "free" /\ notifierRunning' = TRUE
  /\ UNCHANGED <<networkVars, watched, flags, serial, reports, told, held>>

---------------------------------------------------------------------------
(* The serial queue.                                                       *)

\* Mutant: every value is reported, the same one too.
didSetAlways(f) == flags' = f /\ reports' = reports + 1

\* Mutant: the value is stored past the observer.
setQuietly(f) == flags' = f /\ UNCHANGED reports

\* flags = f, and its observer: a new value puts a block on the main queue.
didSet(f) ==
  /\ flags' = f
  /\ reports' = IF f # flags THEN reports + 1 ELSE reports

\* Mutants: a callback is ignored until the notifier runs; it waits for the
\* main queue.
CallbackWhenRunning ==
  /\ serial # <<>> /\ Head(serial).what = "callback"
  /\ serial' = Tail(serial)
  /\ IF held /\ notifierRunning THEN didSet(Head(serial).flags) ELSE UNCHANGED <<flags, reports>>
  /\ UNCHANGED <<networkVars, watched, told, notifierRunning, main, held>>
CallbackSync ==
  /\ serial # <<>> /\ Head(serial).what = "callback" /\ main = "free"
  /\ serial' = Tail(serial)
  /\ IF held THEN didSet(Head(serial).flags) ELSE UNCHANGED <<flags, reports>>
  /\ UNCHANGED <<networkVars, watched, told, notifierRunning, main, held>>

\* The object may have gone since the callback was made.
CallbackRuns ==
  /\ serial # <<>> /\ Head(serial).what = "callback"
  /\ serial' = Tail(serial)
  /\ IF held THEN didSet(Head(serial).flags) ELSE UNCHANGED <<flags, reports>>
  /\ UNCHANGED <<networkVars, watched, told, notifierRunning, main, held>>

Looking == serial # <<>> /\ Head(serial).what = "look"

LookSucceeds ==
  /\ Looking
  /\ serial' = Tail(serial) /\ main' = "started"
  /\ didSet(actual)
  /\ UNCHANGED <<networkVars, watched, told, notifierRunning, held>>

\* Mutant: the error is thrown to startNotifier's caller and no more.
LookFailsThrowing ==
  /\ Looking
  /\ CallFails
  /\ serial' = Tail(serial) /\ main' = "free"
  /\ UNCHANGED <<actual, changes, watched, notifierRunning, flags, reports, told, held>>

LookFails ==
  /\ Looking
  /\ CallFails
  /\ stopNotifier(Tail(serial)) /\ main' = "free"
  /\ UNCHANGED <<actual, changes, flags, reports, told, held>>

---------------------------------------------------------------------------

NetworkChanges ==
  /\ changes < ChangeLimit /\ changes' = changes + 1
  /\ actual' \in Flags \ {actual}
  /\ serial' = IF watched THEN Append(serial, Callback(actual')) ELSE serial
  /\ UNCHANGED <<failures, watched, flags, reports, told, notifierRunning, main, held>>

\* A notify block; whoever observes .reachabilityChanged runs inside it.
NotifyRuns ==
  /\ main = "free" /\ reports > 0
  /\ reports' = reports - 1
  /\ told' = IF held THEN Connection(flags) ELSE told
  /\ UNCHANGED <<networkVars, watched, flags, serial, notifierRunning, main>>

Starting == SetCallback \/ SetDispatchQueue \/ setReachabilityFlags \/ StartReturns
Serving  == CallbackRuns \/ LookSucceeds \/ LookFails

NotifierInit ==
  /\ actual \in Flags /\ changes = 0 /\ failures = 0
  /\ watched = FALSE /\ flags = NoFlags /\ serial = <<>> /\ reports = 0
  /\ told = "nothing" /\ notifierRunning = FALSE /\ main = "free" /\ held = TRUE

NotifierTypeOK ==
  /\ actual \in Flags /\ changes \in 0..ChangeLimit /\ failures \in 0..FailLimit
  /\ watched \in BOOLEAN /\ flags \in Flags \cup {NoFlags}
  /\ serial \in Seq(Block) /\ reports \in Nat
  /\ told \in {"nothing", "unavailable", "wifi", "cellular"}
  /\ notifierRunning \in BOOLEAN /\ held \in BOOLEAN
  /\ main \in {"free", "setCallback", "setQueue", "look", "wait", "started"}

---------------------------------------------------------------------------
(* Properties.                                                             *)

\* Once the callbacks are served a notifier that runs knows the network's
\* flags, and once the notify blocks have run its observers were told that
\* connection last, whatever changed while it was started (startNotifier sets
\* the callback before it looks).
TellsTheConnection ==
  notifierRunning /\ held /\ serial = <<>> =>
    /\ flags = actual
    /\ reports = 0 => told = Connection(actual)

\* Between two blocks of the main queue the notifier runs exactly if iOS
\* watches the network for it: no failure on the way leaves one without the
\* other (startNotifier, setReachabilityFlags, deinit).
RunsIffWatched == main = "free" => (notifierRunning <=> watched)

\* The main queue never waits for good: what it waits for does not wait for
\* it (reachabilitySerialQueue.sync, notificationQueue.async).
MainReturns == main # "free" ~> main = "free"
=============================================================================
