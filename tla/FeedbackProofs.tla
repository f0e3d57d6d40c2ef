--------------------------- MODULE FeedbackProofs ---------------------------
(***************************************************************************)
(* The notifier and the screen that waits for it: type correctness, that   *)
(* the notifier runs exactly while it is watched, that it tells the        *)
(* connection there is, and that a calm network sends a feedback once, for *)
(* all values of the flags and any number of changes, failures and taps.   *)
(***************************************************************************)
EXTENDS FeedbackScreen, TLAPS

(***************************************************************************)
(* Types.                                                                  *)
(***************************************************************************)

\* What the flags decode to is a connection.
LEMMA ConnectionType ==
  ASSUME NEW f
  PROVE  Connection(f) \in {"unavailable", "wifi", "cellular"}
  BY DEF Connection

\* The blocks the serial queue is given.
LEMMA BlockTypes ==
  /\ FirstLook \in Block
  /\ \A f \in Flags : Callback(f) \in Block
  /\ \A b \in Block : b.flags \in Flags \cup {NoFlags}
  BY DEF FirstLook, Callback, Block

\* The serial queue as a sequence of blocks.
LEMMA SerialTypes ==
  /\ <<>> \in Seq(Block)
  /\ \A s \in Seq(Block), x \in Block : Append(s, x) \in Seq(Block)
  /\ \A s \in Seq(Block) : s # <<>> => Head(s) \in Block /\ Tail(s) \in Seq(Block)
  OBVIOUS

\* The Boolean marks, and the rest.
Marks ==
  /\ watched \in BOOLEAN /\ notifierRunning \in BOOLEAN /\ held \in BOOLEAN
  /\ warned \in BOOLEAN /\ overlay \in BOOLEAN

Values ==
  /\ actual \in Flags /\ changes \in 0..ChangeLimit /\ failures \in 0..FailLimit
  /\ flags \in Flags \cup {NoFlags}
  /\ reports \in Nat
  /\ told \in {"nothing", "unavailable", "wifi", "cellular"}
  /\ main \in {"free", "setCallback", "setQueue", "look", "wait", "started"}
  /\ screen \in {"feedback", "menu", "success"}
  /\ submits \in 0..SubmitLimit
  /\ requests \in 0..sent /\ sent \in Nat
  /\ alerts \in Nat

Blocks == serial \in Seq(Block)

LEMMA TypeParts == FeedbackTypeOK <=> Marks /\ Values /\ Blocks
  BY Zenon DEF FeedbackTypeOK, NotifierTypeOK, Marks, Values, Blocks

\* Every step keeps the marks Boolean.
LEMMA MarksStep ==
  ASSUME Marks, [FeedbackNext]_feedbackVars
  PROVE  Marks'
<1>1. CASE SetCallback /\ UNCHANGED screenVars
  BY <1>1, Zenon DEF Marks, SetCallback, CallFails, stopNotifier, screenVars, reachVars,
     networkVars, notifierVars
<1>2. CASE SetDispatchQueue /\ UNCHANGED screenVars
  BY <1>2, Zenon DEF Marks, SetDispatchQueue, CallFails, stopNotifier, screenVars,
     reachVars, networkVars, notifierVars
<1>3. CASE setReachabilityFlags /\ UNCHANGED screenVars
  BY <1>3, Zenon DEF Marks, setReachabilityFlags, networkVars, screenVars, reachVars,
     notifierVars
<1>4. CASE StartReturns /\ UNCHANGED screenVars
  BY <1>4, Zenon DEF Marks, StartReturns, networkVars, screenVars, reachVars, notifierVars
<1>5. CASE CallbackRuns /\ UNCHANGED screenVars
  BY <1>5, Zenon DEF Marks, CallbackRuns, didSet, networkVars, screenVars, reachVars,
     notifierVars
<1>6. CASE LookSucceeds /\ UNCHANGED screenVars
  BY <1>6, Zenon DEF Marks, LookSucceeds, Looking, didSet, networkVars, screenVars,
     reachVars, notifierVars
<1>7. CASE LookFails /\ UNCHANGED screenVars
  BY <1>7, Zenon DEF Marks, LookFails, Looking, CallFails, stopNotifier, screenVars,
     reachVars, networkVars, notifierVars
<1>8. CASE NetworkChanges /\ UNCHANGED screenVars
  BY <1>8, Zenon DEF Marks, NetworkChanges, screenVars, reachVars, networkVars,
     notifierVars
<1>9. CASE submitEmpty
  BY <1>9, Zenon DEF Marks, submitEmpty, Touched, screenVars, reachVars, networkVars,
     notifierVars
<1>10. CASE submitBTNtapped
  BY <1>10, Zenon DEF Marks, submitBTNtapped, startNotifier, Touched, networkVars,
     screenVars, reachVars, notifierVars
<1>11. CASE reachabilityChanged
  BY <1>11, Zenon DEF Marks, reachabilityChanged, NotifyRuns, showAlert, networkVars,
     screenVars, reachVars, notifierVars
<1>12. CASE PostSucceeds
  BY <1>12, Zenon DEF Marks, PostSucceeds, Released, stopNotifier, networkVars,
     screenVars, reachVars, notifierVars
<1>13. CASE PostFails
  BY <1>13, Zenon DEF Marks, PostFails, Released, stopNotifier, showAlert, networkVars,
     screenVars, reachVars, notifierVars
<1>14. CASE AlertClosed
  BY <1>14, Zenon DEF Marks, AlertClosed, screenVars, reachVars, networkVars, notifierVars
<1>15. CASE backBTNtapped
  BY <1>15, Zenon DEF Marks, backBTNtapped, Touched, Released, stopNotifier, networkVars,
     screenVars, reachVars, notifierVars
<1>16. CASE UNCHANGED feedbackVars
  BY <1>16, Zenon DEF Marks, feedbackVars, screenVars, reachVars, networkVars,
     notifierVars
<1> QED
  BY <1>1, <1>2, <1>3, <1>4, <1>5, <1>6, <1>7, <1>8, <1>9, <1>10, <1>11, <1>12, <1>13,
     <1>14, <1>15, <1>16 DEF FeedbackNext, Notifying, Starting, Serving

\* Every step keeps the other types.
LEMMA ValuesStep ==
  ASSUME Values, Blocks, [FeedbackNext]_feedbackVars
  PROVE  Values'
<1>1. CASE SetCallback /\ UNCHANGED screenVars
  BY <1>1, LimitsAssumption DEF Values, Blocks, SetCallback, CallFails, stopNotifier,
     screenVars, reachVars, networkVars, notifierVars
<1>2. CASE SetDispatchQueue /\ UNCHANGED screenVars
  BY <1>2, LimitsAssumption DEF Values, Blocks, SetDispatchQueue, CallFails, stopNotifier,
     screenVars, reachVars, networkVars, notifierVars
<1>3. CASE setReachabilityFlags /\ UNCHANGED screenVars
  BY <1>3 DEF Values, Blocks, setReachabilityFlags, networkVars, screenVars, reachVars,
     notifierVars
<1>4. CASE StartReturns /\ UNCHANGED screenVars
  BY <1>4 DEF Values, Blocks, StartReturns, networkVars, screenVars, reachVars,
     notifierVars
<1>5. CASE CallbackRuns /\ UNCHANGED screenVars
  BY <1>5, BlockTypes, SerialTypes DEF Values, Blocks, CallbackRuns, didSet, networkVars,
     screenVars, reachVars, notifierVars
<1>6. CASE LookSucceeds /\ UNCHANGED screenVars
  BY <1>6 DEF Values, Blocks, LookSucceeds, Looking, didSet, networkVars, screenVars,
     reachVars, notifierVars
<1>7. CASE LookFails /\ UNCHANGED screenVars
  BY <1>7, LimitsAssumption DEF Values, Blocks, LookFails, Looking, CallFails,
     stopNotifier, screenVars, reachVars, networkVars, notifierVars
<1>8. CASE NetworkChanges /\ UNCHANGED screenVars
  BY <1>8, LimitsAssumption DEF Values, Blocks, NetworkChanges, screenVars, reachVars,
     networkVars, notifierVars
<1>9. CASE submitEmpty
  BY <1>9 DEF Values, Blocks, submitEmpty, Touched, screenVars, reachVars, networkVars,
     notifierVars
<1>10. CASE submitBTNtapped
  BY <1>10, SubmitAssumption DEF Values, Blocks, submitBTNtapped, startNotifier, Touched,
     networkVars, screenVars, reachVars, notifierVars
<1>11. CASE reachabilityChanged
  BY <1>11, ConnectionType, SubmitAssumption DEF Values, Blocks, reachabilityChanged,
     NotifyRuns, showAlert, networkVars, screenVars, reachVars, notifierVars
<1>12. CASE PostSucceeds
  BY <1>12 DEF Values, Blocks, PostSucceeds, Released, stopNotifier, networkVars,
     screenVars, reachVars, notifierVars
<1>13. CASE PostFails
  BY <1>13 DEF Values, Blocks, PostFails, Released, stopNotifier, showAlert, networkVars,
     screenVars, reachVars, notifierVars
<1>14. CASE AlertClosed
  BY <1>14 DEF Values, Blocks, AlertClosed, screenVars, reachVars, networkVars,
     notifierVars
<1>15. CASE backBTNtapped
  BY <1>15 DEF Values, Blocks, backBTNtapped, Touched, Released, stopNotifier,
     networkVars, screenVars, reachVars, notifierVars
<1>16. CASE UNCHANGED feedbackVars
  BY <1>16 DEF Values, Blocks, feedbackVars, screenVars, reachVars, networkVars,
     notifierVars
<1> QED
  BY <1>1, <1>2, <1>3, <1>4, <1>5, <1>6, <1>7, <1>8, <1>9, <1>10, <1>11, <1>12, <1>13,
     <1>14, <1>15, <1>16 DEF FeedbackNext, Notifying, Starting, Serving

\* Every step keeps the serial queue a sequence of blocks.
LEMMA BlocksStep ==
  ASSUME Values, Blocks, [FeedbackNext]_feedbackVars
  PROVE  Blocks'
<1>1. CASE SetCallback /\ UNCHANGED screenVars
  BY <1>1, SerialTypes DEF Values, Blocks, SetCallback, CallFails, stopNotifier,
     screenVars, reachVars, networkVars, notifierVars
<1>2. CASE SetDispatchQueue /\ UNCHANGED screenVars
  BY <1>2, BlockTypes, SerialTypes DEF Values, Blocks, SetDispatchQueue, CallFails,
     stopNotifier, screenVars, reachVars, networkVars, notifierVars
<1>3. CASE setReachabilityFlags /\ UNCHANGED screenVars
  BY <1>3, BlockTypes, SerialTypes DEF Values, Blocks, setReachabilityFlags, networkVars,
     screenVars, reachVars, notifierVars
<1>4. CASE StartReturns /\ UNCHANGED screenVars
  BY <1>4 DEF Values, Blocks, StartReturns, networkVars, screenVars, reachVars,
     notifierVars
<1>5. CASE CallbackRuns /\ UNCHANGED screenVars
  BY <1>5, SerialTypes DEF Values, Blocks, CallbackRuns, didSet, networkVars, screenVars,
     reachVars, notifierVars
<1>6. CASE LookSucceeds /\ UNCHANGED screenVars
  BY <1>6, SerialTypes DEF Values, Blocks, LookSucceeds, Looking, didSet, networkVars,
     screenVars, reachVars, notifierVars
<1>7. CASE LookFails /\ UNCHANGED screenVars
  BY <1>7, SerialTypes DEF Values, Blocks, LookFails, Looking, CallFails, stopNotifier,
     screenVars, reachVars, networkVars, notifierVars
<1>8. CASE NetworkChanges /\ UNCHANGED screenVars
  BY <1>8, BlockTypes, SerialTypes DEF Values, Blocks, NetworkChanges, screenVars,
     reachVars, networkVars, notifierVars
<1>9. CASE submitEmpty
  BY <1>9 DEF Values, Blocks, submitEmpty, Touched, screenVars, reachVars, networkVars,
     notifierVars
<1>10. CASE submitBTNtapped
  BY <1>10 DEF Values, Blocks, submitBTNtapped, startNotifier, Touched, networkVars,
     screenVars, reachVars, notifierVars
<1>11. CASE reachabilityChanged
  BY <1>11 DEF Values, Blocks, reachabilityChanged, NotifyRuns, showAlert, networkVars,
     screenVars, reachVars, notifierVars
<1>12. CASE PostSucceeds
  BY <1>12, SerialTypes DEF Values, Blocks, PostSucceeds, Released, stopNotifier,
     networkVars, screenVars, reachVars, notifierVars
<1>13. CASE PostFails
  BY <1>13, SerialTypes DEF Values, Blocks, PostFails, Released, stopNotifier, showAlert,
     networkVars, screenVars, reachVars, notifierVars
<1>14. CASE AlertClosed
  BY <1>14 DEF Values, Blocks, AlertClosed, screenVars, reachVars, networkVars,
     notifierVars
<1>15. CASE backBTNtapped
  BY <1>15, SerialTypes DEF Values, Blocks, backBTNtapped, Touched, Released,
     stopNotifier, networkVars, screenVars, reachVars, notifierVars
<1>16. CASE UNCHANGED feedbackVars
  BY <1>16 DEF Values, Blocks, feedbackVars, screenVars, reachVars, networkVars,
     notifierVars
<1> QED
  BY <1>1, <1>2, <1>3, <1>4, <1>5, <1>6, <1>7, <1>8, <1>9, <1>10, <1>11, <1>12, <1>13,
     <1>14, <1>15, <1>16 DEF FeedbackNext, Notifying, Starting, Serving

LEMMA TypesInit == FeedbackInit => Marks /\ Values /\ Blocks
<1>1. FeedbackInit => Marks
  BY Zenon DEF FeedbackInit, NotifierInit, Marks
<1>2. FeedbackInit => Values
  BY FlagsAssumption, LimitsAssumption, SubmitAssumption, SerialTypes
     DEF FeedbackInit, NotifierInit, Values
<1>3. FeedbackInit => Blocks
  BY SerialTypes DEF FeedbackInit, NotifierInit, Blocks
<1> QED
  BY <1>1, <1>2, <1>3

(***************************************************************************)
(* The phases of a start.                                                  *)
(***************************************************************************)

\* Which of the notifier's two marks is set in which phase, and who keeps the
\* object alive: while it is started the screen is there, and an object that
\* is gone has stopped its notifier.
Phases ==
  /\ main = "free" => (notifierRunning <=> watched)
  /\ main \in {"setCallback", "setQueue"} => ~watched /\ ~notifierRunning
  /\ main \in {"look", "wait", "started"} => watched /\ ~notifierRunning
  /\ main # "free" => screen = "feedback"
  /\ held <=> screen = "feedback" \/ requests > 0
  /\ ~held => ~watched

(***************************************************************************)
(* The serial queue.                                                       *)
(***************************************************************************)

LookFree(s) == \A i \in DOMAIN s : s[i].what # "look"
LookOnce(s) == \E k \in DOMAIN s : \A i \in DOMAIN s : s[i].what = "look" <=> i = k
Carries(s, f) == \A i \in DOMAIN s : s[i].what = "callback" => s[i].flags = f
EndsWith(s, x) == s # <<>> /\ s[Len(s)] = x

\* What serving the first block leaves.
LEMMA TailAt ==
  ASSUME NEW s \in Seq(Block), s # <<>>
  PROVE  /\ Head(s) = s[1] /\ Len(s) \in Nat \ {0} /\ DOMAIN s = 1 .. Len(s)
         /\ Len(Tail(s)) = Len(s) - 1 /\ DOMAIN Tail(s) = 1 .. Len(s) - 1
         /\ \A i \in 1 .. Len(s) - 1 : Tail(s)[i] = s[i + 1]
         /\ Tail(s) = <<>> <=> Len(s) = 1
<1>1. /\ Head(s) = s[1] /\ Len(s) \in Nat \ {0} /\ DOMAIN s = 1 .. Len(s)
      /\ Len(Tail(s)) = Len(s) - 1 /\ DOMAIN Tail(s) = 1 .. Len(s) - 1
      /\ \A i \in 1 .. Len(s) - 1 : Tail(s)[i] = s[i + 1]
  OBVIOUS
<1>2. \A t \in Seq(Block) : t = <<>> <=> Len(t) = 0
  OBVIOUS
<1>3. Tail(s) = <<>> <=> Len(Tail(s)) = 0
  BY <1>2, SerialTypes
<1>4. Len(Tail(s)) = 0 <=> Len(s) = 1
  BY <1>1
<1> QED
  BY <1>1, <1>3, <1>4

LEMMA AppendAt ==
  ASSUME NEW s \in Seq(Block), NEW x \in Block
  PROVE  /\ Len(s) \in Nat /\ DOMAIN s = 1 .. Len(s)
         /\ Len(Append(s, x)) = Len(s) + 1 /\ DOMAIN Append(s, x) = 1 .. Len(s) + 1
         /\ \A i \in 1 .. Len(s) : Append(s, x)[i] = s[i]
         /\ Append(s, x)[Len(s) + 1] = x
         /\ Append(s, x) # <<>>
  OBVIOUS

LEMMA Kinds ==
  /\ FirstLook.what = "look"
  /\ \A f : Callback(f).what = "callback" /\ Callback(f).flags = f
  BY DEF FirstLook, Callback

\* Looks: none on an empty queue, one more by FirstLook, none by a callback,
\* and one less when it is served.
LEMMA Looks ==
  /\ LookFree(<<>>)
  /\ \A s \in Seq(Block), f \in Flags :
       /\ LookFree(s) => LookFree(Append(s, Callback(f)))
       /\ LookOnce(s) => LookOnce(Append(s, Callback(f)))
  /\ \A s \in Seq(Block) :
       /\ LookFree(s) => LookOnce(Append(s, FirstLook))
       /\ s # <<>> /\ LookFree(s) => Head(s).what # "look" /\ LookFree(Tail(s))
       /\ s # <<>> /\ LookOnce(s) =>
            IF Head(s).what = "look" THEN LookFree(Tail(s)) ELSE LookOnce(Tail(s))
       /\ LookOnce(s) => s # <<>>
<1>1. LookFree(<<>>)
  BY DEF LookFree
<1>2. ASSUME NEW s \in Seq(Block), NEW f \in Flags
      PROVE  /\ LookFree(s) => LookFree(Append(s, Callback(f)))
             /\ LookOnce(s) => LookOnce(Append(s, Callback(f)))
  <2> DEFINE x == Callback(f)
  <2>1. x \in Block /\ x.what = "callback"
    BY BlockTypes, Kinds
  <2> HIDE DEF x
  <2>2. LookFree(s) => LookFree(Append(s, x))
    BY <2>1, AppendAt DEF LookFree
  <2>3. ASSUME LookOnce(s)
        PROVE  LookOnce(Append(s, x))
    <3>1. PICK k \in DOMAIN s : \A i \in DOMAIN s : s[i].what = "look" <=> i = k
      BY <2>3 DEF LookOnce
    <3>2. k \in DOMAIN Append(s, x)
      BY <2>1, AppendAt
    <3>3. \A i \in DOMAIN Append(s, x) : Append(s, x)[i].what = "look" <=> i = k
      <4> SUFFICES ASSUME NEW i \in DOMAIN Append(s, x)
                   PROVE  Append(s, x)[i].what = "look" <=> i = k
        OBVIOUS
      <4>1. CASE i \in DOMAIN s
        BY <2>1, <3>1, <4>1, AppendAt
      <4>2. CASE i = Len(s) + 1
        BY <2>1, <3>1, <4>2, AppendAt
      <4> QED
        BY <2>1, <4>1, <4>2, AppendAt
    <3> QED
      BY <3>2, <3>3 DEF LookOnce
  <2> QED
    BY <2>2, <2>3 DEF x
<1>3. ASSUME NEW s \in Seq(Block)
      PROVE  LookFree(s) => LookOnce(Append(s, FirstLook))
  <2> DEFINE t == Append(s, FirstLook)
  <2>1. /\ DOMAIN t = 1 .. Len(s) + 1 /\ DOMAIN s = 1 .. Len(s) /\ Len(s) \in Nat
        /\ \A i \in 1 .. Len(s) : t[i] = s[i]
        /\ t[Len(s) + 1].what = "look"
    BY BlockTypes, Kinds, AppendAt
  <2> HIDE DEF t
  <2>2. ASSUME LookFree(s)
        PROVE  \A i \in DOMAIN t : t[i].what = "look" <=> i = Len(s) + 1
    BY <2>1, <2>2 DEF LookFree
  <2>3. LookFree(s) => LookOnce(t)
    BY <2>1, <2>2 DEF LookOnce
  <2> QED
    BY <2>3 DEF t
<1>4. ASSUME NEW s \in Seq(Block), s # <<>>, LookFree(s)
      PROVE  Head(s).what # "look" /\ LookFree(Tail(s))
  BY <1>4, TailAt DEF LookFree
<1>5. ASSUME NEW s \in Seq(Block), s # <<>>, LookOnce(s)
      PROVE  IF Head(s).what = "look" THEN LookFree(Tail(s)) ELSE LookOnce(Tail(s))
  <2>1. PICK k \in DOMAIN s : \A i \in DOMAIN s : s[i].what = "look" <=> i = k
    BY <1>5 DEF LookOnce
  <2>2. CASE Head(s).what = "look"
    BY <1>5, <2>1, <2>2, TailAt DEF LookFree
  <2>3. CASE Head(s).what # "look"
    <3>1. k - 1 \in DOMAIN Tail(s)
      BY <1>5, <2>1, <2>3, TailAt
    <3>2. \A i \in DOMAIN Tail(s) : Tail(s)[i].what = "look" <=> i = k - 1
      BY <1>5, <2>1, <2>3, TailAt
    <3> QED
      BY <2>3, <3>1, <3>2 DEF LookOnce
  <2> QED
    BY <2>2, <2>3
<1>6. ASSUME NEW s \in Seq(Block), LookOnce(s)
      PROVE  s # <<>>
  BY <1>6 DEF LookOnce
<1> QED
  BY <1>1, <1>2, <1>3, <1>4, <1>5, <1>6

\* The end of the queue: what was put there last, until it is the only block.
LEMMA Ends ==
  /\ \A s \in Seq(Block), x \in Block : EndsWith(Append(s, x), x) /\ Append(s, x) # <<>>
  /\ \A s \in Seq(Block), x \in Block : s # <<>> /\ EndsWith(s, x) =>
       IF Tail(s) = <<>> THEN Head(s) = x ELSE EndsWith(Tail(s), x)
  BY TailAt, AppendAt DEF EndsWith

\* Flags: callbacks that carry f, until one that does not is put there.
LEMMA Carrying ==
  /\ \A f : Carries(<<>>, f)
  /\ \A s \in Seq(Block), f \in Flags : Carries(s, f) =>
       Carries(Append(s, Callback(f)), f) /\ Carries(Append(s, FirstLook), f)
  /\ \A s \in Seq(Block), f \in Flags : s # <<>> /\ Carries(s, f) =>
       /\ Carries(Tail(s), f)
       /\ Head(s).what = "callback" => Head(s).flags = f
<1>1. \A f : Carries(<<>>, f)
  BY DEF Carries
<1>2. ASSUME NEW s \in Seq(Block), NEW f \in Flags, Carries(s, f)
      PROVE  Carries(Append(s, Callback(f)), f) /\ Carries(Append(s, FirstLook), f)
  <2>1. ASSUME NEW x \in Block, x.what = "callback" => x.flags = f
        PROVE  Carries(Append(s, x), f)
    BY <1>2, <2>1, AppendAt DEF Carries
  <2> QED
    BY <2>1, BlockTypes, Kinds
<1>3. ASSUME NEW s \in Seq(Block), NEW f \in Flags, s # <<>>, Carries(s, f)
      PROVE  /\ Carries(Tail(s), f)
             /\ Head(s).what = "callback" => Head(s).flags = f
  BY <1>3, TailAt DEF Carries
<1> QED
  BY <1>1, <1>2, <1>3

\* The first look is on the serial queue exactly while the main queue waits
\* for it, and once.
OneLook == IF main = "wait" THEN LookOnce(serial) ELSE LookFree(serial)

Typed == Marks /\ Values /\ Blocks

\* Every step keeps that look alone.
LEMMA LookStep ==
  ASSUME Typed, Phases, OneLook, [FeedbackNext]_feedbackVars
  PROVE  OneLook'
<1>1. CASE SetCallback /\ UNCHANGED screenVars
  BY <1>1, Looks DEF OneLook, Phases, Typed, Blocks, Values, SetCallback, CallFails,
     stopNotifier, screenVars, reachVars, networkVars, notifierVars
<1>2. CASE SetDispatchQueue /\ UNCHANGED screenVars
  BY <1>2, Looks DEF OneLook, Phases, Typed, Blocks, Values, SetDispatchQueue, CallFails,
     stopNotifier, screenVars, reachVars, networkVars, notifierVars
<1>3. CASE setReachabilityFlags /\ UNCHANGED screenVars
  BY <1>3, Looks DEF OneLook, Phases, Typed, Blocks, Values, setReachabilityFlags,
     networkVars, screenVars, reachVars, notifierVars
<1>4. CASE StartReturns /\ UNCHANGED screenVars
  BY <1>4 DEF OneLook, Phases, Typed, Blocks, Values, StartReturns, networkVars,
     screenVars, reachVars, notifierVars
<1>5. CASE CallbackRuns /\ UNCHANGED screenVars
  BY <1>5, Looks DEF OneLook, Phases, Typed, Blocks, Values, CallbackRuns, didSet,
     networkVars, screenVars, reachVars, notifierVars
<1>6. CASE LookSucceeds /\ UNCHANGED screenVars
  BY <1>6, Looks DEF OneLook, Phases, Typed, Blocks, Values, LookSucceeds, Looking,
     didSet, networkVars, screenVars, reachVars, notifierVars
<1>7. CASE LookFails /\ UNCHANGED screenVars
  BY <1>7, Looks DEF OneLook, Phases, Typed, Blocks, Values, LookFails, Looking,
     CallFails, stopNotifier, screenVars, reachVars, networkVars, notifierVars
<1>8. CASE NetworkChanges /\ UNCHANGED screenVars
  BY <1>8, Looks DEF OneLook, Phases, Typed, Blocks, Values, NetworkChanges, screenVars,
     reachVars, networkVars, notifierVars
<1>9. CASE submitEmpty
  BY <1>9 DEF OneLook, Phases, Typed, Blocks, Values, submitEmpty, Touched, screenVars,
     reachVars, networkVars, notifierVars
<1>10. CASE submitBTNtapped
  BY <1>10 DEF OneLook, Phases, Typed, Blocks, Values, submitBTNtapped, startNotifier,
     Touched, networkVars, screenVars, reachVars, notifierVars
<1>11. CASE reachabilityChanged
  BY <1>11 DEF OneLook, Phases, Typed, Blocks, Values, reachabilityChanged, NotifyRuns,
     showAlert, networkVars, screenVars, reachVars, notifierVars
<1>12. CASE PostSucceeds
  BY <1>12, Looks DEF OneLook, Phases, Typed, Blocks, Values, PostSucceeds, Released,
     stopNotifier, networkVars, screenVars, reachVars, notifierVars
<1>13. CASE PostFails
  BY <1>13, Looks DEF OneLook, Phases, Typed, Blocks, Values, PostFails, Released,
     stopNotifier, showAlert, networkVars, screenVars, reachVars, notifierVars
<1>14. CASE AlertClosed
  BY <1>14 DEF OneLook, Phases, Typed, Blocks, Values, AlertClosed, screenVars, reachVars,
     networkVars, notifierVars
<1>15. CASE backBTNtapped
  BY <1>15, Looks DEF OneLook, Phases, Typed, Blocks, Values, backBTNtapped, Touched,
     Released, stopNotifier, networkVars, screenVars, reachVars, notifierVars
<1>16. CASE UNCHANGED feedbackVars
  BY <1>16 DEF OneLook, Phases, Typed, Blocks, Values, feedbackVars, screenVars,
     reachVars, networkVars, notifierVars
<1> QED
  BY <1>1, <1>2, <1>3, <1>4, <1>5, <1>6, <1>7, <1>8, <1>9, <1>10, <1>11, <1>12, <1>13,
     <1>14, <1>15, <1>16 DEF FeedbackNext, Notifying, Starting, Serving

\* Every step keeps the phases: a look is served in the phase that waits for it.
LEMMA PhasesStep ==
  ASSUME Typed, Phases, OneLook, [FeedbackNext]_feedbackVars
  PROVE  Phases'
<1>1. CASE SetCallback /\ UNCHANGED screenVars
  BY <1>1 DEF Phases, OneLook, Typed, Blocks, Values, Marks, SetCallback, CallFails,
     stopNotifier, screenVars, reachVars, networkVars, notifierVars
<1>2. CASE SetDispatchQueue /\ UNCHANGED screenVars
  BY <1>2 DEF Phases, OneLook, Typed, Blocks, Values, Marks, SetDispatchQueue, CallFails,
     stopNotifier, screenVars, reachVars, networkVars, notifierVars
<1>3. CASE setReachabilityFlags /\ UNCHANGED screenVars
  BY <1>3 DEF Phases, OneLook, Typed, Blocks, Values, Marks, setReachabilityFlags,
     networkVars, screenVars, reachVars, notifierVars
<1>4. CASE StartReturns /\ UNCHANGED screenVars
  BY <1>4 DEF Phases, OneLook, Typed, Blocks, Values, Marks, StartReturns, networkVars,
     screenVars, reachVars, notifierVars
<1>5. CASE CallbackRuns /\ UNCHANGED screenVars
  BY <1>5 DEF Phases, OneLook, Typed, Blocks, Values, Marks, CallbackRuns, didSet,
     networkVars, screenVars, reachVars, notifierVars
<1>6. CASE LookSucceeds /\ UNCHANGED screenVars
  BY <1>6, Looks DEF Phases, OneLook, Typed, Blocks, Values, Marks, LookSucceeds, Looking,
     didSet, networkVars, screenVars, reachVars, notifierVars
<1>7. CASE LookFails /\ UNCHANGED screenVars
  BY <1>7, Looks DEF Phases, OneLook, Typed, Blocks, Values, Marks, LookFails, Looking,
     CallFails, stopNotifier, screenVars, reachVars, networkVars, notifierVars
<1>8. CASE NetworkChanges /\ UNCHANGED screenVars
  BY <1>8 DEF Phases, OneLook, Typed, Blocks, Values, Marks, NetworkChanges, screenVars,
     reachVars, networkVars, notifierVars
<1>9. CASE submitEmpty
  BY <1>9 DEF Phases, OneLook, Typed, Blocks, Values, Marks, submitEmpty, Touched,
     screenVars, reachVars, networkVars, notifierVars
<1>10. CASE submitBTNtapped
  BY <1>10 DEF Phases, OneLook, Typed, Blocks, Values, Marks, submitBTNtapped,
     startNotifier, Touched, networkVars, screenVars, reachVars, notifierVars
<1>11. CASE reachabilityChanged
  BY <1>11 DEF Phases, OneLook, Typed, Blocks, Values, Marks, reachabilityChanged,
     NotifyRuns, showAlert, networkVars, screenVars, reachVars, notifierVars
<1>12. CASE PostSucceeds
  BY <1>12 DEF Phases, OneLook, Typed, Blocks, Values, Marks, PostSucceeds, Released,
     stopNotifier, networkVars, screenVars, reachVars, notifierVars
<1>13. CASE PostFails
  BY <1>13 DEF Phases, OneLook, Typed, Blocks, Values, Marks, PostFails, Released,
     stopNotifier, showAlert, networkVars, screenVars, reachVars, notifierVars
<1>14. CASE AlertClosed
  BY <1>14 DEF Phases, OneLook, Typed, Blocks, Values, Marks, AlertClosed, screenVars,
     reachVars, networkVars, notifierVars
<1>15. CASE backBTNtapped
  BY <1>15 DEF Phases, OneLook, Typed, Blocks, Values, Marks, backBTNtapped, Touched,
     Released, stopNotifier, networkVars, screenVars, reachVars, notifierVars
<1>16. CASE UNCHANGED feedbackVars
  BY <1>16 DEF Phases, OneLook, Typed, Blocks, Values, Marks, feedbackVars, screenVars,
     reachVars, networkVars, notifierVars
<1> QED
  BY <1>1, <1>2, <1>3, <1>4, <1>5, <1>6, <1>7, <1>8, <1>9, <1>10, <1>11, <1>12, <1>13,
     <1>14, <1>15, <1>16 DEF FeedbackNext, Notifying, Starting, Serving

(***************************************************************************)
(* What the notifier knows, and what it tells.                             *)
(***************************************************************************)

\* What is last on the serial queue brings the flags there are: the first look
\* will find them, or a callback carries them.
Waits == main = "wait" => EndsWith(serial, FirstLook) \/ EndsWith(serial, Callback(actual))

\* Once the look is made, the flags known are the network's, or a callback that
\* carries those is the last on the queue.
Follows ==
  held /\ (main = "started" \/ notifierRunning) =>
    IF serial = <<>> THEN flags = actual ELSE EndsWith(serial, Callback(actual))

\* With no report to come, the last one told what the flags say.
Tells == held /\ reports = 0 => flags = NoFlags \/ told = Connection(flags)

\* Every step keeps the end of the queue while the main queue waits.
LEMMA WaitsStep ==
  ASSUME Typed, Phases, OneLook, Waits, [FeedbackNext]_feedbackVars
  PROVE  Waits'
<1>1. CASE SetCallback /\ UNCHANGED screenVars
  BY <1>1 DEF Waits, OneLook, Phases, Typed, Blocks, Values, SetCallback, CallFails,
     stopNotifier, screenVars, reachVars, networkVars, notifierVars
<1>2. CASE SetDispatchQueue /\ UNCHANGED screenVars
  BY <1>2 DEF Waits, OneLook, Phases, Typed, Blocks, Values, SetDispatchQueue, CallFails,
     stopNotifier, screenVars, reachVars, networkVars, notifierVars
<1>3. CASE setReachabilityFlags /\ UNCHANGED screenVars
  BY <1>3, Ends, BlockTypes DEF Waits, OneLook, Phases, Typed, Blocks, Values,
     setReachabilityFlags, networkVars, screenVars, reachVars, notifierVars
<1>4. CASE StartReturns /\ UNCHANGED screenVars
  BY <1>4 DEF Waits, OneLook, Phases, Typed, Blocks, Values, StartReturns, networkVars,
     screenVars, reachVars, notifierVars
<1>5. CASE CallbackRuns /\ UNCHANGED screenVars
  <2>1. /\ serial # <<>> /\ serial' = Tail(serial) /\ Head(serial).what # "look"
        /\ UNCHANGED <<main, actual>>
    BY <1>5 DEF CallbackRuns, networkVars
  <2>2. main = "wait" => Tail(serial) # <<>>
    BY <2>1, Looks, SerialTypes DEF OneLook, Typed, Blocks
  <2> QED
    BY <2>1, <2>2, Ends, BlockTypes DEF Waits, Typed, Blocks, Values
<1>6. CASE LookSucceeds /\ UNCHANGED screenVars
  BY <1>6 DEF Waits, OneLook, Phases, Typed, Blocks, Values, LookSucceeds, Looking,
     didSet, networkVars, screenVars, reachVars, notifierVars
<1>7. CASE LookFails /\ UNCHANGED screenVars
  BY <1>7 DEF Waits, OneLook, Phases, Typed, Blocks, Values, LookFails, Looking,
     CallFails, stopNotifier, screenVars, reachVars, networkVars, notifierVars
<1>8. CASE NetworkChanges /\ UNCHANGED screenVars
  BY <1>8, Ends, BlockTypes DEF Waits, OneLook, Phases, Typed, Blocks, Values,
     NetworkChanges, screenVars, reachVars, networkVars, notifierVars
<1>9. CASE submitEmpty
  BY <1>9 DEF Waits, OneLook, Phases, Typed, Blocks, Values, submitEmpty, Touched,
     screenVars, reachVars, networkVars, notifierVars
<1>10. CASE submitBTNtapped
  BY <1>10 DEF Waits, OneLook, Phases, Typed, Blocks, Values, submitBTNtapped,
     startNotifier, Touched, networkVars, screenVars, reachVars, notifierVars
<1>11. CASE reachabilityChanged
  BY <1>11 DEF Waits, OneLook, Phases, Typed, Blocks, Values, reachabilityChanged,
     NotifyRuns, showAlert, networkVars, screenVars, reachVars, notifierVars
<1>12. CASE PostSucceeds
  BY <1>12 DEF Waits, OneLook, Phases, Typed, Blocks, Values, PostSucceeds, Released,
     stopNotifier, networkVars, screenVars, reachVars, notifierVars
<1>13. CASE PostFails
  BY <1>13 DEF Waits, OneLook, Phases, Typed, Blocks, Values, PostFails, Released,
     stopNotifier, showAlert, networkVars, screenVars, reachVars, notifierVars
<1>14. CASE AlertClosed
  BY <1>14 DEF Waits, OneLook, Phases, Typed, Blocks, Values, AlertClosed, screenVars,
     reachVars, networkVars, notifierVars
<1>15. CASE backBTNtapped
  BY <1>15 DEF Waits, OneLook, Phases, Typed, Blocks, Values, backBTNtapped, Touched,
     Released, stopNotifier, networkVars, screenVars, reachVars, notifierVars
<1>16. CASE UNCHANGED feedbackVars
  BY <1>16 DEF Waits, OneLook, Phases, Typed, Blocks, Values, feedbackVars, screenVars,
     reachVars, networkVars, notifierVars
<1> QED
  BY <1>1, <1>2, <1>3, <1>4, <1>5, <1>6, <1>7, <1>8, <1>9, <1>10, <1>11, <1>12, <1>13,
     <1>14, <1>15, <1>16 DEF FeedbackNext, Notifying, Starting, Serving

\* Every step keeps the flags known, or those to come, those of the network.
LEMMA FollowsStep ==
  ASSUME Typed, Phases, OneLook, Waits, Follows, [FeedbackNext]_feedbackVars
  PROVE  Follows'
<1>1. CASE SetCallback /\ UNCHANGED screenVars
  BY <1>1 DEF Follows, Waits, OneLook, Phases, Typed, Blocks, Values, Marks, SetCallback,
     CallFails, stopNotifier, screenVars, reachVars, networkVars, notifierVars
<1>2. CASE SetDispatchQueue /\ UNCHANGED screenVars
  BY <1>2 DEF Follows, Waits, OneLook, Phases, Typed, Blocks, Values, Marks,
     SetDispatchQueue, CallFails, stopNotifier, screenVars, reachVars, networkVars,
     notifierVars
<1>3. CASE setReachabilityFlags /\ UNCHANGED screenVars
  BY <1>3 DEF Follows, Waits, OneLook, Phases, Typed, Blocks, Values, Marks,
     setReachabilityFlags, networkVars, screenVars, reachVars, notifierVars
<1>4. CASE StartReturns /\ UNCHANGED screenVars
  BY <1>4 DEF Follows, Waits, OneLook, Phases, Typed, Blocks, Values, Marks, StartReturns,
     networkVars, screenVars, reachVars, notifierVars
<1>5. CASE CallbackRuns /\ UNCHANGED screenVars
  BY <1>5, Looks, Ends, BlockTypes, Kinds DEF Follows, Waits, OneLook, Phases, Typed,
     Blocks, Values, Marks, CallbackRuns, didSet, networkVars, screenVars, reachVars,
     notifierVars
<1>6. CASE LookSucceeds /\ UNCHANGED screenVars
  <2>1. /\ serial # <<>> /\ serial' = Tail(serial) /\ Head(serial).what = "look"
        /\ flags' = actual /\ UNCHANGED actual
    BY <1>6 DEF LookSucceeds, Looking, didSet, networkVars
  <2>2. main = "wait" /\ LookFree(Tail(serial))
    BY <2>1, Looks DEF OneLook, Typed, Blocks
  <2>3. ~EndsWith(Tail(serial), FirstLook)
    <3>1. \A s \in Seq(Block) : s # <<>> => Len(s) \in DOMAIN s
      OBVIOUS
    <3> QED
      BY <2>1, <2>2, <3>1, SerialTypes, Kinds DEF EndsWith, LookFree, Typed, Blocks
  <2>4. Tail(serial) # <<>> => EndsWith(Tail(serial), Callback(actual))
    BY <2>1, <2>2, <2>3, Ends, BlockTypes DEF Waits, Typed, Blocks, Values
  <2> QED
    BY <2>1, <2>4 DEF Follows
<1>7. CASE LookFails /\ UNCHANGED screenVars
  BY <1>7 DEF Follows, Waits, OneLook, Phases, Typed, Blocks, Values, Marks, LookFails,
     Looking, CallFails, stopNotifier, screenVars, reachVars, networkVars, notifierVars
<1>8. CASE NetworkChanges /\ UNCHANGED screenVars
  BY <1>8, Ends, BlockTypes DEF Follows, Waits, OneLook, Phases, Typed, Blocks, Values,
     Marks, NetworkChanges, screenVars, reachVars, networkVars, notifierVars
<1>9. CASE submitEmpty
  BY <1>9 DEF Follows, Waits, OneLook, Phases, Typed, Blocks, Values, Marks, submitEmpty,
     Touched, screenVars, reachVars, networkVars, notifierVars
<1>10. CASE submitBTNtapped
  BY <1>10 DEF Follows, Waits, OneLook, Phases, Typed, Blocks, Values, Marks,
     submitBTNtapped, startNotifier, Touched, networkVars, screenVars, reachVars,
     notifierVars
<1>11. CASE reachabilityChanged
  BY <1>11 DEF Follows, Waits, OneLook, Phases, Typed, Blocks, Values, Marks,
     reachabilityChanged, NotifyRuns, showAlert, networkVars, screenVars, reachVars,
     notifierVars
<1>12. CASE PostSucceeds
  BY <1>12 DEF Follows, Waits, OneLook, Phases, Typed, Blocks, Values, Marks,
     PostSucceeds, Released, stopNotifier, networkVars, screenVars, reachVars,
     notifierVars
<1>13. CASE PostFails
  BY <1>13 DEF Follows, Waits, OneLook, Phases, Typed, Blocks, Values, Marks, PostFails,
     Released, stopNotifier, showAlert, networkVars, screenVars, reachVars, notifierVars
<1>14. CASE AlertClosed
  BY <1>14 DEF Follows, Waits, OneLook, Phases, Typed, Blocks, Values, Marks, AlertClosed,
     screenVars, reachVars, networkVars, notifierVars
<1>15. CASE backBTNtapped
  BY <1>15 DEF Follows, Waits, OneLook, Phases, Typed, Blocks, Values, Marks,
     backBTNtapped, Touched, Released, stopNotifier, networkVars, screenVars, reachVars,
     notifierVars
<1>16. CASE UNCHANGED feedbackVars
  BY <1>16 DEF Follows, Waits, OneLook, Phases, Typed, Blocks, Values, Marks,
     feedbackVars, screenVars, reachVars, networkVars, notifierVars
<1> QED
  BY <1>1, <1>2, <1>3, <1>4, <1>5, <1>6, <1>7, <1>8, <1>9, <1>10, <1>11, <1>12, <1>13,
     <1>14, <1>15, <1>16 DEF FeedbackNext, Notifying, Starting, Serving

\* Every step keeps what was told: new flags are reported.
LEMMA TellsStep ==
  ASSUME Typed, Tells, [FeedbackNext]_feedbackVars
  PROVE  Tells'
<1>1. CASE SetCallback /\ UNCHANGED screenVars
  BY <1>1 DEF Tells, Typed, Values, Marks, SetCallback, CallFails, stopNotifier,
     screenVars, reachVars, networkVars, notifierVars
<1>2. CASE SetDispatchQueue /\ UNCHANGED screenVars
  BY <1>2 DEF Tells, Typed, Values, Marks, SetDispatchQueue, CallFails, stopNotifier,
     screenVars, reachVars, networkVars, notifierVars
<1>3. CASE setReachabilityFlags /\ UNCHANGED screenVars
  BY <1>3 DEF Tells, Typed, Values, Marks, setReachabilityFlags, networkVars, screenVars,
     reachVars, notifierVars
<1>4. CASE StartReturns /\ UNCHANGED screenVars
  BY <1>4 DEF Tells, Typed, Values, Marks, StartReturns, networkVars, screenVars,
     reachVars, notifierVars
<1>5. CASE CallbackRuns /\ UNCHANGED screenVars
  BY <1>5 DEF Tells, Typed, Values, Marks, CallbackRuns, didSet, networkVars, screenVars,
     reachVars, notifierVars
<1>6. CASE LookSucceeds /\ UNCHANGED screenVars
  BY <1>6 DEF Tells, Typed, Values, Marks, LookSucceeds, Looking, didSet, networkVars,
     screenVars, reachVars, notifierVars
<1>7. CASE LookFails /\ UNCHANGED screenVars
  BY <1>7 DEF Tells, Typed, Values, Marks, LookFails, Looking, CallFails, stopNotifier,
     screenVars, reachVars, networkVars, notifierVars
<1>8. CASE NetworkChanges /\ UNCHANGED screenVars
  BY <1>8 DEF Tells, Typed, Values, Marks, NetworkChanges, screenVars, reachVars,
     networkVars, notifierVars
<1>9. CASE submitEmpty
  BY <1>9 DEF Tells, Typed, Values, Marks, submitEmpty, Touched, screenVars, reachVars,
     networkVars, notifierVars
<1>10. CASE submitBTNtapped
  BY <1>10 DEF Tells, Typed, Values, Marks, submitBTNtapped, startNotifier, Touched,
     networkVars, screenVars, reachVars, notifierVars
<1>11. CASE reachabilityChanged
  BY <1>11 DEF Tells, Typed, Values, Marks, reachabilityChanged, NotifyRuns, showAlert,
     networkVars, screenVars, reachVars, notifierVars
<1>12. CASE PostSucceeds
  BY <1>12 DEF Tells, Typed, Values, Marks, PostSucceeds, Released, stopNotifier,
     networkVars, screenVars, reachVars, notifierVars
<1>13. CASE PostFails
  BY <1>13 DEF Tells, Typed, Values, Marks, PostFails, Released, stopNotifier, showAlert,
     networkVars, screenVars, reachVars, notifierVars
<1>14. CASE AlertClosed
  BY <1>14 DEF Tells, Typed, Values, Marks, AlertClosed, screenVars, reachVars,
     networkVars, notifierVars
<1>15. CASE backBTNtapped
  BY <1>15 DEF Tells, Typed, Values, Marks, backBTNtapped, Touched, Released,
     stopNotifier, networkVars, screenVars, reachVars, notifierVars
<1>16. CASE UNCHANGED feedbackVars
  BY <1>16 DEF Tells, Typed, Values, Marks, feedbackVars, screenVars, reachVars,
     networkVars, notifierVars
<1> QED
  BY <1>1, <1>2, <1>3, <1>4, <1>5, <1>6, <1>7, <1>8, <1>9, <1>10, <1>11, <1>12, <1>13,
     <1>14, <1>15, <1>16 DEF FeedbackNext, Notifying, Starting, Serving

(***************************************************************************)
(* A calm network.                                                         *)
(***************************************************************************)

\* While the network has not changed there is one value of the flags to find,
\* it is found once, and reported before anything is sent.
Calm ==
  changes = 0 =>
    /\ flags \in {NoFlags, actual} /\ Carries(serial, actual)
    /\ flags = NoFlags => reports = 0 /\ sent = 0
    /\ reports <= 1 /\ (reports = 1 => sent = 0)
    /\ sent <= submits

\* Every step keeps the calm, or ends it.
LEMMA CalmStep ==
  ASSUME Typed, Calm, [FeedbackNext]_feedbackVars
  PROVE  Calm'
<1>1. CASE SetCallback /\ UNCHANGED screenVars
  BY <1>1, Carrying DEF Calm, Typed, Blocks, Values, Marks, SetCallback, CallFails,
     stopNotifier, screenVars, reachVars, networkVars, notifierVars
<1>2. CASE SetDispatchQueue /\ UNCHANGED screenVars
  <2>1. UNCHANGED <<changes, actual, flags, reports, sent, submits>>
    BY <1>2 DEF SetDispatchQueue, screenVars
  <2>2. serial' \in {serial, <<>>, Append(serial, Callback(actual))}
    BY <1>2 DEF SetDispatchQueue, stopNotifier
  <2>3. Carries(serial, actual) => Carries(serial', actual)
    BY <2>2, Carrying DEF Typed, Blocks, Values
  <2> QED
    BY <2>1, <2>3 DEF Calm
<1>3. CASE setReachabilityFlags /\ UNCHANGED screenVars
  BY <1>3, Carrying DEF Calm, Typed, Blocks, Values, Marks, setReachabilityFlags,
     networkVars, screenVars, reachVars, notifierVars
<1>4. CASE StartReturns /\ UNCHANGED screenVars
  BY <1>4 DEF Calm, Typed, Blocks, Values, Marks, StartReturns, networkVars, screenVars,
     reachVars, notifierVars
<1>5. CASE CallbackRuns /\ UNCHANGED screenVars
  BY <1>5, Carrying DEF Calm, Typed, Blocks, Values, Marks, CallbackRuns, didSet,
     networkVars, screenVars, reachVars, notifierVars
<1>6. CASE LookSucceeds /\ UNCHANGED screenVars
  BY <1>6, Carrying, FlagsAssumption DEF Calm, Typed, Blocks, Values, Marks, LookSucceeds,
     Looking, didSet, networkVars, screenVars, reachVars, notifierVars
<1>7. CASE LookFails /\ UNCHANGED screenVars
  <2>1. UNCHANGED <<changes, actual, flags, reports, sent, submits>>
    BY <1>7 DEF LookFails, screenVars
  <2>2. serial # <<>> /\ serial' \in {Tail(serial), <<>>}
    BY <1>7 DEF LookFails, Looking, stopNotifier
  <2>3. Carries(serial, actual) => Carries(serial', actual)
    <3>1. Carries(serial, actual) => Carries(Tail(serial), actual)
      BY <2>2, Carrying DEF Typed, Blocks, Values
    <3>2. Carries(<<>>, actual)
      BY Carrying
    <3> QED
      BY <2>2, <3>1, <3>2
  <2> QED
    BY <2>1, <2>3 DEF Calm
<1>8. CASE NetworkChanges /\ UNCHANGED screenVars
  BY <1>8 DEF Calm, Typed, Blocks, Values, Marks, NetworkChanges, screenVars, reachVars,
     networkVars, notifierVars
<1>9. CASE submitEmpty
  BY <1>9 DEF Calm, Typed, Blocks, Values, Marks, submitEmpty, Touched, screenVars,
     reachVars, networkVars, notifierVars
<1>10. CASE submitBTNtapped
  BY <1>10 DEF Calm, Typed, Blocks, Values, Marks, submitBTNtapped, startNotifier,
     Touched, networkVars, screenVars, reachVars, notifierVars
<1>11. CASE reachabilityChanged
  BY <1>11 DEF Calm, Typed, Blocks, Values, Marks, reachabilityChanged, NotifyRuns,
     showAlert, networkVars, screenVars, reachVars, notifierVars
<1>12. CASE PostSucceeds
  BY <1>12, Carrying DEF Calm, Typed, Blocks, Values, Marks, PostSucceeds, Released,
     stopNotifier, networkVars, screenVars, reachVars, notifierVars
<1>13. CASE PostFails
  BY <1>13, Carrying DEF Calm, Typed, Blocks, Values, Marks, PostFails, Released,
     stopNotifier, showAlert, networkVars, screenVars, reachVars, notifierVars
<1>14. CASE AlertClosed
  BY <1>14 DEF Calm, Typed, Blocks, Values, Marks, AlertClosed, screenVars, reachVars,
     networkVars, notifierVars
<1>15. CASE backBTNtapped
  BY <1>15, Carrying DEF Calm, Typed, Blocks, Values, Marks, backBTNtapped, Touched,
     Released, stopNotifier, networkVars, screenVars, reachVars, notifierVars
<1>16. CASE UNCHANGED feedbackVars
  BY <1>16 DEF Calm, Typed, Blocks, Values, Marks, feedbackVars, screenVars, reachVars,
     networkVars, notifierVars
<1> QED
  BY <1>1, <1>2, <1>3, <1>4, <1>5, <1>6, <1>7, <1>8, <1>9, <1>10, <1>11, <1>12, <1>13,
     <1>14, <1>15, <1>16 DEF FeedbackNext, Notifying, Starting, Serving

(***************************************************************************)
(* The inductive invariant, and what it implies.                           *)
(***************************************************************************)

FeedbackInv == Typed /\ Phases /\ OneLook /\ Waits /\ Follows /\ Tells /\ Calm

LEMMA FeedbackInvHolds == FeedbackSpec => []FeedbackInv
<1>1. FeedbackInit => FeedbackInv
  <2>1. FeedbackInit => Typed
    BY TypesInit DEF Typed
  <2>2. FeedbackInit => Phases /\ OneLook /\ Waits /\ Follows /\ Tells
    BY Looks DEF FeedbackInit, NotifierInit, Phases, OneLook, Waits, Follows, Tells
  <2>3. FeedbackInit => Calm
    BY Carrying DEF FeedbackInit, NotifierInit, Calm
  <2> QED
    BY <2>1, <2>2, <2>3 DEF FeedbackInv
<1>2. FeedbackInv /\ [FeedbackNext]_feedbackVars => FeedbackInv'
  <2> SUFFICES ASSUME FeedbackInv, [FeedbackNext]_feedbackVars
               PROVE  FeedbackInv'
    OBVIOUS
  <2>1. Typed'
    BY MarksStep, ValuesStep, BlocksStep DEF FeedbackInv, Typed
  <2>2. Phases' /\ OneLook'
    BY PhasesStep, LookStep DEF FeedbackInv
  <2>3. Waits' /\ Follows' /\ Tells'
    BY WaitsStep, FollowsStep, TellsStep DEF FeedbackInv
  <2>4. Calm'
    BY CalmStep DEF FeedbackInv
  <2> QED
    BY <2>1, <2>2, <2>3, <2>4 DEF FeedbackInv
<1> QED
  BY <1>1, <1>2, PTL DEF FeedbackSpec

\* Every reachable state is well typed: no request ends that was not sent, and
\* no failure, change of the network or tap is beyond its bound.
THEOREM FeedbackTypeCorrect == FeedbackSpec => []FeedbackTypeOK
<1>1. FeedbackInv => FeedbackTypeOK
  BY TypeParts DEF FeedbackInv, Typed
<1> QED
  BY <1>1, FeedbackInvHolds, PTL

\* Between two blocks of the main queue the notifier runs exactly if iOS
\* watches the network for it, whichever call of a start failed and whenever
\* the screen went (RunsIffWatched).
THEOREM NotifierRunsIffWatched == FeedbackSpec => []RunsIffWatched
<1>1. FeedbackInv => RunsIffWatched
  BY DEF FeedbackInv, Phases, RunsIffWatched
<1> QED
  BY <1>1, FeedbackInvHolds, PTL

\* A notifier that runs knows the network's flags once its callbacks are
\* served, and has told that connection last once its reports are made, for
\* any number of changes at any point of a start (TellsTheConnection).
THEOREM NotifierTellsTheConnection == FeedbackSpec => []TellsTheConnection
<1>1. FeedbackInv => TellsTheConnection
  BY FlagsAssumption DEF FeedbackInv, Typed, Values, Follows, Tells, TellsTheConnection
<1> QED
  BY <1>1, FeedbackInvHolds, PTL

\* As long as the network does not change the feedback is sent at most once a
\* tap, however often iOS brings flags that are known (OneFeedbackPerSubmit).
THEOREM FeedbackIsSentOnce == FeedbackSpec => []OneFeedbackPerSubmit
<1>1. FeedbackInv => OneFeedbackPerSubmit
  BY DEF FeedbackInv, Calm, OneFeedbackPerSubmit
<1> QED
  BY <1>1, FeedbackInvHolds, PTL
=============================================================================
