# Verification of Natomic for iOS

Natomic is a journal app: one line a day, kept on the phone, mirrored on a web
service once the user signs in, and usable offline. This directory holds TLA+
models of the parts where its difficulty lies: the synchronisation of the
notes first, then the reminders, the streak and the widgets. TLC configurations
check them on small instances, and TLAPS proofs show what holds for every
instance. Paths below are relative to `src/Natomic/Natomic/`.

## The system

| Part | State it keeps | Operations | Hard behaviour |
|---|---|---|---|
| Local note store, `DatabaseManager.swift` | the rows of `UserEntity` in Core Data | add, edit, delete, by day, remove all; streak, month, week | a row is found by its day, its text or its position, none of which is unique |
| Retry queues, `Constant.swift`, `Model/UserModel.swift` | three arrays in UserDefaults: notes to post, edits, deletions | read, replace, `remove(atOffsets:)` | read in one turn of the main queue and written in another |
| Launch synchronisation, `Delegates/AppDelegate.swift` | local variables of a chain of closures | drain deletes, then edits, then posts; else fetch and merge | a DispatchGroup of unordered answers; a captured array written back; kill in between |
| HTTP client, `DatabaseHelper.swift` | none | post, edit, delete, fetch, register, delete user | an answer lost after the server did the work |
| Note list, `Controllers/HomeVC.swift` | `userData`, `deleteNoteID` | reload, delete through a dialog, open the other screens | a row number kept while the list changes; one id shared by several requests |
| Writing, `Controllers/WritingVC.swift` | the text, its notifier | post, close, connection reports, answer | a delayed local add racing a report and its answer; the screen outlives its dismissal |
| Editing, `Controllers/EditNoteVC.swift` | the text, the managed object, its notifier | post, close, connection reports, answer | the same, without a queue for failures |
| Session, `SignUpVC`, `MenuVC`, `DeleteAccountAlertVC` | UID and IS_LOGIN in UserDefaults | sign in, register and fetch, sign out, delete the account | requests of one session answered in the next |
| Reachability, `Reachability.swift` | the flags, whether it is watched and running, two queues of blocks | start in three calls, first look, callback, notify, stop | started on one queue and called back on another; the main queue waits for the serial one; a call fails half way |
| Feedback, `Controllers/FeedbackVC.swift` | the text, its notifier | submit, report, answer, back | every tap adds an observer, to a notifier that may run already |
| Loader, `Loader.swift` | one overlay for the whole app | put up, take down | not counted |
| Streak, month and week, `DatabaseManager`, `StreakVC`, `CalendarHelper` | the month shown, a count of its days with a note | next and previous month; streak, month and week of the rows | the count is made while squares are drawn; gaps, several notes a day, short months, week start |
| Widgets, `SplashVC`, `WritingVC`, `Natomic Widget/` | the shared defaults, the widgets' timeline | saved at launch and when a note is posted; read by another process | saved before the note is added; nothing saved on deletion, fetch, sign-out |
| Reminders, `NotificationTimeVC`, `AppDelegate`, two alerts | the settings, iOS's scheduled requests | set, cancel, schedule the notes of a week ago, prompt | 12/24 hour and minute arithmetic; requests outlive the app, the settings and the notes |
| Background refresh, `AppDelegate` | none | registered, never submitted | |
| Navigation, sharing, analytics, pods | | | user interface and third-party code |

They interact in five ways: direct calls on the main queue; closures that
DatabaseHelper calls with an answer later; NotificationCenter posts
(`.saveUserData` reloads the list, `.reachabilityChanged` sends or queues);
the stores every part reads and writes; and iOS, which keeps notification
requests and the widgets' entries while the app does not run. All of the app's own code but
Reachability's callbacks runs on the main queue, so one handler is one atomic
step; what interleaves is whole handlers, requests, the server and the user.
Reachability has a serial queue of its own, and its model splits the handler at
each point where that queue, or the network, can come in between.

The app is Swift. The C, C++ and Objective-C files of the tree are the pods it is
built with (Firebase, gRPC, BoringSSL and others): third-party code, which no
module models.

What makes each part correct:

* launch chain: it drops a queue entry only once the server applied it, keeps
  the others in order, ends, and sends nothing twice in one launch;
* note store: the closed form of a removal or a merge is what the loops leave,
  and a merge identifies notes as the server does;
* screens: a note posted, edited or deleted is on the server, in flight or in a
  queue, and otherwise lost for a reason the code itself states; the list shows
  rows that exist;
* session: signing in loses nothing written before, deleting the account leaves
  nothing; the overlay always goes away;
* reminders: scheduled exactly as the settings say; a note of a week ago is
  announced in time, and again only by another launch on that day;
* notifier: its observers are told the connection there is, it runs exactly while
  it is watched, and nothing waits for it for good;
* streak, month, week, widgets: what is shown is what the notes say, or lags
  behind them by a bounded amount.

## Modules

    NoteStore                 pure operators on rows, queues and answers
       |
    Device                    store, account, web service, requests, network
       |        \________________________
    LaunchSync                           HomeScreen
       |                            /        |        \
       |                 WritingScreen  EditScreen  Session
       |________________________\______|_______/
                             Natomic

    Outbox <-- implemented by -- LaunchSync

    Reachability --> FeedbackScreen
    TimeOfDay --> Reminder --> ReminderHistory
    Calendar --> StreakScreen
             --> Widget

    MCNoteStore --> MCLaunchSync, MCNatomic, MCFeedback,
    MCReminder, MCStreakScreen, MCWidget                      instances for TLC
    LaunchSyncProofs --> OutboxProofs
                     --> NatomicProofs --> SurvivalProofs
    FeedbackProofs, ReminderProofs, StreakProofs, WidgetProofs
                                                              theorems for TLAPS
    (LaunchSyncProofs also takes what a merge should do from MCNoteStore)

**NoteStore.** A row is `[obj, text, day, noteID]`: the identity of the managed
object, and the three attributes decisions depend on. `date` and `time` are left
out: they only order the list, which is the reverse of the order of insertion.
`day` is a number: a positive one for `"\(count + 1)"`, a negative one for the
printed Optional that `syncLocalWithServer` stores (`"\(data.noteID)"`), so the
two never match, as in the code. `removeAtOffsets` is the closed form of
`Array.remove(atOffsets:)`.

**Device.** `notes`, `queue`, `uid` persist; `userData`, `net`, `overlay` die with
the process. A request in `net` is sent by a handler, carried out by the server
in a step of its own (`ServerAddsNote` ... `ServerRegisters`, external code), and
answered (`Delivered`) or failed (`Failed`) in a third; it may fail whether or
not it was carried out. `online` is what a Reachability notifier reads.

**LaunchSync.** `phase` is the drain under way, `snapshot` the captured array,
`indicesToRemove` and `group` the two variables of the same name.
`postDeletePendingData(q)`, `postEditedPendingData(q)` and
`postPendingUserNotes(q)` are the three functions with the queues they read:
each either starts a drain or calls the next. `LaunchRequestSucceeds` and
`LaunchRequestFails` are the completion handlers, `NotifyDeletes`, `NotifyEdits`
and `NotifyPosts` the notify blocks, which write back and start the next phase
in one step; `FetchSucceeds` and `FetchFails` are `getUserData`'s handler.

**Outbox.** The abstract specification of the launch chain: boxes of entries,
sent in rounds, one kind at a time and in turn; what is acknowledged was carried
out; a round that ends drops what was acknowledged and nothing else; a crash
leaves every box as it was. It knows of no rows, accounts, groups or answers.
LaunchSync implements it under the mapping `Promise` at its end: the boxes are the
queues, the round is the phase, open are the offsets of the requests in flight,
acknowledged is `indicesToRemove`.

**HomeScreen.** `screen` is who takes the touches. `deleteItemAt` opens the dialog
and captures the row, `DeleteConfirmed` is its Delete action (drop the pending
note of that day, send or queue, delete the row, reload), `DeleteTraps` the
array access out of range, `DeleteFails` the completion handler that queues
`deleteNoteID`. There is one `deleteNoteID` for every HomeVC pushed, because
signing out pushes a new one and leaves the old on the navigation stack.

**WritingScreen.** `writers` are all the WritingVCs presented. `postBTNtapped`
schedules the add and starts the notifier or queues; `addNote` is the block 0.2 s
later; `reachabilityChanged` is one report, which calls the selector once per
`addObserver`. A WritingVC is `Alive` while presented or captured by an
unanswered request or a scheduled block; as long as it is, each change of the
network is reported to it.

**EditScreen** and **Session** follow EditNoteVC, SignUpVC, MenuVC and
DeleteAccountAlertVC in the same way.

**Natomic** puts the components together: it extends them all, so that they share
the variables of Device, and interleaves their steps. `AllEnds` is a process
that ends, killed or trapped, with every screen and closure.

**Reachability, FeedbackScreen.** Reachability is one notifier in detail: `main` is
where `startNotifier` is on the main queue, `serial` the blocks on
`reachabilitySerialQueue` (callbacks with the flags they bring, and the first
look, for which the main queue waits), `reports` the notify blocks the flags'
observer has put on the main queue. Every call of SystemConfiguration may fail
where the code handles it. `Connection` decodes the flags. FeedbackScreen is
FeedbackVC on that notifier: the taps, a report that sends or refuses, the answer
that closes the screen, and the release of the notifier with it (`Released`).
WritingScreen and EditScreen keep the coarser notifier of Device (`online`, one
report when started and one per change), for which FeedbackScreen's properties
are the justification; there too a notifier may fail to start (`start`).

**TimeOfDay, Reminder.** TimeOfDay is the arithmetic of NotificationTimeVC and of
the quarter of an hour AppDelegate takes off. In Reminder, `now` counts minutes and
goes from one moment something may be due to the next (`Tick`, which delivers, and
schedules what repeats again); `requests` and `delivered` are iOS's and survive
every `Launch`. `prompt` is what HomeVC presents: the handlers of the alerts
and of WritingVC's dismissal decide who comes next. A request is named
`LocalNotification` or after the day of its notes. ReminderHistory adds `told`, the
notes announced so far: a history that constrains no step, needed because a
request is gone once delivered and the app never looks at what was.

**Calendar, StreakScreen, Widget.** Calendar has the queries by date as pure
operators: a day is a number, month arithmetic is on `[year, month, day]`. In
StreakScreen, `totalDaysFinished` is counted up as squares are drawn
(`ShowCells`), as in the code, and set back by the two arrows only. In Widget,
`shared` is what the app leaves in the shared defaults, at the moments it does,
and `timeline` what the widgets' process last read of it (`getTimeline`).
These two modules have their own rows of which only the dates matter, and do
not share state with Natomic.

### Abstractions

* An outcome the client is told of (failure, kill) leaves the request nowhere:
  if the server carries it out all the same it does so before. A server that
  executes a request after the client gave up on it is the same, seen from the
  phone, until its next request.
* An answer that does not decode counts as a failure in the launch chain, whose
  handlers treat the two alike, and is a separate event (`garble`) for screens,
  which do not. Response codes are not checked by the code and are not modelled.
* A missing `response` array is an empty one. With a missing one the code does
  not reload the list.
* The first report of a notifier comes before the 0.2 s add.
* The text is not retyped in the 0.2 s after the tap.
* A note is opened for editing from the list; TextOpenVC leads to the same
  EditNoteVC. TextOpenVC's own delete is behind a view that is never shown.
* Core Data's merge conflicts after the batch delete of `removeAllData` are not
  modelled.
* Permission for notifications is granted; the prompt of iOS is left out.
* Each square of the month is asked for once per reload. `viewWillTransition` of
  StreakVC, which draws without setting the count back, is left out: the source
  does not settle whether iOS calls it under UIRequiresFullScreen.
* The text `date` of a row is compared with a formatted day by the code; both
  name one day and are compared as days. Which text the widget shows is left out.
* Callbacks arrive on the serial queue in the order the network changed, each
  with the flags of that moment. `Reachability()` itself (a `try!`) succeeds.
* An alert of FeedbackVC can be closed whatever lies over it, and the request's
  overlay comes and goes with the request.
* A sign-in dialog of Google or Apple and the Firebase call after it are one step.

## Runs

Every budget of the Natomic runs is a field of the constant `Limit` and bounds
what the environment may do: `kill` (the process ends), `flip` (the network
changes), `fail` (a failure while online), `garble`, `start` (a notifier that does
not start), and the user's `write`, `tap`
(a second tap within 0.2 s), `edit`, `delete`, `signIn`, `signOut`. A run has several
starts, each of which takes the part of the budget its question needs
(`left = Without(...)` in MCNatomic): the whole budget from every start is out of
TLC's reach, and most of it is independent.

| Run | Question | Instance |
|---|---|---|
| `launch_sync` | Does the chain drain each queue as its answers say, and end? Does a launch without failures empty them? Is every step one of Outbox? Are the closed forms of removal and merge what the loops leave? | 0-2 deletes x 0-2 edits x 5 queues of posts, signed in or not; kill 1, flip 1, fail 2; with fairness. Arrays of 0-5 with every offset set; rows and answers of 0-3 over 3 texts |
| `writing` | Is a posted note lost, sent twice, or known by another's id? | `OneNote`: write 1 and one of each mishap, two or three kinds at a time left out in turn; `TwoNotes`: write 2, and one that waits from before, fail 1, kill 1 |
| `changing` | Is a confirmed deletion or an edit lost? Does the list show rows there are? Do the two copies of an unsent note agree? | `Deleting`: delete 2, server a note ahead or behind; `Editing`: edit 2 over two synchronised notes, a notifier that does not start; `Offline`: write 2, delete 2, signed out |
| `session` | Does a note survive signing in, and settle? Do the touches come back? | write 1, signIn 2, signOut 1, and a failure or a kill, two accounts; with fairness |
| `reminder` | Is the reminder as set, and does the picker reopen on it? When are old notes announced, and what announces them again? | 9 days, 2 notes, picked times 00:03 and noon |
| `feedback` | Does the notifier tell the connection there is, run exactly while watched, and let the main queue go? Is feedback answered, and sent once? | 4 values of the flags, 2 changes, 1 failing call, 2 taps; with fairness |
| `month` | Are the month's squares, counts and neighbours right? | 6 opening dates at month ends, 4 sets of notes, 6 taps |
| `widget` | Are streak and week right? How far may the widget lag? | 8 days from a Sunday, 2 posts, 1 change the widget is not told of |
| `stale_dialog` | Does the dialog delete the note it was opened for? **No.** | the `changing` starts |
| `offline_delete` | Is every note that waits to be sent still on the phone? **No.** | the `changing` starts |
| `erasing` | Does account deletion delete all data? **No.** | signOut 1 |
| `monday` | Does the week start on Sunday where weeks start on Monday? **No.** | firstWeekday 2 |

Two entries in a queue are the least for an order, an offset and a neighbour to
go wrong, and the proofs below cover every length. Two notes on screen are
the least for a wrong row; the third on the server makes the counts differ,
which is the test in `syncLocalWithServer`. Removals and merges
are functions of arrays: three texts are the least for an answer to repeat one and
miss one. One kill gives two launches, so a
drain that was cut short is drained again. Nine days are the seven after which a
note is announced and the day it may be late; 00:03 less a quarter of an hour
is on the day before, noon is where 12 and 24 hours part. Two changes of the
network are one within a start and one after it; the four values of the flags are
one for each way they decode; two taps are the least for a second observer. Eight days are a week and the Sunday
after. `CHECK_DEADLOCK FALSE` stands wherever the budget may run out with the app
idle, which is a state it really rests in. `SYMMETRY` is used in `writing` only,
over the two texts, whose starts and properties treat them alike, and which
has no liveness property.

What the properties say:

* `Barrier`, `OffsetsSound`: the group's count is the number of unanswered
  requests of this phase, each with the entry at its own offset; offsets are in
  range and never belong to an unanswered request.
* `DroppedOnlyWhenApplied`: whatever leaves a queue has been applied by the server.
* `ImplementsOutbox`: every step of the chain is a step of Outbox or leaves it
  alone. It implies that what is left of a queue keeps its order, with nothing
  added or doubled (`KeptInOrder`, which is proved and not run).
* `RemovalIsTheLoop`, `MergeGoesByText`: the operators the models are built from
  do what the loops do, and a merge gives every row the id of its own text.
* `TextSurvivesStamping`: stamping ids never rewrites a text while pending notes
  are numbered like their rows. The premise matters: `count + 1` repeats after a
  deletion, and the failure path of WritingVC counts a row that is already there.
* `IdsNameTheirNotes`: phone and server agree on what an id names, unless an edit
  of it waits, or was carried out that the row may not show: the other of two edits
  sent together, or one that waited while the row was built from an answer.
* `OneCopyPerLaunch`: duplicates on the server are bounded by the number of kills.
* `ChainEnds`, `HealthyLaunchDrains`: a launch ends, and empties the queues if
  nothing went wrong. `PostedNoteSettles`: a posted note reaches a server or
  the queue, unless it is given up on or the user signs out. `TouchesReturn`:
  the overlay goes away.
* `OfflineCopiesAgree`: before sign-in the queue holds the phone's notes and no
  other, as long as no two share a day (`count + 1`) and none is deleted in the
  0.2 s another waits to be added. `offline_delete` shows the first premise is needed.
* `PostedNoteSurvives`, `DeletionSurvives`, `EditSurvives`: no change is lost, except
  in the ways MCNatomic lists by cause (`GivenUp`, `Unreported`, `Overwritten`): the
  kill of a request not yet carried out, an undecodable answer, an edit whose
  failure is only printed, a failed deletion that queues another id, a notifier
  that does not start (`Unstarted`), an entry appended while its queue was
  drained. Each is a real weakness of the code; the properties say there is no
  other.
* `AnswersNameTheirNotes`: a row's id is that of a note with its text, as long as
  one sender is at work at a time and no answer takes less than 0.2 s. Both
  premises are needed: the answer's id goes to the last row there is.
* `NoCauselessDuplicate`: as long as the network does not change and nothing
  fails, is killed or tapped twice, the server never gets more notes than were
  posted.
* `ScreenListsRows`, `ListedNotesExist`: what the list shows against what the store
  holds. Under sign-in only the weaker one holds: a sheet closed with Back while
  its fetch is in flight never reloads the list.
* `TellsTheConnection`: a notifier that runs knows the network's flags once its
  callbacks are served, and has told that connection last, whatever changed
  while it was started. `RunsIffWatched`: no failure on the way leaves one without
  the other. `MainReturns`: what the main queue waits for does not wait for it.
* `OneFeedbackPerSubmit`: while the network does not change, flags that iOS brings
  a second time send nothing. `SubmitIsAnswered`: the first tap whose notifier
  starts is answered.
* `PickerReopensOnSaved`: the picker shows the time that is scheduled.
* `ReminderAsSet`, `ThoughtsAtMostADayLate`: through restarts, changed and erased
  settings; a note of a week ago may be a day late.
* `AnnouncedOncePerLaunch`: about deliveries, not pending requests. The launches
  before the hour of the seventh day announce a note once between them; one after
  the hour announces it again, and nothing else does.
* `StreakIsTheRun`, `MidnightJudgesTheDay`, `SundayFirst`: streak and week against
  a definition by sets; midnight ends a streak exactly if the day had no note.
* `StreakCountsToday`, `WeekMissesOnlyTheNewest`: what the shared defaults and the
  widget's entries may lag behind, whatever is killed between tap and add. The
  code saves the week before the note is added and never after, so the newest
  note's day is missing until the next post or launch.
* `MonthIsCounted`, `MonthsInTurn`, `SquaresUnderTheirWeekday`: the count made while
  drawing is that of the month shown; the arrows skip no month, and the day they
  go by stays one of its month.

Type invariants are run where the inductive invariant needs them (`TypeOK`) and
proved elsewhere (`FeedbackTypeOK`, `ReminderTypeOK`, `WidgetTypeOK`,
`StreakTypeOK`, `AppTypeOK`).

### Disagreements found

* `stale_dialog`: the dialog keeps an index path and reads `userData` again when
  Delete is tapped. If the launch fetch replaces the list meanwhile, another note
  is deleted; if the list became shorter, the access traps (`DeleteTraps`).
* `offline_delete`: the unsent copy of a deleted note is looked up by its day,
  which repeats after a deletion. Delete the first of two unsent notes, write a
  third, delete it: the second's copy is dropped and the deleted one is sent.
* `erasing`: a launch fetch answered before, and delivered after, the account is
  deleted puts the notes of the deleted account back on the phone.
* `monday`: the week starts on the calendar's first weekday, by a remainder that
  may be negative; the comment and the widget's columns say Sunday.

Seen while modelling, without a run of their own:

* a second Submit of feedback, while the first one's notifier runs, does nothing
  until the network changes, and then the feedback is sent twice
  (`Controllers/FeedbackVC.swift:59` adds an observer each time);
* a notifier that does not start is only printed (`Controllers/WritingVC.swift:251`,
  `Controllers/EditNoteVC.swift:130`): the note or the edit is neither sent nor queued;
* an edit of a note that has no id yet names the empty id
  (`Controllers/EditNoteVC.swift:117`), and the queued post keeps the old text;
* a row built from an answer while an edit of its note waits has the old text, and
  keeps it after the edit is carried out, as long as the counts agree: a merge gives
  rows ids and never texts (`Delegates/AppDelegate.swift:293`). In the `launch_sync` run
  two failed answers of one launch, of an edit and of a deletion or a post, bring it
  about;
* the notes of a week ago are titled "Your thoughts 7 days ago"
  (`Delegates/AppDelegate.swift:354`) and delivered eight days after when the app was
  launched after that time of day (`ThoughtsAtMostADayLate` is the bound);
* they are scheduled at every launch (`Delegates/AppDelegate.swift:346`), and the name
  made of the day replaces only a request that still waits: a launch after the hour
  of the seventh day, when they were announced already, announces them again on the
  eighth, or the same day if the reminder was set to a later hour meanwhile;
* the notification with them stays scheduled when the account is deleted
  (`Controllers/MenuVC.swift:219` cancels `LocalNotification` only), and the widget shows
  the last note until the next launch;
* on an iPad the month has rows of 4 squares (`Controllers/StreakVC.swift:86`) under
  seven weekday headings; the `month` run is about the phone;
* the widgets are asked to reload 0.2 s before the streak is saved again, so
  they may show the streak without the note just posted.

## Fairness

`Fairness` (LaunchSync) and `AppFairness` (Natomic) are weak fairness (`SessionSpec` uses the latter) of: a notify
block that is enqueued, an answer or failure of a request in flight, a request
that has reached the server, a delayed block, a connection report. iOS runs what
is on the main queue, and a URLSession request ends with an answer or a timeout.
`FeedbackFairness` is weak fairness of the steps of a start, of the serial queue, of a
notify block and of the end of a request, for the same reasons. Nothing is assumed of the user, of
the network, or of a request's success: an offline request may only fail.

## Proofs

`LaunchSyncProofs` begins with the pure operators: `RemovalIsArray` and
`RemovalKeepsOrder` say that what `remove(atOffsets:)` leaves is an array, of the
right length, holding exactly the elements whose offset was not given, in order.
The lemmas on `Nth` and `Rank` (the rank of a member of a finite set grows with
it) carry them. `RemovalOfNone` and `RemovalIsOneMore` are the two steps of the
induction that the closed form is what the code's loop leaves: it changes nothing for
no offset, and one more offset, below the others, is one `remove(at:)`. The
induction itself is over data, and `RemovalIsTheLoop` checks it over short arrays.
`MergingGoesByText` says of the merge what the `launch_sync` run's
`MergeGoesByText` checks over short lists (`MergesByText`), for any rows and answer. Its
hypothesis `IDsApart` is what every such list there has: the answer's ids differ, and a
row whose text the answer lacks has no id, or one nothing else has; otherwise a note
edited offline can share its id with a row that got it by the text. The other
lemmas bound the types of what edits, merges and searches return.

It proves of `Spec` of LaunchSync, from `NoAccountAssumption` and
`LimitAssumption` only, for any texts, accounts, budgets and any initial store
and queues of the right type:

| Theorem | States |
|---|---|
| `InvariantHolds` | `[]IInv` |
| `TypeCorrect` | `[]TypeOK` |
| `BarrierHolds` | `[]Barrier` |
| `OffsetsHold` | `[]OffsetsSound` |
| `QueuesKeepOrder` | `KeptInOrder` |
| `StampingKeepsTexts` | `TextSurvivesStamping` |

`Barrier` is not inductive: that an answer decrements `group` exactly when it
removes a request needs that no two requests of a drain share an offset
(`OneEach`), that the network holds nothing else of the chain while a phase runs
and nothing of a drain while it does not (`NetOK`), and that rows differ in identity
(`ObjectsApart`). `LaunchInv` is the conjunction of these with the types, and every
step of the chain keeps it whoever else is at work. `IInv` adds `Captured`: the
captured array is still the saved queue, which is true of the chain alone.
`StepIsOK` has one lemma per action. `QueuesKeepOrder` is `RemovalKeepsOrder`
applied to the notify blocks, with `Captured` for `snapshot = queue[phase]`.

`OutboxProofs` proves `LaunchImplementsOutbox`: LaunchSync implies the specification of
Outbox under the mapping (`ImplementsOutbox`). Initial states map to initial
states, and each action of the chain maps to Begin, Carry, Settle, Finish, Crash
or a stutter. The invariant of `LaunchSyncProofs` is what makes it go through:
`OneEach` for a request to be one position, `Captured` for the array written back
to be the box without what was acknowledged.

It also proves `DropsAreApplied`: `Spec` and `NotesApart` imply
`DroppedOnlyWhenApplied`. `NotesApart` is assumed of the first state only: the ids of
an account's notes are distinct and below the next one, as the web service
numbers them. `AppliedInv` is what an answer stands for until the queue is written
back: the entries answered, and those of the requests carried out but not
answered, stay applied while the server goes on with the rest of the round. It
needs that a round has requests of one kind (`Barrier`, `OwnRequests`): if phases
overlapped, a deletion could take away a note that counts as posted.

Three more are about particular notes, texts and rows, and say at the start what
the runs' starts are:

| Theorem | States | If at the start |
|---|---|---|
| `PostedOncePerLaunch` | `[]OneCopyPerLaunch` | `NotesApart`, the whole budget, and `NewText` of both texts: no note has it, no edit would give it, one entry at most waits with it |
| `RowsShowTheirNotes` | `[]IdsNameTheirNotes` | `NotesApart`, `RowsOK`, `EditsApart` |
| `MergesGoByText` | `[]MergeGoesByText` | the whole budget, `RowsApart`, and three texts there are |

`CopyInv` is the invariant of the first, for one text: there are at most as many
copies as kills, and one more if none can still come (`Coming`) before the next. That a
copy which came cannot come again in the same launch is `Barrier` and `OneEach`; that
it may after a kill is what the count of kills is for.

`RowInv` is the invariant of the second. A row's text may be older than an edit that
waits, and the merge goes by texts, so it follows every text such an edit is to
replace: `EditsApart` says no other note has it and no new one will, without
which the merge may give the row another note's id, as the code does; `RowOK` that
only rows which show an edit's text, or came with an answer, have it. `PostsNamed` is
that a new id's answer names a note with the entry's text, by `DropsAreApplied`'s
`AppliedInv`; `FetchIsFresh` that a fetch has the server to itself, since it follows
the last drain and a kill takes it away.

The third puts `MergingGoesByText` under the run's property. Its hypothesis on the
rows is about the phone at the start, and `AtTheStart` says that only a kill, which
the budget shows, brings an app back to not running.

All of these are about LaunchSync alone: within Natomic the screens append to a
queue while it is drained, `Captured` is false, and what was appended is lost.
That is the hazard `Overwritten` names.

`NatomicProofs` proves of `AppSpec`, the whole app, from `NoAccountAssumption`,
`LimitAssumption` and `ScreenLimits` only, for any texts, accounts, budgets and any
store, queues and server of the right type:

| Theorem | States |
|---|---|
| `AppInvariantHolds` | `[]AppInv` |
| `AppTypeCorrect` | `[]AppTypeOK` |
| `BarrierUnderTheScreens` | `[]Barrier` |
| `OffsetsUnderTheScreens` | `[]OffsetsSound` |
| `ListedNotesAreStored` | `[]ListedNotesExist` |
| `ListIsTheRows` | `[]ScreenListsRows`, if `left["signIn"] = 0` at the start |

The first three say that the launch chain does not depend on the screens' good
behaviour: they share its stores and its network, but a request of theirs is
never taken for one of the chain. `ListedNotesExist` is not inductive. That a row's object
is found needs that no two rows have the same (`ObjectsApart`, in `LaunchInv`); that
deleting it does not leave a listed object behind needs that the list is
reloaded in the same step; that an answer finds the HomeVC or the WritingVC that asked
needs `Callbacks`; and that a merge at launch meets no screen of the process before
needs `NoProcess`. `AppInv` is the conjunction of these, kept by one lemma
per action. `ListIsTheRows` adds to it that nobody signs in (`NobodySignsIn`), without
which a sheet closed with Back over its fetch leaves the list as it was.

`SurvivalProofs` proves what becomes of a change the user made, and what the server
and the rows make of a note, of the whole app under MCNatomic's history (`AppInit`, `NoHistory` and
`[][MCNext]_MCVars`, no fairness), for any accounts, texts, rows and server, any
queues but for the hypotheses, and any budget of taps, reports, failures,
garbled answers, kills and launches:

| Theorem | States | If at the start |
|---|---|---|
| `PostedNotesSurvive` | `[]PostedNoteSurvives` | `OnlyNotesWait`: no edit, deletion or sign-out is to come or queued |
| `ConfirmedDeletionsSurvive` | `[]DeletionSurvives` | no sign-out is to come, `NotesApart`, `IDsIssued` |
| `EditsMadeSurvive`, `EditsSurvive` | `[]EditSurvivesBut(known)`, of which `[]EditSurvives` is the case of the runs' server | `EditStart`: no sign-out and no writing is to come, no edit and no post is queued, `NotesApart`, and the server's texts are in `known` |
| `NotesSentOnce` | `[]NoCauselessDuplicate` | `OnlyNotesWait`, and the server has no note of the account |
| `AnswersNameNotes` | `[]AnswersNameTheirNotes` | `NamesStart`: `OnlyNotesWait`, no sign-in is to come, `NotesApart`, `IDsIssued`, the rows name notes with their texts |

None of the properties is inductive. The first three speak of an entry that leaves
the queue, or a request that ends, and say that the server has it by then; so the
invariants follow an entry to that point. All were checked as invariants of the
`writing` and `changing` runs' specifications before they were proved.

`NotesInv` with `Watched` is the one for notes. `StillQueued`: the array captured by
the drain is a part of the queue, which only grows meanwhile, so that writing the
captured array back costs only what was appended, and `Overwritten` counts
that. `AnswersStored`: what is acknowledged or answered is on the server.
`OneSession`: a request, and a WritingVC that has something to report, belong to
the account signed in, which nobody leaves. `OwnTexts` and `WritersApart`: the entry
a failed request queues is its writer's. `Watched`: who promises to report is one
of the notes posted. `OnlyNotes` is what `OnlyWrites` makes of the network.

`DeletionInv` is the one for deletions. `DrainQueued` and `AnswersGone` correspond to the
first two. That a note deleted on the server stays gone needs that the server
never gives out its id again (`NotesApart`) and that every id the phone holds, in
its rows, its queue, its answers and its dialogs, was given out by the server
(`IDsIssued`): otherwise a later note could take the id of a confirmed deletion.
`DeleteCallers` and `DeletersApart` say whose a deletion under way is. Edits, writes and
sign-ins are all allowed. `Settled` is the property for one id, and each step keeps it.

`EditInv` is the one for edits. An edit differs from a deletion in that it can be
undone: an older edit of the note that still waits may be carried out after a newer
one. So the property is about the only edit of a note, and `EditsCarried` says that
what is acknowledged or answered is on the server unless its note is gone or was
edited again; that holds only because whatever is sent or waits is an edit the user
made (`EditsMade`). `EditorSteady` is what ties the two: from the tap until the
notifier reports, the row the editor looks up has the text and the id it was
edited with. A merge meanwhile may give the row another id if an answer has its text
under one, so every text on the server or in an answer has to be one it began with or
that of an edit of the same note (`TextsKnown`), and the texts told apart (`ToldApart`,
the premise of the property). `EditorShown` and `EditorsApart` say whose a request of
an editor is.

`OnceInv` adds to `NotesInv` a count: the notes on the server, the requests not yet
carried out, the writers who are still to report, and, before a launch, the
queue, are together at most the notes posted (`SentOnce`), as long as nothing disturbs
and no one taps twice (`TapsOnce`). Each step moves one from one place to the next.

`NamesInv` adds to `NotesInv` and `DeletionInv` that at most one writer or drain is at
work (`OneAtWork`), that the last row is the writer's once it was added (`LastIsTheirs`)
and that an answer's id is that of a note with the request's text (`AnswersTrue`).
Signing in is left out: its fetch may append rows behind a note whose answer is still
to come, and the answer's id goes to the last row there is.

The hypotheses are needed. Signing out drops the queues (`EmptyThePhone`), with
them a deletion that waits, and `deleted` goes on over it. `posted` does start again
when the menu opens, but a drain begun before signing out writes its array back over
what was posted after it, and an entry equal to a captured one is then lost
without `Overwritten` seeing it. A deletion can take away another note's pending copy (the
`offline_delete` run), and an edit changes the text a note is recognised by on the
server, so `PostedNotesSurvive` is about writing alone.

`FeedbackProofs` proves of `FeedbackSpec`, from `FlagsAssumption`, `LimitsAssumption` and
`SubmitAssumption` only, for any set of flags and any number of changes,
failures and taps:

| Theorem | States |
|---|---|
| `FeedbackTypeCorrect` | `[]FeedbackTypeOK` |
| `NotifierRunsIffWatched` | `[]RunsIffWatched` |
| `NotifierTellsTheConnection` | `[]TellsTheConnection` |
| `FeedbackIsSentOnce` | `[]OneFeedbackPerSubmit` |

None is inductive. `Phases` says which marks are set at each point of a start and
that a notifier whose object is gone is not watched; `OneLook` that the first
look is on the serial queue exactly while the main queue waits for it; `Waits`
and `Follows` that the last block of that queue brings the flags there are, until
they are known; `Tells` that new flags are reported; `Calm` what is known of a
network that has not changed.

`ReminderProofs` proves of `ReminderSpec` (the last but one of `HistorySpec`), from
`PickerTimeAssumption` and `DaysAssumption` only, for any set of times, any number of days and notes:

| Theorem | States |
|---|---|
| `QuarterBefore`, `PickerReopens` | the arithmetic, for all 1440 times of day |
| `ReminderTypeCorrect` | `[]ReminderTypeOK` |
| `ReminderIsAsSet` | `[]ReminderAsSet` |
| `PickerShowsTheReminder` | `[]PickerReopensOnSaved` |
| `AnnouncedAgainByLaunchOnly` | `AnnouncedOncePerLaunch` |
| `AnnouncedInTime` | `ThoughtsAtMostADayLate` |

`ReminderAsSet` compares sets of times; `AsSet` says the same request by request,
which survives a `Tick` because only the reminder repeats (`Repeating`) and a day
does not change a time of day. The other two rest on `Named`: a request's name
is a function of its notes' date, and tells the two days it may be due on.
Without the names the same notes could wait twice on one day; with them no two
requests share a note (`BodiesApart`). For `AnnouncedAgainByLaunchOnly` the invariant is
`ToldNoLongerWaits`: no request holds a note of `told`. A `Tick` keeps it because
what it delivers is not in any request that goes on waiting, a `Launch` because it
takes the notes it schedules out of `told`.

Both modules on dates begin with facts about the queries by date, for every
sequence of dates. The loop of `calculateStreak` ends (`LoopEnds`): if each of the
`Len(rows) + 1` days before today had a note, two of them would have the same
one. `StreakCountsARun`, `StreakOverMidnight` and `StreakIsBounded` say what it
counts, `WeekFromSunday` which days the week has (all in WidgetProofs);
`SquaresLaidOut` and `SquaresCounted` (in StreakProofs) that squares and days
correspond one to one.

`WidgetProofs` proves of `WidgetSpec`, from `DayAssumption`, `WeekdayAssumption` and
`LimitAssumption` only, for any days, posts and changes the widgets are not told of:

| Theorem | States |
|---|---|
| `WidgetTypeCorrect` | `[]WidgetTypeOK` |
| `StreakIsAlwaysTheRun` | `[]StreakIsTheRun` |
| `WeekStartsOnSunday` | `[]SundayFirst`, if `firstWeekday = 1` |
| `MidnightIsTheJudge` | `MidnightJudgesTheDay` |
| `SharedStreakCountsToday` | `[]StreakCountsToday` |
| `WidgetsWeekMissesOnlyTheNewest` | `[]WeekMissesOnlyTheNewest` |

The first four need no more than the types, of which the one that matters is that
no row is of a day to come. `StreakCountsToday` is inductive with them.
`WeekMissesOnlyTheNewest` is not: the widget's entries are a copy of the shared
defaults, so `WeekInv` says the same of both, and that neither shows a date to
come, which is why a note of today may be missed and no other.

`StreakProofs` proves of `StreakSpec`, from `OpeningAssumption`, `NotesAssumption` and
`ScreenAssumption` only, for any dates, notes and number of taps:

| Theorem | States |
|---|---|
| `StreakTypeCorrect` | `[]StreakTypeOK` |
| `SquaresAreUnderTheirWeekday` | `[]SquaresUnderTheirWeekday`, if not `isPad` |
| `MonthIsAlwaysCounted` | `MonthIsCounted` |
| `MonthsAreInTurn` | `MonthsInTurn` |

`ScreenInv` is the invariant: the squares are those of the month shown, and the
date shown exists, which an arrow keeps because the day is cut to the month
(`OtherMonth`). The counts are not part of it, since a fetch may replace the notes
under them; they are right whenever the month changes.

Only model-checked: liveness (out of the prover's reach), and `RemovalIsTheLoop` and
`OfflineCopiesAgree`, whose loops are folds over data: what a fold computes is known
by induction over its array, which the installed provers cannot do.

## Not modelled

The background refresh (registered, never submitted), the permission prompt,
onboarding, sharing, analytics, the note's detail view (its delete is never
shown) and the pods, which are third-party code and most of the tree; see
`PROJECT.json` for each part's reason. Four hazards have no property because the
code does what the hazard says: two queued edits of one note of which the older
may be carried out last, an edit of a note without an id, Core Data's
conflicts after the batch delete (outside the repository), and a widget that
keeps showing what was deleted until the next launch. Where a property covers a
hazard in part only, the hazard's note says what it leaves out.

## Plan

1. Done: NoteStore, Device, LaunchSync, the screens and Natomic; Calendar,
   StreakScreen and Widget; TimeOfDay and Reminder; Reachability and FeedbackScreen;
   Outbox, which LaunchSync implements; the theorems above.
2. Starts for notes edited offline before they are sent.
3. WritingScreen and EditScreen on the detailed Reachability, shown to implement
   the coarse one of Device.
4. The disagreements above that have no run yet.
