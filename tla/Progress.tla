----------------------------- MODULE Progress ------------------------------
(***************************************************************************)
(* The progress display of the client (ProgressManager, ProgressToken and  *)
(* HideProgress of include/client/Client.h, src/client/Client.cpp): the    *)
(* command's thread opens and closes tokens and queues messages, a second  *)
(* thread prints them when they are due.                                   *)
(***************************************************************************)
EXTENDS Naturals, Sequences, Bags

CONSTANTS
  ShowDelay,      \* 200 ms: from the first token to its message
  SleepLength,    \* 1 s: how long the thread sleeps without work
  RepeatDelay,    \* 2 s: between two signs of life
  MaxTime,        \* bound on the clock
  MaxTokens,      \* bound on the tokens a command opens
  MaxValues       \* bound on the values it reports

ASSUME ProgressAssumption ==
  /\ {ShowDelay, SleepLength, RepeatDelay} \subseteq Nat \ {0}
  /\ ShowDelay < SleepLength /\ SleepLength < RepeatDelay
  /\ {MaxTime, MaxTokens, MaxValues} \subseteq Nat

VARIABLES
  clock,
  display,     \* the members of the ProgressManager
  work,        \* the queue work_, a bag of items
  scopes,      \* the client's open scopes, innermost last
  opening,     \* whether it is between the two calls of ProgressToken::start
  opened,      \* how many tokens it has opened
  reported,    \* how many values
  printer,     \* where the second thread is
  nextTick,    \* when it wakes up
  item,        \* the item it has taken
  late         \* how many messages it printed since showing was stopped

clientVars == <<scopes, opening, opened, reported>>
threadVars == <<printer, nextTick, item, late>>
progressVars == <<clock, display, work, clientVars, threadVars>>

Item(t, k) == [time |-> t, kind |-> k]

(* The queue is a max-heap by time: its top is the item that is due last.  *)
TopItem(q) == CHOOSE i \in BagToSet(q) : \A j \in BagToSet(q) : j.time <= i.time

WithItem(q, i) == q (+) SetToBag({i})

(* Not every member is initialised: those start with any value.            *)
ProgressInit ==
  /\ clock = 0
  /\ display \in [stop : {FALSE}, showing : {FALSE}, actuallyShowing : BOOLEAN, nesting : 0..1,
                  repeat : BOOLEAN, verbose : BOOLEAN]
  /\ work = EmptyBag
  /\ scopes = <<>> /\ opening = FALSE /\ opened = 0 /\ reported = 0
  /\ printer = "waiting" /\ nextTick = SleepLength /\ item = Item(0, "none") /\ late = 0

-----------------------------------------------------------------------------
(* The client's thread.                                                    *)

Running == ~display.stop /\ ~opening

(* ProgressToken::start, first call.                                       *)
MaybeStartShowingProgress ==
  /\ Running /\ printer # "locked" /\ opened < MaxTokens
  /\ \/ scopes' = Append(scopes, "token")
     \/ scopes = <<"ended">> /\ scopes' = <<"token">>    \* progress.start in upgrade
  /\ opened' = opened + 1 /\ opening' = TRUE
  /\ IF ~display.verbose THEN UNCHANGED <<display, work>>
     ELSE IF display.showing
     THEN display' = [display EXCEPT !.nesting = @ + 1] /\ UNCHANGED work
     ELSE /\ display' = [display EXCEPT !.showing = TRUE, !.repeat = FALSE]
          /\ work' = WithItem(work, Item(clock + ShowDelay, "announce"))
  /\ UNCHANGED <<clock, reported, threadVars>>

(* An item put in without the lock; while the other thread works on the    *)
(* queue, it may get lost.                                                 *)
PutUnlocked(i) ==
  \/ work' = WithItem(work, i)
  \/ printer = "locked" /\ UNCHANGED work

(* ProgressToken::start, second call.                                      *)
ShowSomeProgress ==
  /\ opening /\ opening' = FALSE
  /\ IF display.verbose /\ display.nesting = 0
     THEN PutUnlocked(Item(clock + RepeatDelay, "sign"))
     ELSE UNCHANGED work
  /\ UNCHANGED <<clock, display, scopes, opened, reported, threadVars>>

(* Every caller holds a token.                                             *)
SetProgress ==
  /\ Running /\ "token" \in {scopes[i] : i \in DOMAIN scopes}
  /\ reported < MaxValues /\ reported' = reported + 1
  /\ IF display.verbose /\ display.nesting = 0 /\ display.actuallyShowing
     THEN PutUnlocked(Item(clock, "percent"))
     ELSE UNCHANGED work
  /\ UNCHANGED <<clock, display, scopes, opening, opened, threadVars>>

(* What would flood the terminal: to keep what is queued.                  *)
stopKeepingWork ==
  IF display.nesting > 0
  THEN display' = [display EXCEPT !.nesting = @ - 1] /\ UNCHANGED <<work, late>>
  ELSE /\ display' = [display EXCEPT !.showing = FALSE, !.actuallyShowing = FALSE, !.repeat = FALSE]
       /\ late' = 0 /\ UNCHANGED work

StopShowingProgress ==
  IF ~display.verbose THEN UNCHANGED <<display, work, late>>
  ELSE IF display.nesting > 0
  THEN display' = [display EXCEPT !.nesting = @ - 1] /\ UNCHANGED <<work, late>>
  ELSE IF ~display.showing THEN UNCHANGED <<display, work, late>>
  ELSE /\ display' = [display EXCEPT !.showing = FALSE, !.actuallyShowing = FALSE, !.repeat = FALSE]
       /\ work' = EmptyBag /\ late' = 0

(* A token ends with its scope; the outermost one also before that.        *)
endToken ==
  /\ Running /\ printer # "locked"
  /\ scopes # <<>> /\ scopes[Len(scopes)] \in {"token", "ended"}
  /\ \/ scopes' = SubSeq(scopes, 1, Len(scopes) - 1)
     \/ scopes = <<"token">> /\ scopes' = <<"ended">>
  /\ StopShowingProgress
  /\ UNCHANGED <<clock, opening, opened, reported, printer, nextTick, item>>

(* HideProgress: verbose_ is put away and put back.                        *)
hideProgress ==
  /\ Running /\ Len(scopes) < MaxTokens
  /\ scopes' = Append(scopes, IF display.verbose THEN "verbose" ELSE "quiet")
  /\ display' = [display EXCEPT !.verbose = FALSE]
  /\ UNCHANGED <<clock, work, opening, opened, reported, threadVars>>

unhideProgress ==
  /\ Running
  /\ scopes # <<>> /\ scopes[Len(scopes)] \in {"verbose", "quiet"}
  /\ display' = [display EXCEPT !.verbose = scopes[Len(scopes)] = "verbose"]
  /\ scopes' = SubSeq(scopes, 1, Len(scopes) - 1)
  /\ UNCHANGED <<clock, work, opening, opened, reported, threadVars>>

(* ~ProgressManager: stop_ is set and the thread is joined.                *)
stopManager ==
  /\ Running /\ printer # "locked" /\ scopes = <<>>
  /\ display' = [display EXCEPT !.stop = TRUE]
  /\ UNCHANGED <<clock, work, clientVars, threadVars>>

-----------------------------------------------------------------------------
(* The second thread.                                                      *)

(* The wait with the predicate stop_: a notification alone does not end it.*)
awaitTick ==
  /\ printer = "waiting" /\ (display.stop \/ clock >= nextTick)
  /\ printer' = IF display.stop THEN "over"
                ELSE IF work = EmptyBag THEN "waiting" ELSE "locked"
  /\ nextTick' = IF ~display.stop /\ work = EmptyBag THEN nextTick + SleepLength ELSE nextTick
  /\ UNCHANGED <<clock, display, work, clientVars, item, late>>

(* The top is taken when it is due; with repeatWork_ another sign of life  *)
(* is queued in its place.                                                 *)
takeWork ==
  /\ printer = "locked"
  /\ LET top == TopItem(work)
         rest == work (-) SetToBag({top})
         more == IF display.repeat /\ display.verbose /\ display.nesting = 0
                 THEN WithItem(rest, Item(clock + RepeatDelay, "sign")) ELSE rest
     IN IF clock < top.time
        THEN printer' = "waiting" /\ nextTick' = top.time /\ UNCHANGED <<work, item>>
        ELSE /\ work' = more /\ item' = top /\ printer' = "printing"
             /\ nextTick' = IF more = EmptyBag THEN top.time + SleepLength ELSE TopItem(more).time
  /\ UNCHANGED <<clock, display, clientVars, late>>

Printed == late' = IF display.verbose /\ ~display.showing THEN late + 1 ELSE late

(* The item itself, after the lock was released.  A sign of life is wanted *)
(* before the lock is taken again, and printed with it.                    *)
doWork ==
  /\ printer = "printing"
  /\ \/ /\ item.kind = "announce" /\ printer' = "waiting"
        /\ display' = IF display.showing THEN [display EXCEPT !.actuallyShowing = TRUE] ELSE display
        /\ UNCHANGED late
     \/ /\ item.kind = "sign" /\ display' = [display EXCEPT !.repeat = TRUE] /\ UNCHANGED late
        /\ printer' = IF display.actuallyShowing THEN "showing" ELSE "waiting"
     \/ item.kind = "percent" /\ printer' = "waiting" /\ Printed /\ UNCHANGED display
  /\ UNCHANGED <<clock, work, clientVars, nextTick, item>>

showSign ==
  /\ printer = "showing" /\ printer' = "waiting" /\ Printed
  /\ UNCHANGED <<clock, display, work, clientVars, nextTick, item>>

passTime ==
  /\ clock < MaxTime /\ clock' = clock + 1
  /\ UNCHANGED <<display, work, clientVars, threadVars>>

printProgress == awaitTick \/ takeWork \/ doWork \/ showSign
useProgress ==
  \/ MaybeStartShowingProgress \/ ShowSomeProgress \/ SetProgress \/ endToken
  \/ hideProgress \/ unhideProgress
closeProgress == endToken \/ unhideProgress \/ ShowSomeProgress \/ stopManager

ProgressNext == printProgress \/ useProgress \/ stopManager \/ passTime
ProgressSpec == ProgressInit /\ [][ProgressNext]_progressVars

-----------------------------------------------------------------------------
(* Stopping the display empties the queue, so of everything that was due   *)
(* no more than the one message the second thread had already taken can    *)
(* appear after it, among the command's own output.                        *)
AtMostOneLate == late <= 1

DisplayOver == printer = "over"
=============================================================================
