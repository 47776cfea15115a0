---------------------------- MODULE PostingProofs ----------------------------
(***************************************************************************)
(* Proofs about the books, what they stand on and what is read from them,  *)
(* for any requests, documents, periods, rows and users: the signing of    *)
(* periods over their close; the masters; the posting engine; the reports. *)
(***************************************************************************)
EXTENDS Reports, Sums, PostingEngine, PeriodSigning, Masters, FiniteSetTheorems, TLAPS

-----------------------------------------------------------------------------
(***************************************************************************)
(* A hole in the calendar takes two calls of the service at once, and what *)
(* is closed is accounted for, for any number of periods, users and        *)
(* documents.                                                              *)
(*                                                                         *)
(* HoleTakesTwo is not inductive: what a call found when it looked at the  *)
(* calendar must still be so when it commits.  SignedCalendarInv says it is, as  *)
(* long as the call is alone.  Nor is ClosesAreAccountedFor: AccountsInv   *)
(* follows what each desk carries from the page to the event.              *)
(***************************************************************************)

Ops == {"close", "reopen"}
Calls == [step : {"locked", "checked"}, op : Ops, period : Periods]
DeskStages == {"away", "page", "asked", "serving", "committed"}
Found == {"unposted", "subledger"}
Desks == [at : DeskStages, op : Ops \cup {"none"}, period : Periods \cup {0}, shown : SUBSET Found,
          ticked : BOOLEAN, report : SUBSET Found, over : SUBSET Found, stirred : BOOLEAN]

Types ==
  /\ status \in [Periods -> {"OPEN", "CLOSED"}]
  /\ closer \in [Closers -> {Idle} \cup Calls]
  /\ desk \in [Closers -> Desks]

\* What is on a desk names a period and what to do with it.
AskedFor ==
  \A c \in Closers : desk[c].at # "away" => desk[c].op \in Ops /\ desk[c].period \in Periods

\* Who is in the service has the page that asked for it.
ServedAtDesk == \A c \in Closers : closer[c] # Idle => desk[c].at = "serving"

\* The calendar of a call alone: nobody else is in the service, and what it
\* found is so.
Alone == \A c, d \in Closers : closer[c] # Idle /\ closer[d] # Idle => c = d
FoundIsSo ==
  \A c \in Closers : closer[c].step = "checked" =>
    IF closer[c].op = "close" THEN EarlierClosed(closer[c].period)
                              ELSE LaterOpen(closer[c].period)
SignedCalendarInv ==
  /\ Types
  /\ AskedFor
  /\ ServedAtDesk
  /\ ~overlap => Alone /\ FoundIsSo /\ NoHoleInCalendar

LEMMA WarningsAreFound == ASSUME NEW p PROVE Warnings(p) \in SUBSET Found
BY DEF Warnings, Found

LEMMA IdleIsNoCall == Idle \notin Calls /\ Idle.step = "idle"
BY DEF Idle, Calls

\* At the start every period is open and nobody is at work.
LEMMA InitCalendar == SigningInit => SignedCalendarInv
<1> SUFFICES ASSUME SigningInit PROVE SignedCalendarInv
  OBVIOUS
<1>1. Away \in Desks
  BY PeriodAssumption DEF Away, Desks, DeskStages, Found
<1>2. Types
  BY <1>1 DEF SigningInit, PeriodInit, Types
<1>3. AskedFor /\ ServedAtDesk /\ Alone /\ FoundIsSo
  BY IdleIsNoCall DEF SigningInit, PeriodInit, Away, AskedFor, ServedAtDesk, Alone, FoundIsSo
<1>4. NoHoleInCalendar
  BY DEF SigningInit, PeriodInit, NoHoleInCalendar
<1> QED
  BY <1>2, <1>3, <1>4 DEF SignedCalendarInv

\* A step that leaves the calendar and its calls alone, and whose desk stays
\* serving where it was, keeps the invariant.
LEMMA DeskStep ==
  ASSUME SignedCalendarInv, UNCHANGED <<status, closer, overlap>>, desk' \in [Closers -> Desks], AskedFor',
         \A c \in Closers : desk[c].at = "serving" => desk'[c].at = "serving"
  PROVE SignedCalendarInv'
BY DEF SignedCalendarInv, Types, ServedAtDesk, Alone, FoundIsSo, NoHoleInCalendar,
       EarlierClosed, LaterOpen

\* Every step of the pages, of the service and of the documents keeps it.
LEMMA StepCalendar == SignedCalendarInv /\ [SigningNext]_allVars => SignedCalendarInv'
<1> SUFFICES ASSUME SignedCalendarInv, [SigningNext]_allVars PROVE SignedCalendarInv'
  OBVIOUS
<1> USE DEF SignedCalendarInv, Types
<1>0. Away \in Desks /\ Away.at = "away"
  BY PeriodAssumption DEF Away, Desks, DeskStages, Found
<1>1. ASSUME NEW c \in Closers, OpenPage(c) PROVE SignedCalendarInv'
  <2>1. PICK p \in Periods, op \in Ops :
          desk' = [desk EXCEPT ![c] = [Away EXCEPT !.at = "page", !.op = op, !.period = p,
                                         !.shown = Warnings(p)]]
    BY <1>1 DEF OpenPage, Ops
  <2>2. [Away EXCEPT !.at = "page", !.op = op, !.period = p, !.shown = Warnings(p)] \in Desks
    BY WarningsAreFound, PeriodAssumption DEF Away, Desks, DeskStages, Found, Ops, Periods
  <2>3. desk[c].at = "away"
    BY <1>1 DEF OpenPage
  <2>4. p \in Periods /\ desk'[c].op = op /\ desk'[c].period = p
    BY <2>1, PeriodAssumption DEF Away
  <2>5. desk' \in [Closers -> Desks] /\ AskedFor'
    BY <2>1, <2>2, <2>4 DEF AskedFor
  <2> QED
    BY <1>1, <2>1, <2>3, <2>5, DeskStep DEF OpenPage
<1>2. ASSUME NEW c \in Closers, PressButton(c) PROVE SignedCalendarInv'
  <2>1. PICK ticked \in BOOLEAN :
          desk' = [desk EXCEPT ![c] =
                     IF desk[c].op = "close" /\ ~PeriodCloseForm(Warnings(desk[c].period), ticked)
                     THEN Away
                     ELSE [@ EXCEPT !.at = "asked", !.ticked = ticked,
                                    !.report = Warnings(desk[c].period)]]
    BY <1>2 DEF PressButton
  <2>2. [desk[c] EXCEPT !.at = "asked", !.ticked = ticked,
                        !.report = Warnings(desk[c].period)] \in Desks
    BY WarningsAreFound DEF Desks, DeskStages
  <2>3. desk[c].at = "page"
    BY <1>2 DEF PressButton
  <2>4. desk' \in [Closers -> Desks] /\ AskedFor'
    BY <1>0, <2>1, <2>2, <2>3 DEF AskedFor, Desks
  <2> QED
    BY <1>2, <2>1, <2>3, <2>4, DeskStep DEF PressButton
<1>3. ASSUME NEW c \in Closers, Enter(c) PROVE SignedCalendarInv'
  <2>1. /\ desk' = [desk EXCEPT ![c].at = "serving"]
        /\ closer[c] = Idle
        /\ closer' = [closer EXCEPT ![c] = [step |-> "locked", op |-> desk[c].op,
                                             period |-> desk[c].period]]
        /\ desk[c].op \in Ops /\ desk[c].period \in Periods
        /\ UNCHANGED status
        /\ ~overlap' => ~overlap /\ \A d \in Closers \ {c} : desk[d].at # "serving"
    BY <1>3 DEF Enter, PressedOnce, LockOwnPeriod, InService, AskedFor
  <2>2. [step |-> "locked", op |-> desk[c].op, period |-> desk[c].period] \in Calls
    BY <2>1 DEF Calls
  <2>3. [desk[c] EXCEPT !.at = "serving"] \in Desks
    BY DEF Desks, DeskStages
  <2>4. Types' /\ AskedFor' /\ ServedAtDesk'
    BY <2>1, <2>2, <2>3 DEF AskedFor, ServedAtDesk, Desks
  <2>5. ASSUME ~overlap' PROVE Alone' /\ FoundIsSo' /\ NoHoleInCalendar'
    <3>1. \A d \in Closers \ {c} : closer[d] = Idle /\ closer'[d] = Idle
      BY <2>1, <2>5 DEF ServedAtDesk
    <3>2. closer'[c].step = "locked"
      BY <2>1
    <3> QED
      BY <2>1, <2>5, <3>1, <3>2, IdleIsNoCall DEF Alone, FoundIsSo, NoHoleInCalendar
  <2> QED
    BY <2>4, <2>5
<1>4. ASSUME NEW c \in Closers, TurnedAway(c) \/ Record(c) \/ Die(c) PROVE SignedCalendarInv'
  <2>1. /\ desk' = [desk EXCEPT ![c] = Away]
        /\ desk[c].at # "serving"
        /\ UNCHANGED <<status, closer, overlap>>
    BY <1>4 DEF TurnedAway, Record, Die
  <2>2. desk' \in [Closers -> Desks] /\ AskedFor'
    BY <1>0, <2>1 DEF AskedFor
  <2> QED
    BY <2>1, <2>2, DeskStep
<1>5. ASSUME NEW c \in Closers, Check(c) PROVE SignedCalendarInv'
  <2>1. /\ desk' = [desk EXCEPT ![c].over = Warnings(desk[c].period)]
        /\ closer[c].step = "locked"
        /\ closer' = [closer EXCEPT ![c].step = "checked"]
        /\ IF closer[c].op = "close" THEN EarlierClosed(closer[c].period)
                                      ELSE LaterOpen(closer[c].period)
        /\ UNCHANGED <<status, overlap>>
    BY <1>5 DEF Check, CheckCalendar
  <2>2. closer[c] \in Calls /\ desk[c].at = "serving"
    BY <2>1, IdleIsNoCall DEF ServedAtDesk
  <2>3. [closer[c] EXCEPT !.step = "checked"] \in Calls
    BY <2>2 DEF Calls
  <2>4. [desk[c] EXCEPT !.over = Warnings(desk[c].period)] \in Desks
    BY WarningsAreFound DEF Desks
  <2>5. Types' /\ AskedFor' /\ ServedAtDesk'
    BY <2>1, <2>2, <2>3, <2>4 DEF AskedFor, ServedAtDesk, Desks
  <2>6. ASSUME ~overlap PROVE Alone' /\ FoundIsSo' /\ NoHoleInCalendar'
    <3>1. \A d \in Closers \ {c} : closer[d] = Idle /\ closer'[d] = Idle
      BY <2>1, <2>2, <2>6, IdleIsNoCall DEF Alone
    <3>2. closer'[c].op = closer[c].op /\ closer'[c].period = closer[c].period
      BY <2>1, <2>2 DEF Calls
    <3>3. Alone'
      BY <3>1 DEF Alone
    <3>4. FoundIsSo'
      BY <2>1, <3>1, <3>2, IdleIsNoCall DEF FoundIsSo, EarlierClosed, LaterOpen
    <3> QED
      BY <2>1, <2>6, <3>3, <3>4 DEF NoHoleInCalendar
  <2> QED
    BY <2>1, <2>5, <2>6
<1>6. ASSUME NEW c \in Closers, Refuse(c) PROVE SignedCalendarInv'
  <2>1. /\ desk' = [desk EXCEPT ![c] = Away]
        /\ closer' = [closer EXCEPT ![c] = Idle]
        /\ UNCHANGED <<status, overlap>>
    BY <1>6 DEF Refuse, ToThePage, RefuseChange
  <2>2. Types' /\ AskedFor' /\ ServedAtDesk'
    BY <1>0, <2>1 DEF AskedFor, ServedAtDesk
  <2>3. ASSUME ~overlap PROVE Alone' /\ FoundIsSo' /\ NoHoleInCalendar'
    BY <2>1, <2>3, IdleIsNoCall DEF Alone, FoundIsSo, NoHoleInCalendar, EarlierClosed, LaterOpen
  <2> QED
    BY <2>1, <2>2, <2>3
<1>7. ASSUME NEW c \in Closers, CommitSigned(c) PROVE SignedCalendarInv'
  <2> DEFINE p == closer[c].period
  <2>1. /\ desk' = [desk EXCEPT ![c].at = "committed"]
        /\ closer[c].step = "checked"
        /\ closer' = [closer EXCEPT ![c] = Idle]
        /\ status' = [status EXCEPT ![p] = IF closer[c].op = "close" THEN "CLOSED" ELSE "OPEN"]
        /\ UNCHANGED overlap
    BY <1>7 DEF CommitSigned, CommitChange
  <2>2. closer[c] \in Calls /\ p \in Periods
    BY <2>1, IdleIsNoCall DEF Calls
  <2>3. [desk[c] EXCEPT !.at = "committed"] \in Desks
    BY DEF Desks, DeskStages
  <2>4. desk[c].at = "serving"
    BY <2>2, IdleIsNoCall DEF ServedAtDesk
  <2>5. Types' /\ AskedFor' /\ ServedAtDesk'
    BY <2>1, <2>3, <2>4 DEF AskedFor, ServedAtDesk, Desks
  <2>6. ASSUME ~overlap PROVE Alone' /\ FoundIsSo' /\ NoHoleInCalendar'
    <3>1. \A d \in Closers : closer'[d] = Idle
      BY <2>1, <2>2, <2>6, IdleIsNoCall DEF Alone
    <3>2. Alone' /\ FoundIsSo'
      BY <3>1, IdleIsNoCall DEF Alone, FoundIsSo
    <3>3. CASE closer[c].op = "close"
      <4>1. \A q \in Periods : q < p => status[q] = "CLOSED"
        BY <2>1, <2>6, <3>3 DEF FoundIsSo, EarlierClosed
      <4>2. \A q \in Periods : status'[q] = IF q = p THEN "CLOSED" ELSE status[q]
        BY <2>1, <3>3
      <4> QED
        BY <2>2, <2>6, <3>2, <4>1, <4>2 DEF NoHoleInCalendar
    <3>4. CASE closer[c].op # "close"
      <4>1. \A q \in Periods : q > p => status[q] = "OPEN"
        BY <2>1, <2>6, <3>4 DEF FoundIsSo, LaterOpen
      <4>2. \A q \in Periods : status'[q] = IF q = p THEN "OPEN" ELSE status[q]
        BY <2>1, <3>4
      <4> QED
        BY <2>2, <2>6, <3>2, <4>1, <4>2, PeriodAssumption DEF NoHoleInCalendar, Periods
    <3> QED
      BY <3>3, <3>4
  <2> QED
    BY <2>1, <2>5, <2>6
<1>8. ASSUME MoveDocument \/ MoveBalance PROVE SignedCalendarInv'
  <2>1. /\ desk' = [c \in Closers |-> IF desk[c].at = "away" THEN desk[c]
                                       ELSE [desk[c] EXCEPT !.stirred = TRUE]]
        /\ UNCHANGED <<status, closer, overlap>>
    BY <1>8 DEF MoveDocument, MoveBalance, Stir
  <2>2. \A c \in Closers : /\ desk'[c] \in Desks
                           /\ desk'[c].at = desk[c].at
                           /\ desk'[c].op = desk[c].op
                           /\ desk'[c].period = desk[c].period
    <3> SUFFICES ASSUME NEW c \in Closers
                 PROVE  /\ desk'[c] \in Desks /\ desk'[c].at = desk[c].at
                        /\ desk'[c].op = desk[c].op /\ desk'[c].period = desk[c].period
      OBVIOUS
    <3>1. desk[c] \in Desks
      OBVIOUS
    <3>2. desk'[c] = IF desk[c].at = "away" THEN desk[c] ELSE [desk[c] EXCEPT !.stirred = TRUE]
      BY <2>1
    <3>3. CASE desk[c].at = "away"
      BY <3>1, <3>2, <3>3
    <3>4. CASE desk[c].at # "away"
      <4>1. desk'[c] = [desk[c] EXCEPT !.stirred = TRUE]
        BY <3>2, <3>4
      <4> QED BY ONLY <3>1, <4>1 DEF Desks
    <3> QED BY <3>3, <3>4
  <2>3. desk' \in [Closers -> Desks] /\ AskedFor'
    BY <2>1, <2>2 DEF AskedFor
  <2> QED
    BY <2>1, <2>2, <2>3, DeskStep
<1>9. CASE UNCHANGED allVars
  BY <1>9, DeskStep DEF allVars, signVars, AskedFor
<1> QED
  BY <1>1, <1>2, <1>3, <1>4, <1>5, <1>6, <1>7, <1>8, <1>9 DEF SigningNext

\* With no two calls of the service at once no closed period sits behind an
\* open one, whoever closes and reopens, in any order.
THEOREM HolesTakeTwo == SigningSpec => []HoleTakesTwo
<1>1. SignedCalendarInv => HoleTakesTwo
  BY DEF SignedCalendarInv, HoleTakesTwo
<1> QED
  BY InitCalendar, StepCalendar, <1>1, PTL DEF SigningSpec

-----------------------------------------------------------------------------
(* Every close is accounted for.  Beside SignedCalendarInv the invariant says    *)
(* what a desk shows is so until something moves, and what is still to be  *)
(* recorded is the status of its period.                                   *)

Events == [action : Ops, kept : Nat]
Signatures == [over : SUBSET Found, shown : SUBSET Found, ticked : BOOLEAN, stirred : BOOLEAN]

OtherTypes ==
  /\ DOMAIN periodLock = Periods
  /\ dated \in [Docs -> 0 .. LastPeriod] /\ differs \in BOOLEAN
  /\ signed \in [Periods -> Signatures]
  /\ trail \in [Periods -> Seq(Events)]
  /\ overlap \in BOOLEAN
  /\ pages \in Nat /\ deaths \in Nat

\* Who is at the service serves what the desk asked for.
ServesWhatIsAsked ==
  \A c \in Closers : desk[c].at = "serving" =>
    closer[c] # Idle /\ closer[c].op = desk[c].op /\ closer[c].period = desk[c].period

\* Every event came from a page that is no longer out.
Out == {c \in Closers : desk[c].at # "away"}
PagesCoverEvents ==
  /\ IsFiniteSet(Out)
  /\ \A p \in Periods : Len(trail[p]) + Cardinality(Out) <= pages

\* While nothing moves, each of the three checklists finds what the page showed.
StillAsShown ==
  \A c \in Closers : desk[c].at # "away" /\ ~desk[c].stirred =>
    /\ desk[c].shown = Warnings(desk[c].period)
    /\ desk[c].at # "page" => desk[c].report = desk[c].shown
    /\ closer[c].step = "checked" => desk[c].over = desk[c].shown

\* Who asks to close over warnings has ticked the box.
Acknowledged ==
  \A c \in Closers : desk[c].at \notin {"away", "page"} /\ desk[c].op = "close" =>
    PeriodCloseForm(desk[c].report, desk[c].ticked)

\* One call at a time: its event tells the status it left, and where none is
\* due the last event does.
OneAtWork == \A c, d \in Closers : InService(c) /\ InService(d) => c = d
Left(op) == IF op = "close" THEN "CLOSED" ELSE "OPEN"
DueTellsStatus ==
  \A c \in Closers : desk[c].at = "committed" => Left(desk[c].op) = status[desk[c].period]
ToldOf(p) == Len(trail[p]) > 0 => Says(trail[p][Len(trail[p])]) = status[p]
DueOn(p) == \E c \in Closers : desk[c].at = "committed" /\ desk[c].period = p
TrailOrDue == \A p \in Periods : DueOn(p) \/ ToldOf(p)
TrailInv ==
  ~overlap => /\ OneAtWork
              /\ DueTellsStatus
              /\ deaths = 0 => TrailOrDue

AccountsInv ==
  /\ SignedCalendarInv
  /\ OtherTypes
  /\ ServesWhatIsAsked
  /\ PagesCoverEvents
  /\ StillAsShown /\ Acknowledged /\ CloseIsInformed
  /\ TrailInv

LEMMA FoundIsFinite == ASSUME NEW S \in SUBSET Found PROVE Cardinality(S) \in Nat
<1>1. IsFiniteSet({"unposted"} \cup {"subledger"})
  BY FS_Singleton, FS_AddElement
<1>2. Found = {"unposted"} \cup {"subledger"}
  BY DEF Found
<1> QED BY <1>1, <1>2, FS_Subset, FS_CardinalityType

LEMMA InitAccounts == SigningInit => AccountsInv
<1> SUFFICES ASSUME SigningInit PROVE AccountsInv
  OBVIOUS
<1>1. SignedCalendarInv
  BY InitCalendar
<1>2. Unsigned \in Signatures /\ <<>> \in Seq(Events)
  BY DEF Unsigned, Signatures
<1>3. OtherTypes
  BY <1>2 DEF SigningInit, PeriodInit, OtherTypes
<1>4. \A c \in Closers : desk[c].at = "away"
  BY DEF SigningInit, Away
<1>5. PagesCoverEvents
  <2>1. Out = {}
    BY <1>4 DEF Out
  <2>2. \A p \in Periods : Len(trail[p]) = 0
    BY DEF SigningInit
  <2> QED BY <2>1, <2>2, FS_EmptySet DEF PagesCoverEvents, SigningInit
<1>6. ServesWhatIsAsked /\ StillAsShown /\ Acknowledged
  BY <1>4 DEF ServesWhatIsAsked, StillAsShown, Acknowledged
<1>7. CloseIsInformed
  BY DEF SigningInit, Unsigned, CloseIsInformed
<1>8. TrailInv
  BY <1>4 DEF SigningInit, TrailInv, OneAtWork, InService, DueTellsStatus, TrailOrDue, ToldOf
<1> QED BY <1>1, <1>3, <1>5, <1>6, <1>7, <1>8 DEF AccountsInv

\* What each step does to the desk of who takes it, and to no other.
Others(c) == \A d \in Closers \ {c} : desk'[d] = desk[d]
Leaves(c) == desk' = [desk EXCEPT ![c] = Away] /\ Others(c) /\ desk'[c].at = "away"

LEMMA LeavesDesk ==
  ASSUME SignedCalendarInv, NEW c \in Closers, desk' = [desk EXCEPT ![c] = Away]
  PROVE  Leaves(c)
BY DEF SignedCalendarInv, Types, Leaves, Others, Away

LEMMA OpensPage ==
  ASSUME SignedCalendarInv, NEW c \in Closers, OpenPage(c)
  PROVE  \E p \in Periods :
           /\ desk[c].at = "away" /\ Others(c)
           /\ desk'[c].at = "page" /\ desk'[c].op \in Ops /\ desk'[c].period = p
           /\ desk'[c].shown = Warnings(p)
           /\ pages' = pages + 1
           /\ UNCHANGED <<status, periodLock, closer, dated, differs, signed, trail, overlap, deaths>>
<1>1. desk \in [Closers -> Desks]
  BY DEF SignedCalendarInv, Types
<1>2. desk[c].at = "away" /\ pages' = pages + 1
  BY DEF OpenPage
<1>3. PICK p \in Periods, op \in Ops :
        desk' = [desk EXCEPT ![c] = [Away EXCEPT !.at = "page", !.op = op, !.period = p,
                                                 !.shown = Warnings(p)]]
  BY <1>1, ZenonT(30) DEF OpenPage, Ops
<1>4. Others(c) /\ desk'[c] = [Away EXCEPT !.at = "page", !.op = op, !.period = p,
                                           !.shown = Warnings(p)]
  BY <1>1, <1>3 DEF Others
<1>5. /\ desk'[c].at = "page" /\ desk'[c].op \in Ops /\ desk'[c].period = p
      /\ desk'[c].shown = Warnings(p)
  BY <1>4 DEF Away
<1>6. UNCHANGED <<status, periodLock, closer, dated, differs, signed, trail, overlap, deaths>>
  BY DEF OpenPage
<1> QED BY <1>2, <1>4, <1>5, <1>6

LEMMA PressesButton ==
  ASSUME SignedCalendarInv, NEW c \in Closers, PressButton(c)
  PROVE  /\ desk[c].at = "page"
         /\ \/ Leaves(c)
            \/ /\ Others(c)
               /\ desk'[c].at = "asked" /\ desk'[c].op = desk[c].op
               /\ desk'[c].period = desk[c].period /\ desk'[c].shown = desk[c].shown
               /\ desk'[c].stirred = desk[c].stirred
               /\ desk'[c].report = Warnings(desk[c].period)
               /\ desk'[c].op = "close" => PeriodCloseForm(desk'[c].report, desk'[c].ticked)
         /\ UNCHANGED <<status, periodLock, closer, dated, differs, signed, trail, overlap,
                        deaths, pages>>
<1>1. desk \in [Closers -> Desks]
  BY DEF SignedCalendarInv, Types
<1> DEFINE report == Warnings(desk[c].period)
           Refused(ticked) == desk[c].op = "close" /\ ~PeriodCloseForm(report, ticked)
<1>2. PICK ticked \in BOOLEAN :
        desk' = [desk EXCEPT ![c] =
                   IF Refused(ticked) THEN Away
                   ELSE [@ EXCEPT !.at = "asked", !.ticked = ticked, !.report = report]]
  BY <1>1, ZenonT(30) DEF PressButton
<1> HIDE DEF report
<1>3. CASE Refused(ticked)
  BY <1>2, <1>3, LeavesDesk DEF PressButton
<1>4. CASE ~Refused(ticked)
  <2>1. Others(c) /\ desk'[c] = [desk[c] EXCEPT !.at = "asked", !.ticked = ticked,
                                                !.report = report]
    BY <1>1, <1>2, <1>4 DEF Others
  <2>2. /\ desk'[c].at = "asked" /\ desk'[c].op = desk[c].op
        /\ desk'[c].period = desk[c].period /\ desk'[c].shown = desk[c].shown
        /\ desk'[c].stirred = desk[c].stirred
        /\ desk'[c].report = report /\ desk'[c].ticked = ticked
    BY <1>1, <2>1 DEF Desks
  <2> QED BY <1>4, <2>1, <2>2 DEF PressButton, report
<1> QED BY <1>3, <1>4 DEF PressButton

LEMMA EntersService ==
  ASSUME SignedCalendarInv, NEW c \in Closers, Enter(c)
  PROVE  /\ desk[c].at = "asked" /\ Others(c)
         /\ \A d \in Closers \ {c} : closer'[d] = closer[d]
         /\ closer'[c] # Idle /\ closer'[c].step = "locked"
         /\ closer'[c].op = desk[c].op /\ closer'[c].period = desk[c].period
         /\ desk'[c].at = "serving" /\ desk'[c].op = desk[c].op
         /\ desk'[c].period = desk[c].period /\ desk'[c].shown = desk[c].shown
         /\ desk'[c].stirred = desk[c].stirred /\ desk'[c].report = desk[c].report
         /\ desk'[c].ticked = desk[c].ticked
         /\ UNCHANGED <<status, dated, differs, signed, trail, deaths, pages>>
<1>1. desk \in [Closers -> Desks] /\ closer \in [Closers -> {Idle} \cup Calls]
  BY DEF SignedCalendarInv, Types
<1>2. /\ desk' = [desk EXCEPT ![c].at = "serving"]
      /\ closer' = [closer EXCEPT ![c] = [step |-> "locked", op |-> desk[c].op,
                                           period |-> desk[c].period]]
  BY DEF Enter, PressedOnce, LockOwnPeriod
<1>3. Others(c) /\ desk'[c] = [desk[c] EXCEPT !.at = "serving"]
  BY <1>1, <1>2 DEF Others
<1>4. /\ desk'[c].at = "serving" /\ desk'[c].op = desk[c].op
      /\ desk'[c].period = desk[c].period /\ desk'[c].shown = desk[c].shown
      /\ desk'[c].stirred = desk[c].stirred /\ desk'[c].report = desk[c].report
      /\ desk'[c].ticked = desk[c].ticked
  BY <1>1, <1>3 DEF Desks
<1>5. /\ \A d \in Closers \ {c} : closer'[d] = closer[d]
      /\ closer'[c] # Idle /\ closer'[c].step = "locked"
      /\ closer'[c].op = desk[c].op /\ closer'[c].period = desk[c].period
  BY <1>1, <1>2 DEF Idle
<1> QED BY <1>2, <1>3, <1>4, <1>5 DEF Enter, LockOwnPeriod

LEMMA ChecksCalendar ==
  ASSUME SignedCalendarInv, NEW c \in Closers, Check(c)
  PROVE  /\ desk[c].at = "serving" /\ Others(c)
         /\ \A d \in Closers \ {c} : closer'[d] = closer[d]
         /\ closer'[c].op = closer[c].op /\ closer'[c].period = closer[c].period
         /\ closer'[c] # Idle
         /\ desk'[c].at = "serving" /\ desk'[c].op = desk[c].op
         /\ desk'[c].period = desk[c].period /\ desk'[c].shown = desk[c].shown
         /\ desk'[c].stirred = desk[c].stirred /\ desk'[c].report = desk[c].report
         /\ desk'[c].ticked = desk[c].ticked
         /\ desk'[c].over = Warnings(desk[c].period)
         /\ UNCHANGED <<status, periodLock, dated, differs, signed, trail, overlap, deaths, pages>>
<1>1. desk \in [Closers -> Desks] /\ closer \in [Closers -> {Idle} \cup Calls]
  BY DEF SignedCalendarInv, Types
<1>2. /\ desk' = [desk EXCEPT ![c].over = Warnings(desk[c].period)]
      /\ closer[c].step = "locked"
      /\ closer' = [closer EXCEPT ![c].step = "checked"]
  BY DEF Check, CheckCalendar
<1>3. closer[c] \in Calls /\ desk[c].at = "serving"
  BY <1>1, <1>2, IdleIsNoCall DEF SignedCalendarInv, ServedAtDesk
<1>4. Others(c) /\ desk'[c] = [desk[c] EXCEPT !.over = Warnings(desk[c].period)]
  BY <1>1, <1>2 DEF Others
<1>5. /\ desk'[c].at = desk[c].at /\ desk'[c].op = desk[c].op
      /\ desk'[c].period = desk[c].period /\ desk'[c].shown = desk[c].shown
      /\ desk'[c].stirred = desk[c].stirred /\ desk'[c].report = desk[c].report
      /\ desk'[c].ticked = desk[c].ticked /\ desk'[c].over = Warnings(desk[c].period)
  BY <1>1, <1>4 DEF Desks
<1>6. /\ \A d \in Closers \ {c} : closer'[d] = closer[d]
      /\ closer'[c].op = closer[c].op /\ closer'[c].period = closer[c].period
      /\ closer'[c] \in Calls
  BY <1>1, <1>2, <1>3 DEF Calls
<1> QED BY <1>3, <1>4, <1>5, <1>6, IdleIsNoCall DEF Check, CheckCalendar

LEMMA RefusesChange ==
  ASSUME SignedCalendarInv, NEW c \in Closers, Refuse(c)
  PROVE  /\ Leaves(c) /\ desk[c].at = "serving"
         /\ \A d \in Closers \ {c} : closer'[d] = closer[d]
         /\ closer'[c] = Idle
         /\ DOMAIN periodLock' = DOMAIN periodLock
         /\ UNCHANGED <<status, dated, differs, signed, trail, overlap, deaths, pages>>
<1>1. closer \in [Closers -> {Idle} \cup Calls]
  BY DEF SignedCalendarInv, Types
<1>2. /\ desk' = [desk EXCEPT ![c] = Away]
      /\ closer[c].step = "locked"
      /\ closer' = [closer EXCEPT ![c] = Idle]
  BY DEF Refuse, ToThePage, RefuseChange
<1>3. desk[c].at = "serving"
  BY <1>1, <1>2, IdleIsNoCall DEF SignedCalendarInv, ServedAtDesk
<1> QED BY <1>1, <1>2, <1>3, LeavesDesk DEF Refuse, ToThePage, RefuseChange

LEMMA CommitsChange ==
  ASSUME SignedCalendarInv, ServesWhatIsAsked, NEW c \in Closers, CommitSigned(c)
  PROVE  /\ desk[c].at = "serving" /\ Others(c)
         /\ closer[c].step = "checked"
         /\ desk[c].op \in Ops /\ desk[c].period \in Periods
         /\ \A d \in Closers \ {c} : closer'[d] = closer[d]
         /\ closer'[c] = Idle
         /\ desk'[c].at = "committed" /\ desk'[c].op = desk[c].op
         /\ desk'[c].period = desk[c].period /\ desk'[c].shown = desk[c].shown
         /\ desk'[c].stirred = desk[c].stirred /\ desk'[c].report = desk[c].report
         /\ desk'[c].ticked = desk[c].ticked
         /\ status' = [status EXCEPT ![desk[c].period] = Left(desk[c].op)]
         /\ DOMAIN periodLock' = DOMAIN periodLock
         /\ UNCHANGED <<dated, differs, trail, overlap, deaths, pages>>
<1>1. desk \in [Closers -> Desks] /\ closer \in [Closers -> {Idle} \cup Calls]
  BY DEF SignedCalendarInv, Types
<1>2. /\ desk' = [desk EXCEPT ![c].at = "committed"]
      /\ closer[c].step = "checked"
      /\ closer' = [closer EXCEPT ![c] = Idle]
      /\ status' = [status EXCEPT ![closer[c].period] =
                      IF closer[c].op = "close" THEN "CLOSED" ELSE "OPEN"]
      /\ DOMAIN periodLock' = DOMAIN periodLock
  BY DEF CommitSigned, CommitChange
<1>3. desk[c].at = "serving"
  BY <1>1, <1>2, IdleIsNoCall DEF SignedCalendarInv, ServedAtDesk
<1>4. closer[c].op = desk[c].op /\ closer[c].period = desk[c].period
  BY <1>3 DEF ServesWhatIsAsked
<1>5. desk[c].op \in Ops /\ desk[c].period \in Periods
  BY <1>3 DEF SignedCalendarInv, AskedFor
<1>6. Others(c) /\ desk'[c] = [desk[c] EXCEPT !.at = "committed"]
  BY <1>1, <1>2 DEF Others
<1>7. /\ desk'[c].at = "committed" /\ desk'[c].op = desk[c].op
      /\ desk'[c].period = desk[c].period /\ desk'[c].shown = desk[c].shown
      /\ desk'[c].stirred = desk[c].stirred /\ desk'[c].report = desk[c].report
      /\ desk'[c].ticked = desk[c].ticked
  BY <1>1, <1>6 DEF Desks
<1>8. /\ \A d \in Closers \ {c} : closer'[d] = closer[d]
      /\ closer'[c] = Idle
  BY <1>1, <1>2
<1>9. status' = [status EXCEPT ![desk[c].period] = Left(desk[c].op)]
  BY <1>2, <1>4 DEF Left
<1> QED BY <1>2, <1>3, <1>5, <1>6, <1>7, <1>8, <1>9 DEF CommitSigned

LEMMA TurnsAway ==
  ASSUME SignedCalendarInv, NEW c \in Closers, TurnedAway(c) \/ Record(c) \/ Die(c)
  PROVE  /\ Leaves(c) /\ desk[c].at \in {"asked", "committed"}
         /\ UNCHANGED <<status, periodLock, closer, dated, differs, signed, overlap, pages>>
<1>1. desk' = [desk EXCEPT ![c] = Away]
  BY DEF TurnedAway, Record, Die
<1> QED BY <1>1, LeavesDesk DEF TurnedAway, Record, Die

LEMMA Stirs ==
  ASSUME SignedCalendarInv, MoveDocument \/ MoveBalance
  PROVE  /\ \A d \in Closers : /\ desk'[d].at = desk[d].at /\ desk'[d].op = desk[d].op
                               /\ desk'[d].period = desk[d].period
                               /\ desk'[d].report = desk[d].report
                               /\ desk'[d].ticked = desk[d].ticked
                               /\ desk[d].at # "away" => desk'[d].stirred
         /\ UNCHANGED <<status, periodLock, closer, signed, trail, overlap, deaths, pages>>
<1>1. desk \in [Closers -> Desks]
  BY DEF SignedCalendarInv, Types
<1>2. desk' = [d \in Closers |-> IF desk[d].at = "away" THEN desk[d]
                                 ELSE [desk[d] EXCEPT !.stirred = TRUE]]
  BY DEF MoveDocument, MoveBalance, Stir
<1>3. ASSUME NEW d \in Closers
      PROVE  /\ desk'[d].at = desk[d].at /\ desk'[d].op = desk[d].op
             /\ desk'[d].period = desk[d].period
             /\ desk'[d].report = desk[d].report /\ desk'[d].ticked = desk[d].ticked
             /\ desk[d].at # "away" => desk'[d].stirred
  BY <1>1, <1>2 DEF Desks
<1> QED BY <1>3 DEF MoveDocument, MoveBalance, Stir

\* The step of who records: one event more on its period.
LEMMA Records ==
  ASSUME AccountsInv, NEW c \in Closers, Record(c)
  PROVE  /\ desk[c].at = "committed" /\ desk[c].period \in Periods
         /\ trail' \in [Periods -> Seq(Events)]
         /\ \A p \in Periods :
              IF p = desk[c].period
              THEN /\ Len(trail'[p]) = Len(trail[p]) + 1
                   /\ Says(trail'[p][Len(trail'[p])]) = Left(desk[c].op)
              ELSE trail'[p] = trail[p]
         /\ deaths' = deaths
<1> DEFINE event == [action |-> desk[c].op, kept |-> Cardinality(desk[c].report)]
<1>1. /\ desk[c].at = "committed"
      /\ trail' = [trail EXCEPT ![desk[c].period] = Append(@, event)]
  BY DEF Record
<1>2. desk[c].op \in Ops /\ desk[c].period \in Periods
  BY <1>1 DEF AccountsInv, SignedCalendarInv, AskedFor
<1>3. event \in Events
  <2>1. desk[c].report \in SUBSET Found
    BY DEF AccountsInv, SignedCalendarInv, Types, Desks
  <2> QED BY <1>2, <2>1, FoundIsFinite DEF Events
<1>4. trail \in [Periods -> Seq(Events)]
  BY DEF AccountsInv, OtherTypes
<1>5. Says(event) = Left(desk[c].op)
  BY DEF Says, Left
<1> HIDE DEF event
<1>6. ASSUME NEW s \in Seq(Events)
      PROVE  /\ Append(s, event) \in Seq(Events)
             /\ Len(Append(s, event)) = Len(s) + 1
             /\ Append(s, event)[Len(Append(s, event))] = event
  BY <1>3
<1>7. ASSUME NEW p \in Periods
      PROVE  trail'[p] = IF p = desk[c].period THEN Append(trail[p], event) ELSE trail[p]
  BY <1>1, <1>4
<1>8. trail' \in [Periods -> Seq(Events)]
  BY <1>1, <1>4, <1>6
<1> QED BY <1>1, <1>2, <1>4, <1>5, <1>6, <1>7, <1>8 DEF Record

LEMMA TypesNext == AccountsInv /\ [SigningNext]_allVars => OtherTypes'
<1> SUFFICES ASSUME AccountsInv, [SigningNext]_allVars PROVE OtherTypes'
  OBVIOUS
<1>0. OtherTypes /\ SignedCalendarInv /\ ServesWhatIsAsked
  BY DEF AccountsInv
<1>1. ASSUME NEW c \in Closers, OpenPage(c) \/ PressButton(c) \/ Check(c) \/ Refuse(c)
      PROVE  OtherTypes'
  BY <1>0, <1>1, OpensPage, PressesButton, ChecksCalendar, RefusesChange DEF OtherTypes
<1>2. ASSUME NEW c \in Closers, Enter(c)
      PROVE  OtherTypes'
  <2>1. DOMAIN periodLock' = DOMAIN periodLock /\ overlap' \in BOOLEAN
    BY <1>2 DEF Enter, LockOwnPeriod
  <2> QED BY <1>0, <1>2, <2>1, EntersService DEF OtherTypes
<1>3. ASSUME NEW c \in Closers, TurnedAway(c) \/ Die(c)
      PROVE  OtherTypes'
  BY <1>0, <1>3 DEF OtherTypes, TurnedAway, Die
<1>4. ASSUME NEW c \in Closers, Record(c)
      PROVE  OtherTypes'
  BY <1>0, <1>4, Records, TurnsAway DEF OtherTypes
<1>5. ASSUME NEW c \in Closers, CommitSigned(c)
      PROVE  OtherTypes'
  <2> DEFINE signature == [over |-> desk[c].over, shown |-> desk[c].shown,
                           ticked |-> desk[c].ticked, stirred |-> desk[c].stirred]
  <2>1. signature \in Signatures
    BY <1>0 DEF SignedCalendarInv, Types, Desks, Signatures
  <2>2. signed' \in [Periods -> Signatures]
    <3>1. signed' = signed \/ signed' = [signed EXCEPT ![desk[c].period] = signature]
      BY <1>5 DEF CommitSigned
    <3> HIDE DEF signature
    <3> QED BY <1>0, <2>1, <3>1 DEF OtherTypes
  <2> QED BY <1>0, <1>5, <2>2, CommitsChange DEF OtherTypes
<1>6. ASSUME MoveDocument \/ MoveBalance
      PROVE  OtherTypes'
  <2>1. dated' \in [Docs -> 0 .. LastPeriod] /\ differs' \in BOOLEAN
    BY <1>0, <1>6 DEF MoveDocument, MoveBalance, OtherTypes
  <2> QED BY <1>0, <1>6, <2>1, Stirs DEF OtherTypes
<1>7. CASE UNCHANGED allVars
  BY <1>0, <1>7 DEF OtherTypes, allVars, signVars
<1> QED BY <1>1, <1>2, <1>3, <1>4, <1>5, <1>6, <1>7 DEF SigningNext

LEMMA ServesNext == AccountsInv /\ [SigningNext]_allVars => ServesWhatIsAsked'
<1> SUFFICES ASSUME AccountsInv, [SigningNext]_allVars, NEW d \in Closers,
                    desk'[d].at = "serving"
             PROVE  closer'[d] # Idle /\ closer'[d].op = desk'[d].op
                      /\ closer'[d].period = desk'[d].period
  BY DEF ServesWhatIsAsked
<1>0. SignedCalendarInv /\ ServesWhatIsAsked
  BY DEF AccountsInv
<1>1. ASSUME NEW c \in Closers, OpenPage(c) \/ PressButton(c)
      PROVE  desk'[d] = desk[d] /\ closer' = closer
  <2>1. Others(c) /\ desk'[c].at # "serving" /\ closer' = closer
    <3>1. CASE OpenPage(c)
      BY <1>0, <3>1, OpensPage
    <3>2. CASE PressButton(c)
      BY <1>0, <3>2, PressesButton DEF Leaves
    <3> QED BY <1>1, <3>1, <3>2
  <2> QED BY <2>1 DEF Others
<1>2. ASSUME NEW c \in Closers, Enter(c), d = c
      PROVE  closer'[d] # Idle /\ closer'[d].op = desk'[d].op
               /\ closer'[d].period = desk'[d].period
  BY <1>0, <1>2, EntersService
<1>3. ASSUME NEW c \in Closers, Enter(c), d # c
      PROVE  desk'[d] = desk[d] /\ closer'[d] = closer[d]
  BY <1>0, <1>3, EntersService DEF Others
<1>4. ASSUME NEW c \in Closers, TurnedAway(c) \/ Record(c) \/ Die(c)
      PROVE  desk'[d] = desk[d] /\ closer'[d] = closer[d]
  BY <1>0, <1>4, TurnsAway DEF Others, Leaves
<1>5. ASSUME NEW c \in Closers, Check(c), d = c
      PROVE  closer'[d] # Idle /\ closer'[d].op = desk'[d].op
               /\ closer'[d].period = desk'[d].period
  BY <1>0, <1>5, ChecksCalendar DEF ServesWhatIsAsked
<1>6. ASSUME NEW c \in Closers, Check(c), d # c
      PROVE  desk'[d] = desk[d] /\ closer'[d] = closer[d]
  BY <1>0, <1>6, ChecksCalendar DEF Others
<1>7. ASSUME NEW c \in Closers, Refuse(c) \/ CommitSigned(c)
      PROVE  desk'[d] = desk[d] /\ closer'[d] = closer[d]
  BY <1>0, <1>7, RefusesChange, CommitsChange DEF Others, Leaves
<1>8. ASSUME MoveDocument \/ MoveBalance
      PROVE  /\ desk'[d].at = desk[d].at /\ desk'[d].op = desk[d].op
             /\ desk'[d].period = desk[d].period /\ closer' = closer
  BY <1>0, <1>8, Stirs
<1>9. CASE UNCHANGED allVars
  BY <1>0, <1>9 DEF ServesWhatIsAsked, allVars, signVars
<1>10. ASSUME /\ desk'[d].at = desk[d].at /\ desk'[d].op = desk[d].op
              /\ desk'[d].period = desk[d].period /\ closer'[d] = closer[d]
       PROVE  closer'[d] # Idle /\ closer'[d].op = desk'[d].op
                /\ closer'[d].period = desk'[d].period
  BY <1>0, <1>10 DEF ServesWhatIsAsked
<1> QED BY <1>1, <1>2, <1>3, <1>4, <1>5, <1>6, <1>7, <1>8, <1>9, <1>10 DEF SigningNext

LEMMA WarningsStay ==
  ASSUME UNCHANGED <<dated, differs>>
  PROVE  \A p : Warnings(p)' = Warnings(p)
BY DEF Warnings, UnpostedSource

\* Only in the service has a call looked at the calendar.
LEMMA CheckedIsServing ==
  SignedCalendarInv => \A e \in Closers : closer[e].step = "checked" => desk[e].at = "serving"
BY IdleIsNoCall DEF SignedCalendarInv, ServedAtDesk

LEMMA ShownNext == AccountsInv /\ [SigningNext]_allVars => StillAsShown'
<1> SUFFICES ASSUME AccountsInv, [SigningNext]_allVars, NEW d \in Closers,
                    desk'[d].at # "away", ~desk'[d].stirred
             PROVE  /\ desk'[d].shown = Warnings(desk[d].period)'
                    /\ desk'[d].at # "page" => desk'[d].report = desk'[d].shown
                    /\ closer'[d].step = "checked" => desk'[d].over = desk'[d].shown
  BY DEF StillAsShown
<1> DEFINE Shown == /\ desk'[d].shown = Warnings(desk[d].period)'
                    /\ desk'[d].at # "page" => desk'[d].report = desk'[d].shown
                    /\ closer'[d].step = "checked" => desk'[d].over = desk'[d].shown
<1>0. SignedCalendarInv /\ ServesWhatIsAsked /\ StillAsShown /\ SignedCalendarInv'
  BY StepCalendar DEF AccountsInv
<1>1. ASSUME UNCHANGED <<dated, differs>>, desk'[d] = desk[d], closer'[d] = closer[d]
      PROVE  Shown
  BY <1>0, <1>1, WarningsStay DEF StillAsShown
<1>2. desk'[d].at # "serving" => closer'[d].step # "checked"
  <2>1. (SignedCalendarInv => \A e \in Closers : closer[e].step = "checked" => desk[e].at = "serving")'
    BY CheckedIsServing, PTL
  <2> QED BY <1>0, <2>1
<1>3. ASSUME NEW c \in Closers, OpenPage(c)
      PROVE  Shown
  <2>1. CASE d = c
    BY <1>0, <1>2, <1>3, <2>1, OpensPage, WarningsStay
  <2>2. CASE d # c
    BY <1>0, <1>1, <1>3, <2>2, OpensPage DEF Others
  <2> QED BY <2>1, <2>2
<1>4. ASSUME NEW c \in Closers, PressButton(c)
      PROVE  Shown
  <2>1. CASE d = c
    BY <1>0, <1>2, <1>4, <2>1, PressesButton, WarningsStay DEF Leaves, StillAsShown
  <2>2. CASE d # c
    BY <1>0, <1>1, <1>4, <2>2, PressesButton DEF Others, Leaves
  <2> QED BY <2>1, <2>2
<1>5. ASSUME NEW c \in Closers, Enter(c)
      PROVE  Shown
  <2>1. CASE d = c
    BY <1>0, <1>5, <2>1, EntersService, WarningsStay DEF StillAsShown
  <2>2. CASE d # c
    BY <1>0, <1>1, <1>5, <2>2, EntersService DEF Others
  <2> QED BY <2>1, <2>2
<1>6. ASSUME NEW c \in Closers, Check(c)
      PROVE  Shown
  <2>1. CASE d = c
    BY <1>0, <1>6, <2>1, ChecksCalendar, WarningsStay DEF StillAsShown
  <2>2. CASE d # c
    BY <1>0, <1>1, <1>6, <2>2, ChecksCalendar DEF Others
  <2> QED BY <2>1, <2>2
<1>7. ASSUME NEW c \in Closers, CommitSigned(c)
      PROVE  Shown
  <2>1. CASE d = c
    <3>1. /\ desk[d].at = "serving" /\ desk'[d].at = "committed"
          /\ desk'[d].period = desk[d].period /\ desk'[d].shown = desk[d].shown
          /\ desk'[d].stirred = desk[d].stirred /\ desk'[d].report = desk[d].report
          /\ UNCHANGED <<dated, differs>>
      BY <1>0, <1>7, <2>1, CommitsChange
    <3> QED BY <1>0, <1>2, <3>1, WarningsStay DEF StillAsShown
  <2>2. CASE d # c
    <3>1. UNCHANGED <<dated, differs>> /\ desk'[d] = desk[d] /\ closer'[d] = closer[d]
      BY <1>0, <1>7, <2>2, CommitsChange DEF Others
    <3> QED BY <1>1, <3>1
  <2> QED BY <2>1, <2>2
<1>8. ASSUME NEW c \in Closers, Refuse(c) \/ TurnedAway(c) \/ Record(c) \/ Die(c)
      PROVE  Shown
  <2>1. Leaves(c) /\ (d # c => closer'[d] = closer[d]) /\ UNCHANGED <<dated, differs>>
    BY <1>0, <1>8, RefusesChange, TurnsAway
  <2>2. d # c
    BY <2>1 DEF Leaves
  <2> QED BY <1>1, <2>1, <2>2 DEF Leaves, Others
<1>9. ASSUME MoveDocument \/ MoveBalance
      PROVE  FALSE
  BY <1>0, <1>9, Stirs
<1>10. ASSUME UNCHANGED allVars
       PROVE  Shown
  BY <1>1, <1>10 DEF allVars, signVars
<1> HIDE DEF Shown
<1>11. Shown
  BY <1>3, <1>4, <1>5, <1>6, <1>7, <1>8, <1>9, <1>10 DEF SigningNext
<1> QED BY <1>11 DEF Shown

LEMMA AcknowledgedNext == AccountsInv /\ [SigningNext]_allVars => Acknowledged'
<1> SUFFICES ASSUME AccountsInv, [SigningNext]_allVars, NEW d \in Closers,
                    desk'[d].at \notin {"away", "page"}, desk'[d].op = "close"
             PROVE  PeriodCloseForm(desk'[d].report, desk'[d].ticked)
  BY DEF Acknowledged, PeriodCloseForm
<1>0. SignedCalendarInv /\ ServesWhatIsAsked /\ Acknowledged
  BY DEF AccountsInv
<1>1. ASSUME /\ desk[d].at \notin {"away", "page"} /\ desk'[d].op = desk[d].op
             /\ desk'[d].report = desk[d].report /\ desk'[d].ticked = desk[d].ticked
      PROVE  PeriodCloseForm(desk'[d].report, desk'[d].ticked)
  BY <1>0, <1>1 DEF Acknowledged
<1>2. ASSUME NEW c \in Closers, OpenPage(c)
      PROVE  PeriodCloseForm(desk'[d].report, desk'[d].ticked)
  BY <1>0, <1>1, <1>2, OpensPage DEF Others
<1>3. ASSUME NEW c \in Closers, PressButton(c)
      PROVE  PeriodCloseForm(desk'[d].report, desk'[d].ticked)
  BY <1>0, <1>1, <1>3, PressesButton DEF Others, Leaves
<1>4. ASSUME NEW c \in Closers, Enter(c)
      PROVE  PeriodCloseForm(desk'[d].report, desk'[d].ticked)
  BY <1>0, <1>1, <1>4, EntersService DEF Others
<1>5. ASSUME NEW c \in Closers, Check(c)
      PROVE  PeriodCloseForm(desk'[d].report, desk'[d].ticked)
  BY <1>0, <1>1, <1>5, ChecksCalendar DEF Others
<1>6. ASSUME NEW c \in Closers, CommitSigned(c)
      PROVE  PeriodCloseForm(desk'[d].report, desk'[d].ticked)
  <2>1. d # c => desk'[d] = desk[d]
    BY <1>0, <1>6, CommitsChange DEF Others
  <2>2. d = c => /\ desk[d].at = "serving" /\ desk'[d].op = desk[d].op
                 /\ desk'[d].report = desk[d].report /\ desk'[d].ticked = desk[d].ticked
    BY <1>0, <1>6, CommitsChange
  <2> QED BY <1>1, <2>1, <2>2
<1>7. ASSUME NEW c \in Closers, Refuse(c) \/ TurnedAway(c) \/ Record(c) \/ Die(c)
      PROVE  PeriodCloseForm(desk'[d].report, desk'[d].ticked)
  <2>1. Leaves(c)
    BY <1>0, <1>7, RefusesChange, TurnsAway
  <2> QED BY <1>1, <2>1 DEF Leaves, Others
<1>8. ASSUME MoveDocument \/ MoveBalance
      PROVE  PeriodCloseForm(desk'[d].report, desk'[d].ticked)
  BY <1>0, <1>1, <1>8, Stirs
<1>9. ASSUME UNCHANGED allVars
      PROVE  PeriodCloseForm(desk'[d].report, desk'[d].ticked)
  BY <1>1, <1>9 DEF allVars, signVars
<1> QED BY <1>2, <1>3, <1>4, <1>5, <1>6, <1>7, <1>8, <1>9 DEF SigningNext

LEMMA InformedNext == AccountsInv /\ [SigningNext]_allVars => CloseIsInformed'
<1> SUFFICES ASSUME AccountsInv, [SigningNext]_allVars PROVE CloseIsInformed'
  OBVIOUS
<1>1. ASSUME NEW c \in Closers, CommitSigned(c), desk[c].op = "close"
      PROVE  CloseIsInformed'
  <2> DEFINE signature == [over |-> desk[c].over, shown |-> desk[c].shown,
                           ticked |-> desk[c].ticked, stirred |-> desk[c].stirred]
  <2>1. signed' = [signed EXCEPT ![desk[c].period] = signature]
    BY <1>1 DEF CommitSigned
  <2>2. desk[c].at = "serving" /\ closer[c].step = "checked"
    BY <1>1, CommitsChange DEF AccountsInv
  <2>3. ~desk[c].stirred =>
          desk[c].report = desk[c].shown /\ desk[c].over = desk[c].shown
    BY <2>2 DEF AccountsInv, StillAsShown
  <2>4. desk[c].report # {} => desk[c].ticked
    BY <1>1, <2>2 DEF AccountsInv, Acknowledged, PeriodCloseForm
  <2>5. ~signature.stirred =>
          signature.over = signature.shown /\ (signature.over # {} => signature.ticked)
    BY <2>3, <2>4
  <2>6. signed \in [Periods -> Signatures]
    BY DEF AccountsInv, OtherTypes
  <2> HIDE DEF signature
  <2> QED BY <2>1, <2>5, <2>6 DEF AccountsInv, CloseIsInformed
<1>2. ASSUME NEW c \in Closers, CommitSigned(c), desk[c].op # "close"
      PROVE  signed' = signed
  BY <1>2 DEF CommitSigned
<1>3. ASSUME NEW c \in Closers,
             \/ OpenPage(c) \/ PressButton(c) \/ Enter(c) \/ Check(c) \/ Refuse(c)
             \/ TurnedAway(c) \/ Record(c) \/ Die(c)
      PROVE  signed' = signed
  <2>1. CASE OpenPage(c) \/ PressButton(c)
    BY <2>1, OpensPage, PressesButton DEF AccountsInv
  <2>2. CASE ~(OpenPage(c) \/ PressButton(c))
    BY <1>3, <2>2 DEF Enter, Check, Refuse, TurnedAway, Record, Die
  <2> QED BY <2>1, <2>2
<1>4. ASSUME MoveDocument \/ MoveBalance \/ UNCHANGED allVars
      PROVE  signed' = signed
  BY <1>4 DEF MoveDocument, MoveBalance, Stir, allVars, signVars
<1>5. CASE signed' = signed
  BY <1>5 DEF AccountsInv, CloseIsInformed
<1> QED BY <1>1, <1>2, <1>3, <1>4, <1>5 DEF SigningNext

\* A page opened is one page more that is out; one event more is one less.
LEMMA PagesNext == AccountsInv /\ [SigningNext]_allVars => PagesCoverEvents'
<1> SUFFICES ASSUME AccountsInv, [SigningNext]_allVars PROVE PagesCoverEvents'
  OBVIOUS
<1>0. SignedCalendarInv /\ OtherTypes /\ ServesWhatIsAsked /\ PagesCoverEvents
  BY DEF AccountsInv
<1>1. /\ IsFiniteSet(Out) /\ Cardinality(Out) \in Nat /\ pages \in Nat
      /\ \A p \in Periods : Len(trail[p]) \in Nat
  BY <1>0, FS_CardinalityType DEF PagesCoverEvents, OtherTypes
<1>2. CASE Out' = Out /\ UNCHANGED <<trail, pages>>
  BY <1>0, <1>2 DEF PagesCoverEvents
<1>3. ASSUME NEW c \in Closers, OpenPage(c)
      PROVE  PagesCoverEvents'
  <2>1. c \notin Out /\ Out' = Out \cup {c} /\ pages' = pages + 1 /\ trail' = trail
    BY <1>0, <1>3, OpensPage DEF Out, Others
  <2>2. IsFiniteSet(Out') /\ Cardinality(Out') = Cardinality(Out) + 1
    BY <1>1, <2>1, FS_AddElement
  <2>3. ASSUME NEW p \in Periods
        PROVE  Len(trail'[p]) + Cardinality(Out') <= pages'
    <3>1. Len(trail[p]) + Cardinality(Out) <= pages /\ Len(trail[p]) \in Nat
      BY <1>0, <1>1 DEF PagesCoverEvents
    <3> QED BY <1>1, <2>1, <2>2, <3>1
  <2> QED BY <2>2, <2>3 DEF PagesCoverEvents
<1>4. ASSUME NEW c \in Closers, Leaves(c), desk[c].at # "away"
      PROVE  IsFiniteSet(Out') /\ Cardinality(Out') = Cardinality(Out) - 1
  <2>1. c \in Out /\ Out' = Out \ {c}
    BY <1>4 DEF Out, Leaves, Others
  <2> QED BY <1>1, <2>1, FS_RemoveElement
<1>5. ASSUME NEW c \in Closers, PressButton(c)
      PROVE  PagesCoverEvents'
  <2>1. UNCHANGED <<trail, pages>> /\ desk[c].at # "away"
    BY <1>0, <1>5, PressesButton
  <2>2. Leaves(c) \/ (Others(c) /\ desk'[c].at # "away")
    BY <1>0, <1>5, PressesButton
  <2>3. CASE Leaves(c)
    BY <1>0, <1>1, <1>4, <2>1, <2>3 DEF PagesCoverEvents
  <2>4. CASE Others(c) /\ desk'[c].at # "away"
    BY <1>2, <2>1, <2>4 DEF Out, Others
  <2> QED BY <2>2, <2>3, <2>4
<1>6. ASSUME NEW c \in Closers, Refuse(c) \/ TurnedAway(c) \/ Die(c)
      PROVE  PagesCoverEvents'
  <2>1. Leaves(c) /\ desk[c].at # "away"
    BY <1>0, <1>6, RefusesChange, TurnsAway
  <2>2. UNCHANGED <<trail, pages>>
    BY <1>6 DEF Refuse, TurnedAway, Die
  <2> QED BY <1>0, <1>1, <1>4, <2>1, <2>2 DEF PagesCoverEvents
<1>7. ASSUME NEW c \in Closers, Record(c)
      PROVE  PagesCoverEvents'
  <2>1. Leaves(c) /\ desk[c].at # "away" /\ pages' = pages
    BY <1>0, <1>7, TurnsAway
  <2>2. \A p \in Periods : Len(trail'[p]) <= Len(trail[p]) + 1
    BY <1>1, <1>7, Records
  <2>3. \A p \in Periods : Len(trail'[p]) \in Nat
    BY <1>7, Records
  <2>4. IsFiniteSet(Out') /\ Cardinality(Out') = Cardinality(Out) - 1
    BY <1>4, <2>1
  <2>5. ASSUME NEW p \in Periods
        PROVE  Len(trail'[p]) + Cardinality(Out') <= pages'
    <3>1. Len(trail[p]) + Cardinality(Out) <= pages /\ Len(trail[p]) \in Nat
      BY <1>0, <1>1 DEF PagesCoverEvents
    <3>2. Len(trail'[p]) <= Len(trail[p]) + 1 /\ Len(trail'[p]) \in Nat
      BY <2>2, <2>3
    <3>3. pages' = pages
      BY <2>1
    <3> DEFINE n == Len(trail[p])  m == Len(trail'[p])
               k == Cardinality(Out)  j == Cardinality(Out')
    <3>4. n \in Nat /\ m \in Nat /\ k \in Nat /\ pages \in Nat
          /\ n + k <= pages /\ m <= n + 1 /\ j = k - 1
      BY <1>1, <2>4, <3>1, <3>2
    <3> HIDE DEF n, m, k, j
    <3>5. m + j <= pages
      BY <3>4
    <3> QED BY <3>3, <3>5 DEF m, j
  <2> QED BY <2>4, <2>5 DEF PagesCoverEvents
<1>8. ASSUME NEW c \in Closers, Enter(c) \/ Check(c) \/ CommitSigned(c)
      PROVE  PagesCoverEvents'
  <2>1. Others(c) /\ desk[c].at # "away" /\ desk'[c].at # "away"
    BY <1>0, <1>8, EntersService, ChecksCalendar, CommitsChange
  <2>2. UNCHANGED <<trail, pages>>
    BY <1>8 DEF Enter, Check, CommitSigned
  <2> QED BY <1>2, <2>1, <2>2 DEF Out, Others
<1>9. ASSUME MoveDocument \/ MoveBalance
      PROVE  PagesCoverEvents'
  BY <1>0, <1>2, <1>9, Stirs DEF Out
<1>10. ASSUME UNCHANGED allVars
       PROVE  PagesCoverEvents'
  BY <1>2, <1>10 DEF Out, allVars, signVars
<1> QED BY <1>3, <1>5, <1>6, <1>7, <1>8, <1>9, <1>10 DEF SigningNext

\* With one call at a time nothing is told wrong: who is between the service
\* and the event left the status, and everybody else's period is on record.
LEMMA TrailNext == AccountsInv /\ [SigningNext]_allVars => TrailInv'
<1> SUFFICES ASSUME AccountsInv, [SigningNext]_allVars PROVE TrailInv'
  OBVIOUS
<1>0. SignedCalendarInv /\ OtherTypes /\ ServesWhatIsAsked /\ TrailInv
  BY DEF AccountsInv
\* Whoever else is served stays where it was.
<1>1. ASSUME NEW c \in Closers, Others(c), ~InService(c), ~InService(c)',
             UNCHANGED <<status, trail, overlap, deaths>>
      PROVE  TrailInv'
  <2>1. \A d \in Closers :
          /\ InService(d)' <=> InService(d)
          /\ desk'[d].at = "committed" <=> desk[d].at = "committed"
          /\ desk[d].at = "committed" =>
               desk'[d].op = desk[d].op /\ desk'[d].period = desk[d].period
    BY <1>1 DEF Others, InService
  <2>2. \A p \in Periods : (DueOn(p) => DueOn(p)') /\ (ToldOf(p) => ToldOf(p)')
    BY <1>1, <2>1 DEF DueOn, ToldOf
  <2> QED BY <1>0, <1>1, <2>1, <2>2 DEF TrailInv, OneAtWork, DueTellsStatus, TrailOrDue
<1>2. ASSUME NEW c \in Closers, OpenPage(c) \/ PressButton(c)
      PROVE  TrailInv'
  <2>1. CASE OpenPage(c)
    BY <1>0, <1>1, <2>1, OpensPage DEF InService
  <2>2. CASE PressButton(c)
    BY <1>0, <1>1, <2>2, PressesButton DEF InService, Leaves
  <2> QED BY <1>2, <2>1, <2>2
<1>3. ASSUME NEW c \in Closers, TurnedAway(c)
      PROVE  TrailInv'
  <2>1. Others(c) /\ ~InService(c) /\ ~InService(c)'
    BY <1>0, <1>3, TurnsAway DEF Leaves, InService, TurnedAway
  <2> QED BY <1>1, <1>3, <2>1 DEF TurnedAway
<1>4. ASSUME NEW c \in Closers, Enter(c)
      PROVE  TrailInv'
  <2>1. /\ desk[c].at = "asked" /\ Others(c) /\ desk'[c].at = "serving"
        /\ UNCHANGED <<status, trail, deaths>>
    BY <1>0, <1>4, EntersService
  <2>2. ~overlap' => ~overlap /\ \A d \in Closers \ {c} : ~InService(d)
    BY <1>4 DEF Enter
  <2>3. \A d \in Closers : desk'[d].at = "committed" <=> desk[d].at = "committed" /\ d # c
    BY <2>1 DEF Others
  <2>4. ASSUME ~overlap'
        PROVE  OneAtWork' /\ DueTellsStatus' /\ (deaths' = 0 => TrailOrDue')
    <3>1. \A d \in Closers \ {c} : ~InService(d) /\ ~InService(d)'
      BY <2>1, <2>2, <2>4 DEF Others, InService
    <3>2. \A d \in Closers : desk[d].at # "committed" /\ desk'[d].at # "committed"
      BY <2>1, <3>1 DEF InService
    <3>3. \A p \in Periods : ~DueOn(p) /\ (ToldOf(p) => ToldOf(p)')
      BY <2>1, <3>2 DEF DueOn, ToldOf
    <3> QED BY <1>0, <2>1, <2>2, <2>4, <3>1, <3>2, <3>3
            DEF TrailInv, OneAtWork, DueTellsStatus, TrailOrDue
  <2> QED BY <2>4 DEF TrailInv
<1>5. ASSUME NEW c \in Closers, Check(c)
      PROVE  TrailInv'
  <2>1. /\ desk[c].at = "serving" /\ desk'[c].at = "serving" /\ Others(c)
        /\ UNCHANGED <<status, trail, overlap, deaths>>
    BY <1>0, <1>5, ChecksCalendar
  <2>2. \A d \in Closers :
          /\ InService(d)' <=> InService(d)
          /\ desk'[d].at = "committed" <=> desk[d].at = "committed"
          /\ desk[d].at = "committed" =>
               desk'[d].op = desk[d].op /\ desk'[d].period = desk[d].period
    BY <2>1 DEF Others, InService
  <2>3. \A p \in Periods : (DueOn(p) => DueOn(p)') /\ (ToldOf(p) => ToldOf(p)')
    BY <2>1, <2>2 DEF DueOn, ToldOf
  <2> QED BY <1>0, <2>1, <2>2, <2>3 DEF TrailInv, OneAtWork, DueTellsStatus, TrailOrDue
<1>6. ASSUME NEW c \in Closers, Refuse(c)
      PROVE  TrailInv'
  <2>1. /\ Leaves(c) /\ desk[c].at = "serving"
        /\ UNCHANGED <<status, trail, overlap, deaths>>
    BY <1>0, <1>6, RefusesChange
  <2>2. \A d \in Closers :
          /\ InService(d)' => InService(d)
          /\ desk'[d].at = "committed" <=> desk[d].at = "committed"
          /\ desk[d].at = "committed" =>
               desk'[d].op = desk[d].op /\ desk'[d].period = desk[d].period
    BY <2>1 DEF Leaves, Others, InService
  <2>3. \A p \in Periods : (DueOn(p) => DueOn(p)') /\ (ToldOf(p) => ToldOf(p)')
    BY <2>1, <2>2 DEF DueOn, ToldOf
  <2> QED BY <1>0, <2>1, <2>2, <2>3 DEF TrailInv, OneAtWork, DueTellsStatus, TrailOrDue
<1>7. ASSUME NEW c \in Closers, CommitSigned(c)
      PROVE  TrailInv'
  <2>1. /\ desk[c].at = "serving" /\ Others(c)
        /\ desk[c].op \in Ops /\ desk[c].period \in Periods
        /\ desk'[c].at = "committed" /\ desk'[c].op = desk[c].op
        /\ desk'[c].period = desk[c].period
        /\ UNCHANGED <<trail, overlap, deaths>>
    BY <1>0, <1>7, CommitsChange
  <2>2. status' = [status EXCEPT ![desk[c].period] = Left(desk[c].op)]
    BY <1>0, <1>7, CommitsChange
  <2>3. status \in [Periods -> {"OPEN", "CLOSED"}]
    BY <1>0 DEF SignedCalendarInv, Types
  <2>4. \A p \in Periods : status'[p] = IF p = desk[c].period THEN Left(desk[c].op) ELSE status[p]
    BY <2>1, <2>2, <2>3
  <2>5. ASSUME ~overlap'
        PROVE  OneAtWork' /\ DueTellsStatus' /\ (deaths' = 0 => TrailOrDue')
    <3>1. \A d \in Closers \ {c} : ~InService(d) /\ ~InService(d)'
      BY <1>0, <2>1, <2>5 DEF TrailInv, OneAtWork, Others, InService
    <3>2. \A d \in Closers : desk[d].at # "committed" /\ (d # c => desk'[d].at # "committed")
      BY <2>1, <3>1 DEF InService
    <3>3. DueTellsStatus'
      BY <2>1, <2>4, <3>2 DEF DueTellsStatus
    <3>4. ASSUME NEW p \in Periods, deaths' = 0
          PROVE  DueOn(p)' \/ ToldOf(p)'
      <4>1. CASE p = desk[c].period
        BY <2>1, <4>1 DEF DueOn
      <4>2. CASE p # desk[c].period
        <5>1. ToldOf(p)
          BY <1>0, <2>1, <2>5, <3>2, <3>4 DEF TrailInv, TrailOrDue, DueOn
        <5> QED BY <2>1, <2>4, <4>2, <5>1 DEF ToldOf
      <4> QED BY <4>1, <4>2
    <3> QED BY <3>1, <3>3, <3>4 DEF OneAtWork, TrailOrDue
  <2> QED BY <2>5 DEF TrailInv
<1>8. ASSUME NEW c \in Closers, Record(c) \/ Die(c)
      PROVE  TrailInv'
  <2>1. /\ Leaves(c) /\ desk[c].at = "committed"
        /\ UNCHANGED <<status, overlap>>
    BY <1>0, <1>8, TurnsAway DEF Record, Die
  <2>2. ASSUME ~overlap'
        PROVE  OneAtWork' /\ DueTellsStatus' /\ (deaths' = 0 => TrailOrDue')
    <3>1. \A d \in Closers : ~InService(d)'
      BY <1>0, <2>1, <2>2 DEF TrailInv, OneAtWork, Leaves, Others, InService
    <3>2. OneAtWork' /\ DueTellsStatus'
      BY <3>1 DEF OneAtWork, DueTellsStatus, InService
    <3>3. CASE Die(c)
      <4>1. deaths' # 0
        BY <1>0, <3>3 DEF Die, OtherTypes
      <4> QED BY <3>2, <4>1
    <3>4. ASSUME Record(c), deaths' = 0, NEW p \in Periods
          PROVE  ToldOf(p)'
      <4>1. CASE p = desk[c].period
        <5>1. Left(desk[c].op) = status'[p]
          BY <1>0, <2>1, <2>2, <4>1 DEF TrailInv, DueTellsStatus
        <5>2. Says(trail'[p][Len(trail'[p])]) = Left(desk[c].op)
          BY <3>4, <4>1, Records
        <5> QED BY <5>1, <5>2 DEF ToldOf
      <4>2. CASE p # desk[c].period
        <5>1. trail'[p] = trail[p] /\ deaths' = deaths
          BY <3>4, <4>2, Records
        <5>2. ~DueOn(p)
          BY <1>0, <2>1, <2>2, <4>2 DEF TrailInv, OneAtWork, InService, DueOn
        <5> QED BY <1>0, <2>1, <2>2, <3>4, <5>1, <5>2 DEF TrailInv, TrailOrDue, ToldOf
      <4> QED BY <4>1, <4>2
    <3> QED BY <1>8, <3>2, <3>3, <3>4 DEF TrailOrDue
  <2> QED BY <2>2 DEF TrailInv
<1>9. ASSUME MoveDocument \/ MoveBalance \/ UNCHANGED allVars
      PROVE  TrailInv'
  <2>1. /\ \A d \in Closers : /\ desk'[d].at = desk[d].at /\ desk'[d].op = desk[d].op
                              /\ desk'[d].period = desk[d].period
        /\ UNCHANGED <<status, trail, overlap, deaths>>
    <3>1. CASE MoveDocument \/ MoveBalance
      BY <1>0, <3>1, Stirs
    <3>2. CASE UNCHANGED allVars
      BY <3>2 DEF allVars, signVars
    <3> QED BY <1>9, <3>1, <3>2
  <2>2. \A d \in Closers : InService(d)' <=> InService(d)
    BY <2>1 DEF InService
  <2>3. \A p \in Periods : (DueOn(p) => DueOn(p)') /\ (ToldOf(p) => ToldOf(p)')
    BY <2>1 DEF DueOn, ToldOf
  <2> QED BY <1>0, <2>1, <2>2, <2>3 DEF TrailInv, OneAtWork, DueTellsStatus, TrailOrDue
<1> QED BY <1>2, <1>3, <1>4, <1>5, <1>6, <1>7, <1>8, <1>9 DEF SigningNext

LEMMA StepAccounts == AccountsInv /\ [SigningNext]_allVars => AccountsInv'
<1>1. AccountsInv => SignedCalendarInv
  BY DEF AccountsInv
<1> QED BY <1>1, StepCalendar, TypesNext, ServesNext, PagesNext, ShownNext, AcknowledgedNext,
           InformedNext, TrailNext DEF AccountsInv

\* What the invariant says is what is asked for.
LEMMA AccountsMeans == AccountsInv => ClosesAreAccountedFor
<1> SUFFICES ASSUME AccountsInv PROVE ClosesAreAccountedFor
  OBVIOUS
<1>1. PeriodTypeOK
  BY DEF AccountsInv, SignedCalendarInv, Types, OtherTypes, PeriodTypeOK, Calls, Ops
<1>2. ASSUME NEW c \in Closers
      PROVE  /\ desk[c].at \in {"away", "page", "asked", "serving", "committed"}
             /\ desk[c].at = "serving" <=> closer[c] # Idle
             /\ desk[c].at = "serving" =>
                  closer[c].period = desk[c].period /\ closer[c].op = desk[c].op
  <2>1. desk[c].at \in DeskStages
    BY DEF AccountsInv, SignedCalendarInv, Types, Desks
  <2> QED BY <2>1 DEF AccountsInv, SignedCalendarInv, ServedAtDesk, ServesWhatIsAsked, DeskStages
<1>3. signed \in [Periods -> [over : Findings, shown : Findings, ticked : BOOLEAN,
                              stirred : BOOLEAN]]
  BY DEF AccountsInv, OtherTypes, Signatures, Findings, Found
<1>4. ASSUME NEW p \in Periods
      PROVE  Len(trail[p]) <= pages
  <2> DEFINE n == Len(trail[p])  k == Cardinality(Out)
  <2>1. n \in Nat /\ k \in Nat /\ pages \in Nat /\ n + k <= pages
    BY FS_CardinalityType DEF AccountsInv, OtherTypes, PagesCoverEvents
  <2> HIDE DEF n, k
  <2>2. n <= pages
    BY <2>1
  <2> QED BY <2>2 DEF n
<1>5. SigningTypeOK
  BY <1>1, <1>2, <1>3, <1>4 DEF SigningTypeOK, AccountsInv, OtherTypes
<1>6. TrailTellsTheCalendar
  <2> SUFFICES ASSUME ~overlap, deaths = 0, \A c \in Closers : desk[c].at # "committed",
                      NEW p \in Periods
               PROVE  ToldOf(p)
    BY DEF TrailTellsTheCalendar, ToldOf
  <2> QED BY DEF AccountsInv, TrailInv, TrailOrDue, DueOn
<1> QED BY <1>5, <1>6 DEF ClosesAreAccountedFor, AccountsInv

\* For any number of periods, users and documents: where nothing moved since
\* its page was drawn, a close is over what was shown, and acknowledged, and
\* with no two calls at once and no worker lost between service and event, the
\* last event of every period tells its status.
THEOREM ClosesAlwaysAccountedFor == SigningSpec => []ClosesAreAccountedFor
BY InitAccounts, StepAccounts, AccountsMeans, PTL DEF SigningSpec

-----------------------------------------------------------------------------
(***************************************************************************)
(* What the masters promise, for any rows and any administrators.          *)
(***************************************************************************)

FixedTables == Trees \cup {"currency", "series"}
AnyRow == Account \cup ProductCategory \cup UnitOfMeasure \cup Currency \cup Company
            \cup DocumentSequence \cup ProductPrice \cup CodedRow \cup Customer \cup Vendor
            \cup Address \cup Contact \cup {None}
Edits == [at : Stages, key : Nodes \cup {One, None}, inst : AnyRow, form : AnyRow,
             before : AnyRow, cleared : SUBSET (Nodes \cup {One}), waits : SUBSET Admins, raced : BOOLEAN]

MastersTypes ==
  /\ kind \in Kinds
  /\ tbl = [k \in Keys(kind) |-> tbl[k]] /\ told = [k \in Keys(kind) |-> told[k]]
  /\ \A k \in Keys(kind) : tbl[k] \in RowsAt(k) \cup {None}
  /\ kind \in FixedTables => \A k \in Keys(kind) : tbl[k] # None
  /\ \A k \in Keys(kind) :
       told[k] # None \/ (kind \in Parties /\ tbl[k] # None)
         => \E row \in RowsAt(k) : DOMAIN told[k] = DOMAIN row
  /\ posted \subseteq Nodes \cup 1 .. MaxNumber
  /\ req \in [Admins -> Edits]
  /\ overtaken \in BOOLEAN
  /\ turns \in 0 .. MaxRequests

\* What a request holds at its stages, and, as long as nothing overtook it, what its
\* form found in the table that is still there.
Working(r) ==
  /\ r.at \in Done => r.key = None
  /\ r.at \in {"loaded", "valid", "before"}
       => /\ r.key \in Keys(kind) /\ r.inst \in RowsAt(r.key) \cup {None} /\ r.form \in RowsAt(r.key)
          /\ kind \in FixedTables => r.inst # None
          /\ ~r.raced => r.inst = tbl[r.key]
  /\ r.at \in {"valid", "before"}
       => /\ kind \in Coded => Upper(r.form.code) = r.form.code
          /\ kind = "series" => r.form.next >= r.inst.next
          /\ ~r.raced => /\ kind \in Trees => r.key \notin Upwards(r.form.parent)
                         /\ kind = "price" => ProductPriceForm(r.key, r.form)
                         /\ kind \notin Children \cup {"price"} => Lawful([tbl EXCEPT ![r.key] = r.form])
  /\ r.at = "before"
       => /\ kind \notin Children => r.cleared = {}
          /\ r.before \in RowsAt(r.key) \cup {None}
          /\ kind \in Parties /\ r.before # None => tbl[r.key] # None
          /\ ~r.raced => r.before = r.inst /\ r.cleared = Siblings(r.key, r.form)
  /\ r.at = "deleting" => kind \in Children \cup {"price"} /\ r.key \in Keys(kind)
  /\ r.at \in {"page", "pressed"} => kind \in Parties /\ r.key \in Keys(kind) /\ tbl[r.key] # None
  /\ r.at = "pressed"
       => /\ r.form \in RowsAt(r.key)
          /\ ~r.raced => /\ r.before = tbl[r.key]
                         /\ r.form = [tbl[r.key] EXCEPT !.active = ~tbl[r.key].active,
                                                        !.stamped = tbl[r.key].active]
AllWorking == \A c \in Admins, r \in Edits : req[c] = r => Working(r)

\* What holds of the table however requests overtake each other.
TableHolds ==
  /\ Lawful(tbl)
  /\ kind \in Coded => \A k \in Stored : Upper(tbl[k].code) = tbl[k].code

\* What holds of it as long as none was.
NoTwoPrices ==
  kind = "price" => \A j, k \in Stored : tbl[j].min = tbl[k].min /\ Overlaps(tbl[j], tbl[k]) => j = k
InTurn ==
  ~overtaken => /\ NoneAboveItself /\ NoTwoPrices /\ TrailTellsTheTable
                /\ \A c \in Admins : ~At(c, "error")

MastersInvariant == MastersTypes /\ AllWorking /\ TableHolds /\ InTurn

-----------------------------------------------------------------------------
(* Rows, keys and requests.                                                *)

LEMMA RowKinds ==
  ASSUME kind \in Kinds
  PROVE  /\ \A k : RowsAt(k) \subseteq AnyRow
         /\ \A k : None \notin RowsAt(k)
         /\ Keys(kind) \subseteq Nodes \cup {One}
<1>1. ASSUME NEW k PROVE RowsAt(k) \subseteq AnyRow /\ None \notin RowsAt(k)
  BY KindsAssumption, NoneIsNoRow DEF RowsAt, AnyRow, Trees, Coded, Parties, Children
<1>2. Keys(kind) \subseteq Nodes \cup {One}
  BY DEF Keys
<1> QED BY <1>1, <1>2

LEMMA NoEditIsRequest ==
  NoEdit \in Edits /\ \A stage \in Stages : [NoEdit EXCEPT !.at = stage] \in Edits
BY DEF NoEdit, Edits, Stages, Done, AnyRow

LEMMA KindStays ==
  ASSUME UNCHANGED kind
  PROVE  \A k : RowsAt(k)' = RowsAt(k)
BY DEF RowsAt

\* The predicates of a request, and of the table, are of the table alone.
LEMMA SameTable ==
  ASSUME UNCHANGED <<kind, tbl>>
  PROVE  /\ \A r : Working(r)' <=> Working(r)
         /\ TableHolds' <=> TableHolds
         /\ NoneAboveItself' <=> NoneAboveItself
         /\ NoTwoPrices' <=> NoTwoPrices
<1>0. \A k : RowsAt(k)' = RowsAt(k)
  BY KindStays
<1>1. \A p : Upwards(p)' = Upwards(p)
  BY DEF Upwards, ClosedUpwards
<1>2. Stored' = Stored
  BY DEF Stored
<1>3. \A t : Lawful(t)' <=> Lawful(t)
  BY DEF Lawful
<1>4. \A k, row : (ProductPriceForm(k, row)' <=> ProductPriceForm(k, row)) /\ Siblings(k, row)' = Siblings(k, row)
  BY <1>2 DEF ProductPriceForm, Siblings
<1>5. \A r : Working(r)' <=> Working(r)
  BY <1>0, <1>1, <1>3, <1>4 DEF Working
<1>6. TableHolds' <=> TableHolds
  BY <1>2 DEF TableHolds, Lawful
<1>7. (NoneAboveItself' <=> NoneAboveItself) /\ (NoTwoPrices' <=> NoTwoPrices)
  BY <1>1, <1>2 DEF NoneAboveItself, NoTwoPrices, Upwards, ClosedUpwards
<1> QED BY <1>5, <1>6, <1>7

\* A step that leaves the table alone, and the requests in order.
LEMMA QuietStep ==
  ASSUME MastersInvariant, UNCHANGED <<kind, tbl, told>>,
         posted' \subseteq Nodes \cup 1 .. MaxNumber, turns' \in 0 .. MaxRequests,
         req' \in [Admins -> Edits], \A d \in Admins : Working(req'[d]),
         overtaken' \in BOOLEAN, overtaken => overtaken',
         ~overtaken' => \A d \in Admins : req'[d].at # "error"
  PROVE  MastersInvariant'
<1>0. \A k : RowsAt(k)' = RowsAt(k)
  BY KindStays
<1>1. MastersTypes'
  BY <1>0 DEF MastersInvariant, MastersTypes
<1>2. AllWorking'
  BY SameTable DEF AllWorking
<1>3. TableHolds' /\ InTurn'
  BY SameTable DEF MastersInvariant, InTurn, TrailTellsTheTable, At
<1> QED BY <1>1, <1>2, <1>3 DEF MastersInvariant

LEMMA WorkingNow ==
  ASSUME MastersInvariant, NEW c \in Admins
  PROVE  req[c] \in Edits /\ Working(req[c])
BY DEF MastersInvariant, MastersTypes, AllWorking

\* One that is not at work holds nothing, and one that was overtaken is held to less.
LEMMA IdleWorking ==
  ASSUME NEW r \in Edits, r.at \in Done, r.key = None PROVE Working(r)
BY DEF Working, Done

LEMMA RacedWorking ==
  ASSUME NEW r \in Edits, Working(r)
  PROVE  [r EXCEPT !.raced = TRUE] \in Edits /\ Working([r EXCEPT !.raced = TRUE])
<1> DEFINE q == [r EXCEPT !.raced = TRUE]
<1>1. /\ q \in Edits /\ q.at = r.at /\ q.key = r.key /\ q.inst = r.inst /\ q.form = r.form
      /\ q.before = r.before /\ q.cleared = r.cleared /\ q.raced
  BY DEF Edits
<1> HIDE DEF q
<1>2. Working(q)
  BY <1>1 DEF Working
<1> QED BY <1>1, <1>2 DEF q

\* A step by which one request goes on.
LEMMA MoveStep ==
  ASSUME MastersInvariant, NEW c \in Admins, NEW r \in Edits, Working(r), r.at # "error",
         req' = [req EXCEPT ![c] = r], turns' \in 0 .. MaxRequests,
         UNCHANGED <<kind, tbl, told, posted, overtaken>>
  PROVE  MastersInvariant'
<1>1. req \in [Admins -> Edits] /\ posted \subseteq Nodes \cup 1 .. MaxNumber /\ overtaken \in BOOLEAN
  BY DEF MastersInvariant, MastersTypes
<1>2. \A d \in Admins : Working(req'[d])
  BY <1>1, WorkingNow
<1>3. ~overtaken' => \A d \in Admins : req'[d].at # "error"
  BY <1>1 DEF MastersInvariant, InTurn, At
<1> QED BY <1>1, <1>2, <1>3, QuietStep

\* A request that ends without having written.
LEMMA EndStep ==
  ASSUME MastersInvariant, NEW c \in Admins, NEW stage \in Done, End(c, stage, FALSE),
         stage = "error" => req[c].raced, UNCHANGED <<tbl, told>>
  PROVE  MastersInvariant'
<1>1. /\ req \in [Admins -> Edits] /\ posted \subseteq Nodes \cup 1 .. MaxNumber /\ overtaken \in BOOLEAN
      /\ turns \in 0 .. MaxRequests
  BY DEF MastersInvariant, MastersTypes
<1>2. req[c].raced \in BOOLEAN
  BY <1>1 DEF Edits
<1>3. /\ [NoEdit EXCEPT !.at = stage] \in Edits /\ [NoEdit EXCEPT !.at = stage].at = stage
      /\ [NoEdit EXCEPT !.at = stage].key = None
  BY NoEditIsRequest DEF Stages, NoEdit
<1>4. \A d \in Admins : req'[d] = IF d = c THEN [NoEdit EXCEPT !.at = stage] ELSE req[d]
  BY DEF End
<1>5. req' \in [Admins -> Edits]
  BY <1>1, <1>3 DEF End
<1>6. \A d \in Admins : Working(req'[d])
  BY <1>3, <1>4, IdleWorking, WorkingNow
<1>7. overtaken' = (overtaken \/ req[c].raced) /\ UNCHANGED <<kind, posted, turns>>
  BY DEF End
<1>8. ~overtaken' => \A d \in Admins : req'[d].at # "error"
  BY <1>2, <1>3, <1>4, <1>7 DEF MastersInvariant, InTurn, At
<1>9. overtaken' \in BOOLEAN /\ (overtaken => overtaken')
  BY <1>7
<1> QED BY <1>1, <1>5, <1>6, <1>7, <1>8, <1>9, QuietStep

-----------------------------------------------------------------------------
(* The steps that write nothing.                                           *)

LEMMA LoadKeeps ==
  ASSUME MastersInvariant, NEW c \in Admins, Load(c) \/ LoadToDelete(c) \/ OpenPartyPage(c)
  PROVE  MastersInvariant'
<1>0. /\ kind \in Kinds /\ DOMAIN tbl = Keys(kind) /\ turns \in 0 .. MaxRequests
      /\ \A k \in Keys(kind) : tbl[k] \in RowsAt(k) \cup {None}
      /\ kind \in FixedTables => \A k \in Keys(kind) : tbl[k] # None
      /\ \A k : RowsAt(k) \subseteq AnyRow /\ Keys(kind) \subseteq Nodes \cup {One}
  BY RowKinds DEF MastersInvariant, MastersTypes
<1>n. None \in AnyRow
  BY DEF AnyRow
<1>1. PICK r : Begin(c, r) /\ r \in Edits /\ Working(r) /\ r.at # "error"
  <2>1. CASE Load(c)
    <3>0. PICK k \in Keys(kind) : \E form \in RowsAt(k) :
            Begin(c, [NoEdit EXCEPT !.at = "loaded", !.key = k, !.inst = tbl[k], !.form = form])
      BY <1>0, <2>1 DEF Load
    <3>1. PICK form \in RowsAt(k) :
            Begin(c, [NoEdit EXCEPT !.at = "loaded", !.key = k, !.inst = tbl[k], !.form = form])
      BY <3>0
    <3> DEFINE r == [NoEdit EXCEPT !.at = "loaded", !.key = k, !.inst = tbl[k], !.form = form]
    <3>2. /\ r.at = "loaded" /\ r.key = k /\ r.inst = tbl[k] /\ r.form = form /\ r.raced = FALSE
          /\ r.before = None /\ r.cleared = {} /\ r.waits = {}
      BY DEF NoEdit
    <3>3. r \in Edits
      <4>1. k \in Nodes \cup {One, None} /\ form \in AnyRow /\ tbl[k] \in AnyRow /\ "loaded" \in Stages
        BY <1>0, <1>n DEF Stages
      <4> QED BY <4>1, NoEditIsRequest DEF Edits
    <3> HIDE DEF r
    <3>4. Working(r)
      BY <1>0, <3>2 DEF Working, Done
    <3> QED BY <3>1, <3>2, <3>3, <3>4 DEF r
  <2>2. CASE LoadToDelete(c)
    <3>1. PICK k \in Keys(kind) :
            Begin(c, [NoEdit EXCEPT !.at = "deleting", !.key = k, !.inst = tbl[k]])
      BY <1>0, <2>2 DEF LoadToDelete, Stored
    <3> DEFINE r == [NoEdit EXCEPT !.at = "deleting", !.key = k, !.inst = tbl[k]]
    <3>2. r.at = "deleting" /\ r.key = k
      BY DEF NoEdit
    <3>3. r \in Edits
      <4>1. k \in Nodes \cup {One, None} /\ tbl[k] \in AnyRow /\ "deleting" \in Stages
        BY <1>0, <1>n DEF Stages
      <4> QED BY <4>1, NoEditIsRequest DEF Edits
    <3> HIDE DEF r
    <3>4. Working(r)
      BY <2>2, <3>2 DEF Working, Done, LoadToDelete
    <3> QED BY <3>1, <3>2, <3>3, <3>4 DEF r
  <2>3. CASE OpenPartyPage(c)
    <3>1. PICK k \in Keys(kind) : tbl[k] # None /\ Begin(c, [NoEdit EXCEPT !.at = "page", !.key = k])
      BY <1>0, <2>3 DEF OpenPartyPage, Stored
    <3> DEFINE r == [NoEdit EXCEPT !.at = "page", !.key = k]
    <3>2. r.at = "page" /\ r.key = k
      BY DEF NoEdit
    <3>3. r \in Edits
      <4>1. k \in Nodes \cup {One, None} /\ "page" \in Stages
        BY <1>0 DEF Stages
      <4> QED BY <4>1, NoEditIsRequest DEF Edits
    <3> HIDE DEF r
    <3>4. Working(r)
      BY <2>3, <3>1, <3>2 DEF Working, Done, OpenPartyPage
    <3> QED BY <3>1, <3>2, <3>3, <3>4 DEF r
  <2> QED BY <2>1, <2>2, <2>3
<1>2. turns' \in 0 .. MaxRequests
  BY <1>0, <1>1, MastersAssumption DEF Begin
<1> QED BY <1>1, <1>2, MoveStep DEF Begin

\* What goes into the row is of the row's type, and what the form checks stays checked.
LEMMA InstanceType ==
  ASSUME kind \in Kinds, NEW k \in Keys(kind), NEW form \in RowsAt(k), NEW inst \in RowsAt(k) \cup {None}
  PROVE  /\ Instance(inst, form) \in RowsAt(k)
         /\ kind \in Coded => Upper(Instance(inst, form).code) = Instance(inst, form).code
         /\ kind \notin Coded \cup Parties => Instance(inst, form) = form
<1>1. CASE kind \in Coded
  <2>1. RowsAt(k) = CodedRow
    BY <1>1 DEF RowsAt, Coded, Parties, Trees, Children
  <2>2. [form EXCEPT !.code = Upper(@)] \in CodedRow
        /\ Upper([form EXCEPT !.code = Upper(@)].code) = [form EXCEPT !.code = Upper(@)].code
    BY <2>1 DEF CodedRow, Upper, Codes
  <2> QED BY <1>1, <2>1, <2>2 DEF Instance, clean_code
<1>2. CASE kind \in Parties
  <2>0. kind \notin Coded
    BY <1>2 DEF Parties, Coded
  <2>1. CASE inst = None
    BY <2>0, <2>1, <1>2 DEF Instance
  <2>2. CASE inst # None
    <3>1. CASE kind = "customer"
      <4>1. RowsAt(k) = Customer
        BY <3>1 DEF RowsAt, Coded
      <4> QED BY <1>2, <2>0, <2>2, <4>1 DEF Instance, Customer
    <3>2. CASE kind = "vendor"
      <4>1. RowsAt(k) = Vendor
        BY <3>2 DEF RowsAt, Coded
      <4> QED BY <1>2, <2>0, <2>2, <4>1 DEF Instance, Vendor
    <3> QED BY <1>2, <3>1, <3>2 DEF Parties
  <2> QED BY <2>1, <2>2
<1>3. CASE kind \notin Coded \cup Parties
  BY <1>3 DEF Instance
<1> QED BY <1>1, <1>2, <1>3

\* The form of each table, one by one.
LEMMA FormSays ==
  ASSUME NEW k, NEW inst, NEW form, NEW row, FormAccepts(k, inst, form),
         kind \notin Coded \cup Parties => row = form
  PROVE  /\ kind \in Trees => k \notin Upwards(row.parent)
         /\ kind = "price" => ProductPriceForm(k, row)
         /\ kind = "series" => row.next >= inst.next
<1>1. ASSUME kind = "account" PROVE k \notin Upwards(form.parent)
  <2>1. AccountForm(k, form)
    BY <1>1 DEF FormAccepts, Coded, Parties, Children
  <2> QED BY <2>1 DEF AccountForm, Walk
<1>2. ASSUME kind = "category" PROVE k \notin Upwards(form.parent)
  <2>1. ProductCategoryForm(k, form)
    BY <1>2 DEF FormAccepts, Coded, Parties, Children
  <2> QED BY <2>1 DEF ProductCategoryForm, Walk
<1>3. ASSUME kind = "unit" PROVE k \notin Upwards(form.parent)
  <2>1. UnitOfMeasureForm(k, form)
    BY <1>3 DEF FormAccepts, Coded, Parties, Children
  <2> QED BY <2>1 DEF UnitOfMeasureForm, Walk
<1>4. ASSUME kind = "price" PROVE ProductPriceForm(k, form)
  BY <1>4 DEF FormAccepts, Coded, Parties, Children
<1>5. ASSUME kind = "series" PROVE form.next >= inst.next
  <2>1. DocumentSequenceForm(inst, form)
    BY <1>5 DEF FormAccepts, Coded, Parties, Children
  <2> QED BY <2>1 DEF DocumentSequenceForm
<1>6. kind \in Trees \cup {"price", "series"} => row = form
  BY DEF Trees, Coded, Parties
<1>7. kind \in Trees => kind = "account" \/ kind = "category" \/ kind = "unit"
  BY DEF Trees
<1> QED BY <1>1, <1>2, <1>3, <1>4, <1>5, <1>6, <1>7

LEMMA CleanKeeps ==
  ASSUME MastersInvariant, NEW c \in Admins, Clean(c)
  PROVE  MastersInvariant'
<1> DEFINE r == req[c]
           k == r.key
           row == Instance(r.inst, r.form)
           q == [r EXCEPT !.at = "valid", !.form = row]
<1>0. r \in Edits /\ Working(r) /\ r.at = "loaded" /\ kind \in Kinds
  BY WorkingNow DEF Clean, At, MastersInvariant, MastersTypes
<1>1. CASE ~(FormAccepts(k, r.inst, r.form) /\ validate_constraints(k, row))
  <2>1. End(c, "refused", FALSE) /\ UNCHANGED <<tbl, told>>
    BY <1>1 DEF Clean
  <2> QED BY <2>1, EndStep DEF Done
<1>2. CASE FormAccepts(k, r.inst, r.form) /\ validate_constraints(k, row)
  <2>1. Move(c, q)
    BY <1>2 DEF Clean
  <2>2. k \in Keys(kind) /\ r.inst \in RowsAt(k) \cup {None} /\ r.form \in RowsAt(k)
        /\ (kind \in FixedTables => r.inst # None) /\ (~r.raced => r.inst = tbl[k])
    BY <1>0 DEF Working
  <2>3. /\ row \in RowsAt(k)
        /\ kind \in Coded => Upper(row.code) = row.code
        /\ kind \notin Coded \cup Parties => row = r.form
    BY <1>0, <2>2, InstanceType
  <2>4. /\ kind \in Trees => k \notin Upwards(row.parent)
        /\ kind = "price" => ProductPriceForm(k, row)
        /\ kind = "series" => row.next >= r.inst.next
    BY <1>2, <2>3, FormSays
  <2>5. kind \notin Children \cup {"price"} => Lawful([tbl EXCEPT ![k] = row])
    BY <1>2 DEF validate_constraints
  <2>6. q \in Edits /\ q.at = "valid" /\ q.key = k /\ q.inst = r.inst /\ q.form = row /\ q.raced = r.raced
    <3>1. row \in AnyRow
      BY <1>0, <2>3, RowKinds
    <3> QED BY <1>0, <3>1 DEF Edits, Stages
  <2> HIDE DEF q, k, row, r
  <2>7. Working(q)
    BY <2>2, <2>3, <2>4, <2>5, <2>6 DEF Working, Done
  <2>8. turns \in 0 .. MaxRequests
    BY DEF MastersInvariant, MastersTypes
  <2> QED BY <2>1, <2>6, <2>7, <2>8, MoveStep DEF Move
<1> QED BY <1>1, <1>2

LEMMA BeforeKeeps ==
  ASSUME MastersInvariant, NEW c \in Admins, Before(c)
  PROVE  MastersInvariant'
<1> DEFINE r == req[c]
           k == r.key
           cleared == Siblings(k, r.form)
           before == IF r.inst = None THEN None ELSE tbl[k]
           waits == {d \in Admins : req[d].at = "before" /\ req[d].cleared \cap cleared # {}}
           q == [r EXCEPT !.at = "before", !.cleared = cleared, !.before = before, !.waits = waits]
<1>0. r \in Edits /\ Working(r) /\ r.at = "valid" /\ kind \in Kinds
  BY WorkingNow DEF Before, At, MastersInvariant, MastersTypes
<1>00. /\ k \in Keys(kind) /\ r.inst \in RowsAt(k) \cup {None} /\ tbl[k] \in RowsAt(k) \cup {None}
       /\ ~r.raced => r.inst = tbl[k]
  BY <1>0 DEF Working, MastersInvariant, MastersTypes
<1>1. CASE r.inst # None /\ tbl[k] = None
  <2>1. End(c, "error", FALSE) /\ UNCHANGED <<tbl, told>>
    BY <1>1 DEF Before
  <2>2. r.raced
    BY <1>00, <1>1 DEF Edits
  <2> QED BY <2>1, <2>2, EndStep DEF Done
<1>2. CASE ~(r.inst # None /\ tbl[k] = None)
  <2>1. Move(c, q)
    BY <1>2 DEF Before, Reread, clear_previous_flag
  <2>2. before \in RowsAt(k) \cup {None} /\ (before # None => tbl[k] # None) /\ (~r.raced => before = r.inst)
    BY <1>00, <1>2
  <2>3. cleared \subseteq Nodes \cup {One} /\ (kind \notin Children => cleared = {}) /\ cleared \subseteq Keys(kind)
    BY <1>0, RowKinds DEF Siblings, Stored, MastersInvariant, MastersTypes
  <2>4. before \in AnyRow /\ waits \subseteq Admins
    BY <1>0, <2>2, RowKinds DEF AnyRow
  <2> HIDE DEF cleared, before, waits
  <2>5. /\ q \in Edits /\ q.at = "before" /\ q.key = k /\ q.inst = r.inst /\ q.form = r.form
        /\ q.raced = r.raced /\ q.cleared = cleared /\ q.before = before
    <3>1. "before" \in Stages
      BY DEF Stages
    <3> HIDE DEF r
    <3> QED BY <1>0, <2>3, <2>4, <3>1 DEF Edits
  <2> HIDE DEF q, r
  <2>6. Working(q)
    BY <1>0, <1>00, <2>2, <2>3, <2>5 DEF Working, Done, k, cleared
  <2>7. turns \in 0 .. MaxRequests
    BY DEF MastersInvariant, MastersTypes
  <2> QED BY <2>1, <2>5, <2>6, <2>7, MoveStep DEF Move, q, r
<1> QED BY <1>1, <1>2

\* The rows of a party: the button changes two columns.
Pressed(row, active, stamped) == [row EXCEPT !.active = active, !.stamped = stamped]

LEMMA PartyRows ==
  ASSUME kind \in Parties, NEW k, NEW row \in RowsAt(k)
  PROVE  /\ row.active \in BOOLEAN /\ row.stamped \in BOOLEAN
         /\ \A active, stamped \in BOOLEAN :
              /\ Pressed(row, active, stamped) \in RowsAt(k) /\ Pressed(row, active, stamped).code = row.code
              /\ Pressed(row, active, stamped).active = active /\ Pressed(row, active, stamped).stamped = stamped
<1>1. CASE kind = "customer"
  <2>1. RowsAt(k) = Customer
    BY <1>1 DEF RowsAt, Coded, Trees, Children, Parties
  <2>2. row \in Customer
    BY <2>1
  <2>3. row.active \in BOOLEAN /\ row.stamped \in BOOLEAN
    BY <2>2 DEF Customer
  <2>4. ASSUME NEW active \in BOOLEAN, NEW stamped \in BOOLEAN
        PROVE  /\ Pressed(row, active, stamped) \in Customer /\ Pressed(row, active, stamped).code = row.code
               /\ Pressed(row, active, stamped).active = active /\ Pressed(row, active, stamped).stamped = stamped
    BY <2>2 DEF Customer, Pressed
  <2> QED BY <2>1, <2>3, <2>4
<1>2. CASE kind = "vendor"
  <2>1. RowsAt(k) = Vendor
    BY <1>2 DEF RowsAt, Coded, Trees, Children, Parties
  <2>2. row \in Vendor
    BY <2>1
  <2>3. row.active \in BOOLEAN /\ row.stamped \in BOOLEAN
    BY <2>2 DEF Vendor
  <2>4. ASSUME NEW active \in BOOLEAN, NEW stamped \in BOOLEAN
        PROVE  /\ Pressed(row, active, stamped) \in Vendor /\ Pressed(row, active, stamped).code = row.code
               /\ Pressed(row, active, stamped).active = active /\ Pressed(row, active, stamped).stamped = stamped
    BY <2>2 DEF Vendor, Pressed
  <2> QED BY <2>1, <2>3, <2>4
<1> QED BY <1>1, <1>2 DEF Parties

LEMMA PressKeeps ==
  ASSUME MastersInvariant, NEW c \in Admins, Press(c)
  PROVE  MastersInvariant'
<1> DEFINE r == req[c]
           k == r.key
           row == tbl[k]
           form == [row EXCEPT !.active = ~row.active, !.stamped = row.active]
           q == [r EXCEPT !.at = "pressed", !.before = row, !.raced = FALSE, !.form = form]
<1>0. r \in Edits /\ Working(r) /\ r.at = "page" /\ kind \in Kinds
  BY WorkingNow DEF Press, At, MastersInvariant, MastersTypes
<1>1. kind \in Parties /\ k \in Keys(kind) /\ row \in RowsAt(k) /\ row # None
  BY <1>0 DEF Working, MastersInvariant, MastersTypes
<1>2. form \in RowsAt(k)
  <2> HIDE DEF k, row
  <2>1. row.active \in BOOLEAN
    BY <1>1, PartyRows, Zenon
  <2>2. (~row.active) \in BOOLEAN
    OBVIOUS
  <2>3. Pressed(row, ~row.active, row.active) \in RowsAt(k)
    BY <1>1, <2>1, <2>2, PartyRows, Zenon
  <2> QED BY <2>3 DEF Pressed
<1>3. Move(c, q)
  BY DEF Press
<1>4. form \in AnyRow /\ row \in AnyRow
  BY <1>0, <1>1, <1>2, RowKinds
<1>5. q \in Edits /\ q.at = "pressed" /\ q.key = k /\ q.form = form /\ q.before = row
  <2> HIDE DEF form, row
  <2> QED BY <1>0, <1>4 DEF Edits, Stages
<1>6. Working(q)
  <2> HIDE DEF q
  <2> QED BY <1>1, <1>2, <1>5 DEF Working, Done
<1>7. turns \in 0 .. MaxRequests
  BY DEF MastersInvariant, MastersTypes
<1> QED BY <1>3, <1>5, <1>6, <1>7, MoveStep DEF Move

LEMMA UseKeeps ==
  ASSUME MastersInvariant, PostLine \/ PostEntry \/ UNCHANGED mastersVars
  PROVE  MastersInvariant'
<1>0. \A d \in Admins : req[d] \in Edits /\ Working(req[d])
  BY WorkingNow
<1>1. UNCHANGED <<kind, tbl, told, req, overtaken, turns>>
  BY DEF PostLine, PostEntry, Used, mastersVars
<1>2. posted' \subseteq Nodes \cup 1 .. MaxNumber
  <2>1. CASE PostLine
    BY <2>1 DEF PostLine, Used, MastersInvariant, MastersTypes
  <2>2. CASE PostEntry
    <3>0. kind = "currency" /\ kind \in FixedTables
      BY <2>2 DEF PostEntry, FixedTables
    <3>1. One \in Keys(kind)
      BY <3>0 DEF Keys
    <3>3. RowsAt(One) = Company
      BY <3>0 DEF RowsAt, Coded, Trees, Children, Parties
    <3>4. tbl[One] \in Company
      BY <3>0, <3>1, <3>3 DEF MastersInvariant, MastersTypes
    <3>2. tbl[One].currency \in Nodes
      BY <3>4 DEF Company
    <3> QED BY <2>2, <3>2 DEF PostEntry, Used, MastersInvariant, MastersTypes
  <2>3. CASE UNCHANGED mastersVars
    BY <2>3 DEF mastersVars, MastersInvariant, MastersTypes
  <2> QED BY <2>1, <2>2, <2>3
<1>3. req' \in [Admins -> Edits] /\ turns' \in 0 .. MaxRequests /\ overtaken' \in BOOLEAN
  BY <1>1 DEF MastersInvariant, MastersTypes
<1>4. ~overtaken' => \A d \in Admins : req'[d].at # "error"
  BY <1>1 DEF MastersInvariant, InTurn, At
<1> QED BY <1>0, <1>1, <1>2, <1>3, <1>4, QuietStep

-----------------------------------------------------------------------------
(* The constraints and the trees of a table that changes.                  *)

LEMMA LawfulSays ==
  ASSUME NEW t
  PROVE  /\ kind \in Trees => (Lawful(t) <=> not_self_parent(t))
         /\ kind = "currency" => (Lawful(t) <=> currency_single_base(t))
         /\ kind = "series" => Lawful(t)
         /\ kind = "price" => (Lawful(t) <=> product_price_unique_point(t))
         /\ kind \in Coded => (Lawful(t) <=> code_unique(t))
         /\ kind \in Parties => (Lawful(t) <=> customer_code_unique_ci(t))
         /\ kind \in Children => (Lawful(t) <=> address_one_default(t))
BY DEF Lawful, Trees, Coded, Parties, Children

\* No row is above one that has no parent.
LEMMA NothingAboveRoots ==
  \A n : n \notin Upwards(None)
<1>1. {} \in SUBSET Nodes /\ None \in {} \cup {None} /\ ClosedUpwards({})
  BY DEF ClosedUpwards
<1> QED BY <1>1 DEF Upwards

LEMMA FirstIsSound ==
  ASSUME kind \in Kinds, told = tbl, posted = {}, req = [c \in Admins |-> NoEdit], overtaken = FALSE, turns = 0,
         tbl = [k \in Keys(kind) |-> tbl[k]],
         \A k \in Keys(kind) : tbl[k] \in RowsAt(k) \cup {None},
         kind \in FixedTables => \A k \in Keys(kind) : tbl[k] # None,
         Lawful(tbl), NoneAboveItself,
         kind = "price" \/ kind \in Coded \cup Parties => Stored = {}
  PROVE  MastersInvariant
<1>1. NoEdit \in Edits /\ NoEdit.at = "idle" /\ NoEdit.key = None
  BY NoEditIsRequest DEF NoEdit
<1>2. \A k \in Keys(kind) : told[k] # None \/ (kind \in Parties /\ tbl[k] # None)
                            => \E row \in RowsAt(k) : DOMAIN told[k] = DOMAIN row
  OBVIOUS
<1>3. MastersTypes
  <2>1. req \in [Admins -> Edits] /\ turns \in 0 .. MaxRequests
    BY <1>1, MastersAssumption
  <2> QED BY <1>2, <2>1 DEF MastersTypes
<1>4. AllWorking
  BY <1>1, IdleWorking DEF AllWorking, Done
<1>5. TableHolds
  BY DEF TableHolds
<1>6. InTurn
  BY <1>1 DEF InTurn, NoTwoPrices, TrailTellsTheTable, At
<1> QED BY <1>3, <1>4, <1>5, <1>6 DEF MastersInvariant

LEMMA InitHolds ==
  ASSUME MastersInit PROVE MastersInvariant
<1>1. kind \in Kinds /\ told = tbl /\ posted = {} /\ req = [c \in Admins |-> NoEdit]
      /\ overtaken = FALSE /\ turns = 0
  BY DEF MastersInit
<1>2. PICK b \in Nodes :
        tbl = [k \in Keys(kind) |-> IF kind # "currency" THEN First(kind)
                                    ELSE IF k = One THEN [currency |-> b]
                                    ELSE [base |-> k = b, active |-> TRUE]]
  BY DEF MastersInit
<1>3. kind \in Kinds /\ kind \in Trees \cup Coded \cup Parties \cup Children \cup {"currency", "series", "price"}
  BY <1>1, KindsAssumption
<1>4. CASE kind \in Trees
  <2>1. Keys(kind) = Nodes /\ kind \notin Parties \cup Children \cup Coded /\ kind # "currency"
        /\ kind # "price" /\ kind # "series"
    BY <1>4 DEF Trees, Keys, Parties, Children, Coded
  <2>2. tbl = [k \in Nodes |-> First(kind)]
    BY <1>2, <2>1
  <2>3. First(kind).parent = None /\ \A k : First(kind) \in RowsAt(k)
    <3>1. CASE kind = "account"
      BY <3>1 DEF First, RowsAt, Account, Trees, Coded, Parties, Children
    <3>2. CASE kind = "category"
      BY <3>2 DEF First, RowsAt, ProductCategory, Trees, Coded, Parties, Children
    <3>3. CASE kind = "unit"
      BY <3>3 DEF First, RowsAt, UnitOfMeasure, Trees, Coded, Parties, Children
    <3> QED BY <1>4, <3>1, <3>2, <3>3 DEF Trees
  <2>4. not_self_parent(tbl)
    BY <2>2, <2>3, MastersAssumption DEF not_self_parent
  <2>5. NoneAboveItself
    BY <2>2, <2>3, NothingAboveRoots DEF NoneAboveItself
  <2>6. \A k \in Keys(kind) : tbl[k] \in RowsAt(k) /\ tbl[k] # None
    BY <1>1, <2>1, <2>2, <2>3, RowKinds
  <2> QED BY <1>1, <1>4, <2>1, <2>2, <2>4, <2>5, <2>6, LawfulSays, FirstIsSound
<1>5. CASE kind = "series"
  <2>1. Keys(kind) = {One} /\ kind \notin Parties \cup Children \cup Coded \cup Trees
    BY <1>5 DEF Trees, Keys, Parties, Children, Coded
  <2>2. tbl = [k \in {One} |-> [next |-> 1]]
    BY <1>2, <1>5, <2>1 DEF First
  <2>3. \A k : [next |-> 1] \in RowsAt(k)
    <3>1. 1 \in 1 .. MaxNumber + 1
      BY MastersAssumption
    <3> QED BY <1>5, <3>1 DEF RowsAt, DocumentSequence, Trees, Coded, Parties, Children
  <2>4. \A k \in Keys(kind) : tbl[k] \in RowsAt(k) /\ tbl[k] # None
    BY <1>1, <2>1, <2>2, <2>3, RowKinds
  <2>5. NoneAboveItself
    BY <2>1 DEF NoneAboveItself
  <2> QED BY <1>1, <1>5, <2>1, <2>2, <2>4, <2>5, LawfulSays, FirstIsSound
<1>6. CASE kind = "currency"
  <2>1. Keys(kind) = Nodes \cup {One} /\ kind \notin Parties \cup Children \cup Coded \cup Trees
    BY <1>6 DEF Trees, Keys, Parties, Children, Coded
  <2>2. tbl = [k \in Nodes \cup {One} |-> IF k = One THEN [currency |-> b]
                                          ELSE [base |-> k = b, active |-> TRUE]]
    BY <1>2, <1>6, <2>1
  <2>3. \A k \in Keys(kind) : tbl[k] \in RowsAt(k)
    BY <1>6, <2>1, <2>2 DEF RowsAt, Company, Currency, Trees, Coded, Parties, Children
  <2>4. \A k \in Keys(kind) : tbl[k] \in RowsAt(k) /\ tbl[k] # None
    BY <1>1, <2>3, RowKinds
  <2>5. currency_single_base(tbl)
    <3>1. \A n \in Nodes : tbl[n].base <=> n = b
      BY <2>2, MastersAssumption
    <3> QED BY <3>1 DEF currency_single_base, Unique
  <2>6. NoneAboveItself
    BY <2>1 DEF NoneAboveItself
  <2> QED BY <1>1, <1>6, <2>1, <2>2, <2>4, <2>5, <2>6, LawfulSays, FirstIsSound
<1>7. CASE kind = "price" \/ kind \in Coded \cup Parties \cup Children
  <2>1. Keys(kind) = Nodes /\ kind \notin FixedTables \cup Trees /\ kind # "currency" /\ kind # "series"
    BY <1>7 DEF Trees, Keys, Parties, Children, Coded, FixedTables
  <2>2. tbl = [k \in Nodes |-> None]
    BY <1>2, <1>7, <2>1 DEF First, Trees
  <2>3. Lawful(tbl)
    <3>1. \A j \in DOMAIN tbl : tbl[j] = None
      BY <2>2
    <3>2. product_price_unique_point(tbl) /\ code_unique(tbl) /\ customer_code_unique_ci(tbl) /\ address_one_default(tbl)
      BY <3>1 DEF product_price_unique_point, code_unique, customer_code_unique_ci, address_one_default, Unique
    <3> QED BY <1>7, <3>2, LawfulSays
  <2>4. NoneAboveItself
    BY <2>1 DEF NoneAboveItself
  <2>5. Stored = {}
    BY <2>2 DEF Stored
  <2> QED BY <1>1, <2>1, <2>2, <2>3, <2>4, <2>5, FirstIsSound
<1> QED BY <1>3, <1>4, <1>5, <1>6, <1>7

-----------------------------------------------------------------------------
(* The steps that write.                                                   *)

\* What a request held before another wrote, it still holds, as one overtaken.
LEMMA OvertakenWorking ==
  ASSUME NEW r \in Edits, Working(r), UNCHANGED kind, kind \in Kinds,
         kind \in Parties => \A k \in Keys(kind) : tbl[k] # None => tbl'[k] # None
  PROVE  Working([r EXCEPT !.raced = TRUE])'
<1> DEFINE q == [r EXCEPT !.raced = TRUE]
<1>0. \A k : RowsAt(k)' = RowsAt(k)
  BY KindStays
<1>1. /\ q.at = r.at /\ q.key = r.key /\ q.inst = r.inst /\ q.form = r.form
      /\ q.before = r.before /\ q.cleared = r.cleared /\ q.raced = TRUE
  BY DEF Edits
<1> HIDE DEF q
<1>2. Working(q)'
  BY <1>0, <1>1 DEF Working
<1> QED BY <1>2 DEF q

\* A step that writes: those under way have been overtaken.
LEMMA WriteStep ==
  ASSUME MastersInvariant, NEW c \in Admins, End(c, "saved", TRUE),
         tbl' = [k \in Keys(kind) |-> tbl'[k]], told' = [k \in Keys(kind) |-> told'[k]],
         \A k \in Keys(kind) : tbl'[k] \in RowsAt(k) \cup {None},
         kind \in FixedTables => \A k \in Keys(kind) : tbl'[k] # None,
         kind \in Parties => \A k \in Keys(kind) : tbl[k] # None => tbl'[k] # None,
         \A k \in Keys(kind) : told'[k] # None \/ (kind \in Parties /\ tbl'[k] # None)
                               => \E row \in RowsAt(k) : DOMAIN told'[k] = DOMAIN row,
         TableHolds',
         ~overtaken /\ ~req[c].raced => (NoneAboveItself /\ NoTwoPrices /\ TrailTellsTheTable)'
  PROVE  MastersInvariant'
<1>1. /\ req \in [Admins -> Edits] /\ posted \subseteq Nodes \cup 1 .. MaxNumber /\ overtaken \in BOOLEAN
      /\ turns \in 0 .. MaxRequests /\ kind \in Kinds
  BY DEF MastersInvariant, MastersTypes
<1>2. overtaken' = (overtaken \/ req[c].raced) /\ UNCHANGED <<kind, posted, turns>> /\ req[c].raced \in BOOLEAN
  BY <1>1 DEF End, Edits
<1>3. /\ [NoEdit EXCEPT !.at = "saved"] \in Edits /\ [NoEdit EXCEPT !.at = "saved"].at = "saved"
      /\ [NoEdit EXCEPT !.at = "saved"].key = None
  BY NoEditIsRequest DEF Stages, NoEdit, Done
<1>4. \A d \in Admins : req'[d] = IF d = c THEN [NoEdit EXCEPT !.at = "saved"]
                                  ELSE IF req[d].at \notin Done THEN [req[d] EXCEPT !.raced = TRUE]
                                  ELSE req[d]
  BY DEF End
<1>5. \A r \in Edits : Working(r) => [r EXCEPT !.raced = TRUE] \in Edits /\ [r EXCEPT !.raced = TRUE].at = r.at
  BY RacedWorking DEF Edits
<1>6. req' \in [Admins -> Edits]
  <2>1. \A d \in Admins : req'[d] \in Edits
    BY <1>3, <1>4, <1>5, WorkingNow
  <2> QED BY <2>1 DEF End
<1>7. \A d \in Admins : req'[d].at # "error" \/ req[d].at = "error"
  BY <1>3, <1>4, <1>5, WorkingNow
<1>8. \A k : RowsAt(k)' = RowsAt(k)
  BY <1>2, KindStays
<1>9. MastersTypes'
  BY <1>1, <1>2, <1>6, <1>8 DEF MastersTypes
<1>10. \A r \in Edits : Working(r) => Working([r EXCEPT !.raced = TRUE])'
  BY <1>1, <1>2, OvertakenWorking
<1>11. \A r \in Edits : r.at \in Done /\ r.key = None => Working(r)'
  BY DEF Working, Done
<1>12. \A d \in Admins : \E r \in Edits : req'[d] = r /\ Working(r)'
  <2> TAKE d \in Admins
  <2>1. PICK r \in Edits : r = req[d] /\ Working(r)
    BY WorkingNow
  <2>2. CASE d = c
    BY <1>3, <1>4, <1>11, <2>2 DEF Done
  <2>3. CASE d # c /\ r.at \notin Done
    BY <1>4, <1>5, <1>10, <2>1, <2>3
  <2>4. CASE d # c /\ r.at \in Done
    <3>1. r.key = None
      BY <2>1, <2>4 DEF Working
    <3> QED BY <1>4, <1>11, <2>1, <2>4, <3>1
  <2> QED BY <2>2, <2>3, <2>4
<1>13. AllWorking'
  <2>1. ASSUME NEW d \in Admins, NEW r \in Edits, req'[d] = r PROVE Working(r)'
    BY <1>12, <2>1
  <2> QED BY <2>1 DEF AllWorking
<1>14. InTurn'
  BY <1>2, <1>7 DEF InTurn, MastersInvariant, At
<1> QED BY <1>9, <1>13, <1>14 DEF MastersInvariant

\* The rows of one key have the same columns, and a change told is the row after it.
LEMMA RowsAreAlike ==
  ASSUME kind \in Kinds, NEW k, NEW r1 \in RowsAt(k), NEW r2 \in RowsAt(k)
  PROVE  DOMAIN r1 = DOMAIN r2 /\ Told(r1, r1, r2) = r2
<1>1. DOMAIN r1 = DOMAIN r2 /\ r2 = [f \in DOMAIN r2 |-> r2[f]]
  <2>1. RowsAt(k) \in {Account, ProductCategory, UnitOfMeasure, Currency, Company, DocumentSequence,
                       ProductPrice, CodedRow, Customer, Vendor, Address, Contact}
    BY KindsAssumption DEF RowsAt, Trees, Coded, Parties, Children
  <2>2. CASE RowsAt(k) = Account
    BY <2>2 DEF Account
  <2>3. CASE RowsAt(k) = ProductCategory
    BY <2>3 DEF ProductCategory
  <2>4. CASE RowsAt(k) = UnitOfMeasure
    BY <2>4 DEF UnitOfMeasure
  <2>5. CASE RowsAt(k) = Currency
    BY <2>5 DEF Currency
  <2>6. CASE RowsAt(k) = Company
    BY <2>6 DEF Company
  <2>7. CASE RowsAt(k) = DocumentSequence
    BY <2>7 DEF DocumentSequence
  <2>8. CASE RowsAt(k) = ProductPrice
    BY <2>8 DEF ProductPrice
  <2>9. CASE RowsAt(k) = CodedRow
    BY <2>9 DEF CodedRow
  <2>10. CASE RowsAt(k) = Customer
    BY <2>10 DEF Customer
  <2>11. CASE RowsAt(k) = Vendor
    BY <2>11 DEF Vendor
  <2>12. CASE RowsAt(k) = Address
    BY <2>12 DEF Address
  <2>13. CASE RowsAt(k) = Contact
    BY <2>13 DEF Contact
  <2> QED BY <2>1, <2>2, <2>3, <2>4, <2>5, <2>6, <2>7, <2>8, <2>9, <2>10, <2>11, <2>12, <2>13
<1>2. Told(r1, r1, r2) = [f \in DOMAIN r1 |-> r2[f]]
  BY DEF Told
<1> QED BY <1>1, <1>2

\* A row without its flag.
LEMMA ClearedRow ==
  ASSUME kind \in Children, NEW k, NEW row \in RowsAt(k)
  PROVE  LET other == [row EXCEPT !.default = FALSE]
         IN  other \in RowsAt(k) /\ other.default = FALSE /\ other.type = row.type
<1>1. CASE kind = "address"
  <2>1. RowsAt(k) = Address
    BY <1>1 DEF RowsAt, Coded, Trees, Children, Parties
  <2>2. row \in Address
    BY <2>1
  <2>3. [row EXCEPT !.default = FALSE] \in Address
    BY <2>2 DEF Address
  <2>4. [row EXCEPT !.default = FALSE].default = FALSE /\ [row EXCEPT !.default = FALSE].type = row.type
    BY <2>2 DEF Address
  <2> QED BY <2>1, <2>3, <2>4
<1>2. CASE kind = "contact"
  <2>1. RowsAt(k) = Contact
    BY <1>2 DEF RowsAt, Coded, Trees, Children, Parties
  <2>2. row \in Contact
    BY <2>1
  <2>3. [row EXCEPT !.default = FALSE] \in Contact
    BY <2>2 DEF Contact
  <2>4. [row EXCEPT !.default = FALSE].default = FALSE /\ [row EXCEPT !.default = FALSE].type = row.type
    BY <2>2 DEF Contact
  <2> QED BY <2>1, <2>3, <2>4
<1> QED BY <1>1, <1>2 DEF Children

\* A row takes a parent that it is not above: still no row is above itself.
LEMMA TreeGrows ==
  ASSUME NEW k \in Nodes, NEW row, kind \in Trees, NoneAboveItself, k \notin Upwards(row.parent),
         DOMAIN tbl = Nodes, \A n \in Nodes : tbl[n].parent \in Nodes \cup {None}, row.parent \in Nodes \cup {None},
         UNCHANGED kind, tbl' = [tbl EXCEPT ![k] = row]
  PROVE  NoneAboveItself'
<1>1. PICK A \in SUBSET Nodes : row.parent \in A \cup {None} /\ ClosedUpwards(A) /\ k \notin A
  BY DEF Upwards
<1>2. ASSUME NEW n \in Nodes
      PROVE  \E S \in SUBSET Nodes : /\ tbl'[n].parent \in S \cup {None} /\ n \notin S
                                     /\ \A m \in S : tbl'[m].parent \in S \cup {None}
  <2>0. \A m \in Nodes : tbl'[m] = IF m = k THEN row ELSE tbl[m]
    OBVIOUS
  <2>1. CASE n = k
    <3>1. \A m \in A : tbl'[m].parent \in A \cup {None}
      BY <1>1, <2>0 DEF ClosedUpwards
    <3> QED BY <1>1, <2>0, <2>1, <3>1
  <2>2. CASE n # k
    <3>1. n \notin Upwards(tbl[n].parent)
      BY DEF NoneAboveItself
    <3>2. PICK B \in SUBSET Nodes : tbl[n].parent \in B \cup {None} /\ ClosedUpwards(B) /\ n \notin B
      BY <3>1 DEF Upwards
    <3>3. CASE k \notin B
      <4>1. \A m \in B : tbl'[m].parent \in B \cup {None}
        BY <2>0, <3>2, <3>3 DEF ClosedUpwards
      <4> QED BY <2>0, <2>2, <3>2, <4>1
    <3>4. CASE k \in B /\ n \notin A
      <4>1. \A m \in A \cup B : tbl'[m].parent \in A \cup B \cup {None}
        BY <1>1, <2>0, <3>2 DEF ClosedUpwards
      <4>2. A \cup B \in SUBSET Nodes /\ n \notin A \cup B /\ tbl'[n].parent \in (A \cup B) \cup {None}
        BY <2>0, <2>2, <3>2, <3>4
      <4> QED BY <4>1, <4>2
    <3>5. CASE k \in B /\ n \in A
      <4>1. \A m \in A \cap B : tbl'[m].parent \in (A \cap B) \cup {None}
        BY <1>1, <2>0, <3>2 DEF ClosedUpwards
      <4>2. A \cap B \in SUBSET Nodes /\ n \notin A \cap B /\ tbl'[n].parent \in (A \cap B) \cup {None}
        BY <1>1, <2>0, <2>2, <3>2, <3>5 DEF ClosedUpwards
      <4> QED BY <4>1, <4>2
    <3> QED BY <3>3, <3>4, <3>5
  <2> QED BY <2>1, <2>2
<1> QED BY <1>2 DEF NoneAboveItself, Upwards, ClosedUpwards

\* Two windows that overlap do so whichever is told first.
LEMMA OverlapIsMutual ==
  ASSUME NEW p \in ProductPrice, NEW q \in ProductPrice
  PROVE  /\ Overlaps(p, q) <=> Overlaps(q, p)
         /\ p.from = q.from => Overlaps(p, q)
<1>1. /\ p.from \in 1 .. Days /\ q.from \in 1 .. Days
      /\ p.to # None => p.to \in 1 .. Days /\ p.to >= p.from
      /\ q.to # None => q.to \in 1 .. Days /\ q.to >= q.from
  BY DEF ProductPrice
<1> QED BY <1>1, MastersAssumption DEF Overlaps

LEMMA DeleteKeeps ==
  ASSUME MastersInvariant, NEW c \in Admins, Delete(c)
  PROVE  MastersInvariant'
<1> DEFINE k == req[c].key
<1>1. /\ k \in Keys(kind) /\ kind \in Children \cup {"price"} /\ kind \in Kinds
      /\ tbl' = [tbl EXCEPT ![k] = None] /\ told' = [told EXCEPT ![k] = None] /\ End(c, "saved", TRUE)
  BY WorkingNow DEF Delete, At, Working, record_delete, MastersInvariant, MastersTypes
<1>2. /\ DOMAIN tbl = Keys(kind) /\ DOMAIN told = Keys(kind) /\ Lawful(tbl)
      /\ \A j \in Keys(kind) : tbl[j] \in RowsAt(j) \cup {None}
      /\ \A j \in Keys(kind) : told[j] # None => \E row \in RowsAt(j) : DOMAIN told[j] = DOMAIN row
  BY DEF MastersInvariant, MastersTypes, TableHolds
<1> HIDE DEF k
<1>3. \A j \in Keys(kind) : (tbl'[j] = IF j = k THEN None ELSE tbl[j]) /\ (told'[j] = IF j = k THEN None ELSE told[j])
  BY <1>1, <1>2
<1>4. kind \notin FixedTables \cup Parties \cup Coded \cup Trees /\ UNCHANGED kind
  BY <1>1 DEF FixedTables, Parties, Coded, Children, Trees, End
<1>5. tbl' = [j \in Keys(kind) |-> tbl'[j]] /\ told' = [j \in Keys(kind) |-> told'[j]]
  BY <1>1, <1>2
<1>6. TableHolds'
  <2>1. CASE kind = "price"
    <3>1. product_price_unique_point(tbl)
      BY <1>2, <2>1, LawfulSays
    <3>2. product_price_unique_point(tbl')
      BY <1>2, <1>3, <1>5, <3>1 DEF product_price_unique_point, Unique
    <3> QED BY <1>4, <2>1, <3>2, LawfulSays DEF TableHolds, Lawful, Trees, Coded, Parties, Children
  <2>2. CASE kind \in Children
    <3>1. address_one_default(tbl)
      BY <1>2, <2>2, LawfulSays
    <3>2. address_one_default(tbl')
      BY <1>2, <1>3, <1>5, <3>1 DEF address_one_default, Unique
    <3> QED BY <1>4, <2>2, <3>2 DEF TableHolds, Lawful, Trees, Coded, Parties, Children
  <2> QED BY <1>1, <2>1, <2>2
<1>7. ASSUME ~overtaken PROVE (NoneAboveItself /\ NoTwoPrices /\ TrailTellsTheTable)'
  <2>1. NoTwoPrices /\ TrailTellsTheTable
    BY <1>7 DEF MastersInvariant, InTurn
  <2>2. NoTwoPrices'
    BY <1>2, <1>3, <1>4, <1>5, <2>1 DEF NoTwoPrices, Stored
  <2>3. TrailTellsTheTable'
    BY <1>1, <1>4, <1>7, <2>1 DEF TrailTellsTheTable, Children
  <2>4. NoneAboveItself'
    BY <1>4 DEF NoneAboveItself
  <2> QED BY <2>2, <2>3, <2>4
<1> QED BY <1>1, <1>2, <1>3, <1>4, <1>5, <1>6, <1>7, WriteStep

LEMMA DeactivateKeeps ==
  ASSUME MastersInvariant, NEW c \in Admins, DeactivateView(c)
  PROVE  MastersInvariant'
<1> DEFINE r == req[c]
           k == r.key
           row == [tbl[k] EXCEPT !.active = r.form.active, !.stamped = r.form.stamped]
<1>1. /\ k \in Keys(kind) /\ kind \in Parties /\ kind \in Kinds /\ tbl[k] # None /\ r.form \in RowsAt(k)
      /\ ~r.raced => /\ r.before = tbl[k]
                     /\ r.form = [tbl[k] EXCEPT !.active = ~tbl[k].active, !.stamped = tbl[k].active]
  BY WorkingNow DEF DeactivateView, At, Working, MastersInvariant, MastersTypes
<1>2. tbl' = [tbl EXCEPT ![k] = row] /\ told' = [told EXCEPT ![k] = Told(@, r.before, r.form)] /\ End(c, "saved", TRUE)
  BY DEF DeactivateView, record_update
<1>3. /\ DOMAIN tbl = Keys(kind) /\ DOMAIN told = Keys(kind) /\ Lawful(tbl)
      /\ \A j \in Keys(kind) : tbl[j] \in RowsAt(j) \cup {None}
      /\ \A j \in Keys(kind) : told[j] # None \/ tbl[j] # None => \E s \in RowsAt(j) : DOMAIN told[j] = DOMAIN s
  BY <1>1 DEF MastersInvariant, MastersTypes, TableHolds
<1>4. kind \notin FixedTables \cup Coded \cup Trees \cup Children \cup {"price"} /\ UNCHANGED kind
  BY <1>1, <1>2 DEF FixedTables, Parties, Coded, Children, Trees, End
<1>5. /\ row \in RowsAt(k) /\ row # None /\ row.code = tbl[k].code
      /\ ~r.raced => row = r.form
  <2> HIDE DEF r, k
  <2> DEFINE old == tbl[k]
             form == r.form
  <2>1. old \in RowsAt(k) /\ form \in RowsAt(k)
    BY <1>1, <1>3
  <2>2. ~r.raced => form = [old EXCEPT !.active = ~old.active, !.stamped = old.active]
    BY <1>1
  <2>3. None \notin RowsAt(k)
    BY <1>1, RowKinds
  <2> HIDE DEF old, form
  <2>4. form.active \in BOOLEAN /\ form.stamped \in BOOLEAN /\ old.active \in BOOLEAN
    BY <1>1, <2>1, PartyRows, Zenon
  <2>5. /\ Pressed(old, form.active, form.stamped) \in RowsAt(k)
        /\ Pressed(old, form.active, form.stamped).code = old.code
    <3>1. \A active, stamped \in BOOLEAN :
            Pressed(old, active, stamped) \in RowsAt(k) /\ Pressed(old, active, stamped).code = old.code
      BY <1>1, <2>1, PartyRows
    <3> QED BY <2>4, <3>1, Zenon
  <2>6. ASSUME ~r.raced PROVE Pressed(old, form.active, form.stamped) = form
    <3> DEFINE on == ~old.active
    <3>1. on \in BOOLEAN /\ form = Pressed(old, on, old.active)
      BY <2>2, <2>6 DEF Pressed
    <3> HIDE DEF on
    <3>2. form.active = on /\ form.stamped = old.active
      BY <1>1, <2>1, <2>4, <3>1, PartyRows, Zenon
    <3> QED BY <3>1, <3>2
  <2>7. row = Pressed(old, form.active, form.stamped)
    BY DEF Pressed, old, form
  <2> HIDE DEF row
  <2> QED BY <2>3, <2>5, <2>6, <2>7 DEF old, form
<1> HIDE DEF row
<1>6. \A j \in Keys(kind) : tbl'[j] = IF j = k THEN row ELSE tbl[j]
  BY <1>2, <1>3
<1>7. \A j \in Keys(kind) : DOMAIN told'[j] = DOMAIN told[j] \/ j # k
  BY <1>2, <1>3 DEF Told
<1>8. \A j \in Keys(kind) : j # k => told'[j] = told[j]
  BY <1>2, <1>3
<1>9. tbl' = [j \in Keys(kind) |-> tbl'[j]] /\ told' = [j \in Keys(kind) |-> told'[j]]
  BY <1>2, <1>3
<1>10. \A j \in Keys(kind) : told'[j] # None \/ tbl'[j] # None => \E s \in RowsAt(j) : DOMAIN told'[j] = DOMAIN s
  <2> TAKE j \in Keys(kind)
  <2>1. CASE j = k
    BY <1>1, <1>3, <1>7, <2>1
  <2>2. CASE j # k
    BY <1>3, <1>6, <1>8, <2>2
  <2> QED BY <2>1, <2>2
<1>11. TableHolds'
  <2>1. customer_code_unique_ci(tbl)
    BY <1>1, <1>3, LawfulSays
  <2>2. \A j \in Keys(kind) : (tbl'[j] # None => tbl[j] # None) /\ (tbl[j] # None => tbl'[j].code = tbl[j].code)
    BY <1>1, <1>5, <1>6
  <2>3. DOMAIN tbl' = Keys(kind)
    BY <1>9
  <2>4. customer_code_unique_ci(tbl')
    BY <1>3, <2>1, <2>2, <2>3 DEF customer_code_unique_ci, Unique, Every
  <2> QED BY <1>1, <1>4, <2>4 DEF TableHolds, Lawful, Trees, Coded, Parties, Children
<1>12. ASSUME ~overtaken, ~r.raced PROVE (NoneAboveItself /\ NoTwoPrices /\ TrailTellsTheTable)'
  <2>1. TrailTellsTheTable
    BY <1>12 DEF MastersInvariant, InTurn
  <2>2. NoneAboveItself' /\ NoTwoPrices'
    BY <1>4 DEF NoneAboveItself, NoTwoPrices
  <2>3. told = tbl
    BY <1>4, <1>12, <2>1 DEF TrailTellsTheTable, FixedTables
  <2>4. Told(told[k], r.before, r.form) = row
    BY <1>1, <1>3, <1>5, <1>12, <2>3, RowsAreAlike
  <2>5. told' = tbl'
    BY <1>2, <2>3, <2>4
  <2> QED BY <2>2, <2>5 DEF TrailTellsTheTable
<1>13. \A j \in Keys(kind) : (tbl'[j] \in RowsAt(j) \cup {None}) /\ (tbl[j] # None => tbl'[j] # None)
  BY <1>3, <1>5, <1>6
<1> QED BY <1>1, <1>2, <1>4, <1>9, <1>10, <1>11, <1>12, <1>13, WriteStep

\* The table as a save would leave it.
Written(r) ==
  [j \in DOMAIN tbl |->
     IF j = r.key THEN r.form
     ELSE IF j \in r.cleared /\ tbl[j] # None THEN [tbl[j] EXCEPT !.default = FALSE]
     ELSE tbl[j]]

\* One that nothing overtook writes a table that its constraints accept.
LEMMA UnracedIsLawful ==
  ASSUME MastersInvariant, NEW r \in Edits, Working(r), r.at = "before", ~r.raced
  PROVE  Lawful(Written(r))
<1> DEFINE k == r.key
           row == r.form
           new == Written(r)
<1>1. /\ k \in Keys(kind) /\ row \in RowsAt(k) /\ kind \in Kinds /\ DOMAIN tbl = Keys(kind) /\ Lawful(tbl)
      /\ \A j \in Keys(kind) : tbl[j] \in RowsAt(j) \cup {None}
      /\ kind = "price" => ProductPriceForm(k, row)
      /\ kind \notin Children \cup {"price"} => Lawful([tbl EXCEPT ![k] = row])
      /\ kind \notin Children => r.cleared = {}
      /\ r.cleared = Siblings(k, row)
      /\ None \notin RowsAt(k)
  BY RowKinds DEF Working, MastersInvariant, MastersTypes, TableHolds
<1>2. DOMAIN new = Keys(kind) /\ \A j \in Keys(kind) :
        new[j] = IF j = k THEN row
                 ELSE IF j \in r.cleared /\ tbl[j] # None THEN [tbl[j] EXCEPT !.default = FALSE] ELSE tbl[j]
  BY <1>1 DEF Written
<1>3. CASE kind \notin Children \cup {"price"}
  <2>1. new = [tbl EXCEPT ![k] = row]
    BY <1>1, <1>3 DEF Written
  <2> QED BY <1>1, <1>3, <2>1
<1> HIDE DEF k, row, new
<1>4. CASE kind = "price"
  <2>1. \A j \in Keys(kind) : new[j] = IF j = k THEN row ELSE tbl[j]
    BY <1>1, <1>2, <1>4 DEF Children
  <2>2. \A j \in Keys(kind) : RowsAt(j) = ProductPrice
    BY <1>4 DEF RowsAt, Trees, Coded, Parties, Children
  <2>3. \A j \in Keys(kind) : tbl[j] # None /\ j # k => ~(tbl[j].from = row.from /\ tbl[j].min = row.min)
    BY <1>1, <1>4, <2>2, OverlapIsMutual DEF ProductPriceForm, Stored
  <2>4. product_price_unique_point(tbl)
    BY <1>1, <1>4, LawfulSays
  <2>5. product_price_unique_point(new)
    BY <1>1, <1>2, <2>1, <2>3, <2>4 DEF product_price_unique_point, Unique, Every
  <2> QED BY <1>4, <2>5, LawfulSays DEF new
<1>5. CASE kind \in Children
  <2>1. address_one_default(tbl)
    BY <1>1, <1>5, LawfulSays
  <2>2. \A j \in Keys(kind) : tbl[j] # None =>
          /\ tbl[j].default \in BOOLEAN
          /\ [tbl[j] EXCEPT !.default = FALSE].default = FALSE /\ [tbl[j] EXCEPT !.default = FALSE].type = tbl[j].type
          /\ [tbl[j] EXCEPT !.default = FALSE] # None
    <3> TAKE j \in Keys(kind)
    <3>1. ASSUME tbl[j] # None PROVE tbl[j] \in RowsAt(j) /\ None \notin RowsAt(j)
      BY <1>1, <3>1, RowKinds
    <3>2. ASSUME tbl[j] # None PROVE tbl[j].default \in BOOLEAN
      <4>1. RowsAt(j) = Address \/ RowsAt(j) = Contact
        BY <1>5 DEF RowsAt, Coded, Trees, Children, Parties
      <4>2. tbl[j] \in Address \/ tbl[j] \in Contact
        BY <3>1, <3>2, <4>1
      <4> QED BY ONLY <4>2 DEF Address, Contact
    <3> QED BY <1>5, <3>1, <3>2, ClearedRow
  <2>3. \A j \in Keys(kind) : new[j] # None /\ j # k => tbl[j] # None /\ new[j].type = tbl[j].type
                                                         /\ (new[j].default => tbl[j].default)
    BY <1>1, <1>2, <2>2
  <2>4. ASSUME row.default, NEW j \in Keys(kind), j # k, new[j] # None, new[j].type = row.type
        PROVE  ~new[j].default
    <3>1. tbl[j] # None /\ tbl[j].type = row.type
      BY <2>3, <2>4
    <3>2. CASE tbl[j].default
      <4>1. j \in r.cleared
        BY <1>1, <1>5, <2>4, <3>1, <3>2 DEF Siblings, Stored
      <4> QED BY <1>2, <2>2, <2>4, <3>1, <4>1
    <3>3. CASE ~tbl[j].default
      BY <2>3, <2>4, <3>3
    <3> QED BY <3>2, <3>3
  <2>5. address_one_default(new)
    <3>1. SUFFICES ASSUME NEW i \in Keys(kind), NEW j \in Keys(kind), i # j, new[i] # None, new[j] # None,
                          new[i].default, new[j].default, new[i].type = new[j].type
                   PROVE  FALSE
      BY <1>2 DEF address_one_default, Unique
    <3>2. CASE i = k
      BY <1>1, <1>2, <2>4, <3>1, <3>2
    <3>3. CASE j = k
      BY <1>1, <1>2, <2>4, <3>1, <3>3
    <3>4. CASE i # k /\ j # k
      BY <1>1, <2>1, <2>3, <3>1, <3>4 DEF address_one_default, Unique
    <3> QED BY <3>2, <3>3, <3>4
  <2> QED BY <1>5, <2>5, LawfulSays DEF new
<1> QED BY <1>3, <1>4, <1>5

LEMMA SaveKeeps ==
  ASSUME MastersInvariant, NEW c \in Admins, Save(c)
  PROVE  MastersInvariant'
<1>0. PICK r \in Edits : r = req[c] /\ Working(r)
  BY WorkingNow
<1> DEFINE k == r.key
           row == r.form
           new == Written(r)
<1>1. /\ k \in Keys(kind) /\ row \in RowsAt(k) /\ kind \in Kinds /\ r.at = "before" /\ r.raced \in BOOLEAN
      /\ kind \in Coded => Upper(row.code) = row.code
      /\ kind \notin Children => r.cleared = {}
      /\ r.before \in RowsAt(k) \cup {None}
      /\ kind \in Parties /\ r.before # None => tbl[k] # None
      /\ ~r.raced => r.before = tbl[k]
      /\ ~r.raced /\ kind \in Trees => k \notin Upwards(row.parent)
      /\ ~r.raced /\ kind = "price" => ProductPriceForm(k, row)
      /\ None \notin RowsAt(k)
  BY <1>0, RowKinds DEF Save, At, Working, MastersInvariant, MastersTypes, Edits
<1>2. CASE ~Lawful(new)
  <2>1. End(c, "error", FALSE) /\ UNCHANGED <<tbl, told>>
    BY <1>0, <1>2 DEF Save, Written
  <2>2. r.raced
    BY <1>0, <1>1, <1>2, UnracedIsLawful
  <2> QED BY <1>0, <2>1, <2>2, EndStep DEF Done
<1>3. CASE Lawful(new)
  <2>1. /\ tbl' = new /\ End(c, "saved", TRUE)
        /\ told' = IF r.before = None THEN [told EXCEPT ![k] = row]
                   ELSE IF told[k] = None THEN told
                   ELSE [told EXCEPT ![k] = Told(@, r.before, row)]
    BY <1>0, <1>3 DEF Save, Written, record_create, record_update
  <2>2. /\ DOMAIN tbl = Keys(kind) /\ DOMAIN told = Keys(kind) /\ Lawful(tbl)
        /\ \A j \in Keys(kind) : tbl[j] \in RowsAt(j) \cup {None}
        /\ kind \in FixedTables => \A j \in Keys(kind) : tbl[j] # None
        /\ \A j \in Keys(kind) : told[j] # None \/ (kind \in Parties /\ tbl[j] # None)
                                 => \E s \in RowsAt(j) : DOMAIN told[j] = DOMAIN s
        /\ kind \in Coded => \A j \in Stored : Upper(tbl[j].code) = tbl[j].code
    BY DEF MastersInvariant, MastersTypes, TableHolds
  <2>3. DOMAIN new = Keys(kind) /\ \A j \in Keys(kind) :
          new[j] = IF j = k THEN row
                   ELSE IF j \in r.cleared /\ tbl[j] # None THEN [tbl[j] EXCEPT !.default = FALSE] ELSE tbl[j]
    BY <2>2 DEF Written
  <2>4. tbl' = [j \in Keys(kind) |-> tbl'[j]] /\ told' = [j \in Keys(kind) |-> told'[j]]
    <3>1. told = [j \in Keys(kind) |-> told[j]]
      BY DEF MastersInvariant, MastersTypes
    <3>2. tbl' = [j \in Keys(kind) |-> tbl'[j]]
      BY <2>1, <2>2 DEF Written
    <3> HIDE DEF k, row, new
    <3>3. \A v : [told EXCEPT ![k] = v] = [j \in Keys(kind) |-> [told EXCEPT ![k] = v][j]]
      BY <2>2
    <3>4. CASE r.before = None
      BY <2>1, <3>2, <3>3, <3>4
    <3>5. CASE r.before # None /\ told[k] = None
      BY <2>1, <3>1, <3>2, <3>5
    <3>6. CASE r.before # None /\ told[k] # None
      BY <2>1, <3>2, <3>3, <3>6
    <3> QED BY <3>4, <3>5, <3>6
  <2>5. UNCHANGED kind
    BY <2>1 DEF End
  <2>n. kind \notin Children => \A j \in Keys(kind) : new[j] = IF j = k THEN row ELSE tbl[j]
    BY <1>1, <2>3
  <2> HIDE DEF k, row, new
  <2>6. \A j \in Keys(kind) : (new[j] \in RowsAt(j) \cup {None}) /\ (tbl[j] # None => new[j] # None)
    <3> TAKE j \in Keys(kind)
    <3>1. CASE j = k
      BY <1>1, <2>3, <3>1
    <3>2. CASE j # k /\ j \in r.cleared /\ tbl[j] # None
      <4>1. kind \in Children
        BY <1>1, <3>2
      <4>2. [tbl[j] EXCEPT !.default = FALSE] \in RowsAt(j) /\ None \notin RowsAt(j)
        BY <1>1, <2>2, <3>2, <4>1, ClearedRow, RowKinds
      <4> QED BY <2>3, <3>2, <4>2
    <3>3. CASE j # k /\ ~(j \in r.cleared /\ tbl[j] # None)
      BY <2>2, <2>3, <3>3
    <3> QED BY <3>1, <3>2, <3>3
  <2>7. kind \in FixedTables => \A j \in Keys(kind) : new[j] # None
    BY <2>2, <2>6
  <2>8. \A j \in Keys(kind) : told'[j] # None \/ (kind \in Parties /\ new[j] # None)
                               => \E s \in RowsAt(j) : DOMAIN told'[j] = DOMAIN s
    <3> TAKE j \in Keys(kind)
    <3>1. CASE j # k
      <4>1. told'[j] = told[j]
        BY <2>1, <2>2, <3>1
      <4>2. kind \in Parties => new[j] = tbl[j]
        BY <2>n, <3>1 DEF Parties, Children
      <4> QED BY <2>2, <4>1, <4>2
    <3>2. CASE j = k /\ r.before = None
      <4>1. told'[j] = row
        BY <2>1, <2>2, <3>2
      <4> QED BY <1>1, <3>2, <4>1
    <3>3. CASE j = k /\ r.before # None /\ told[k] = None
      BY <1>1, <2>1, <2>2, <3>3
    <3>4. CASE j = k /\ r.before # None /\ told[k] # None
      <4>1. told'[k] = Told(told[k], r.before, row)
        BY <2>1, <2>2, <3>4
      <4>2. DOMAIN told'[k] = DOMAIN told[k]
        BY <4>1 DEF Told
      <4> QED BY <1>1, <2>2, <3>4, <4>2
    <3> QED BY <3>1, <3>2, <3>3, <3>4
  <2>9. TableHolds'
    <3>1. Lawful(tbl)'
      BY <1>3, <2>1, <2>5 DEF Lawful
    <3>2. ASSUME kind \in Coded, NEW j \in Keys(kind), new[j] # None PROVE Upper(new[j].code) = new[j].code
      <4>1. new[j] = IF j = k THEN row ELSE tbl[j]
        BY <2>n, <3>2 DEF Coded, Children
      <4>2. CASE j = k
        BY <1>1, <3>2, <4>1, <4>2
      <4>3. CASE j # k
        BY <2>2, <3>2, <4>1, <4>3 DEF Stored
      <4> QED BY <4>2, <4>3
    <3> QED BY <2>1, <2>3, <2>5, <3>1, <3>2 DEF TableHolds, Stored
  <2>10. ASSUME ~overtaken, ~r.raced PROVE (NoneAboveItself /\ NoTwoPrices /\ TrailTellsTheTable)'
    <3>0. NoneAboveItself /\ NoTwoPrices /\ TrailTellsTheTable
      BY <2>10 DEF MastersInvariant, InTurn
    <3>1. NoneAboveItself'
      <4>1. CASE kind \notin Trees
        BY <2>5, <4>1 DEF NoneAboveItself
      <4>2. CASE kind \in Trees
        <5>1. Keys(kind) = Nodes /\ kind \notin Children
          BY <4>2 DEF Trees, Keys, Children
        <5>2. tbl' = [tbl EXCEPT ![k] = row]
          BY <1>1, <2>1, <2>2, <2>3, <2>4, <2>n, <5>1
        <5>3. \A j \in Nodes : \A s \in RowsAt(j) : s.parent \in Nodes \cup {None}
          <6>1. CASE kind = "account"
            BY <6>1 DEF RowsAt, Account, Trees, Coded, Parties, Children
          <6>2. CASE kind = "category"
            BY <6>2 DEF RowsAt, ProductCategory, Trees, Coded, Parties, Children
          <6>3. CASE kind = "unit"
            BY <6>3 DEF RowsAt, UnitOfMeasure, Trees, Coded, Parties, Children
          <6> QED BY <4>2, <6>1, <6>2, <6>3 DEF Trees
        <5>4. \A j \in Nodes : tbl[j] \in RowsAt(j)
          BY <2>2, <4>2, <5>1 DEF FixedTables
        <5> QED BY <1>1, <2>2, <2>5, <2>10, <3>0, <4>2, <5>1, <5>2, <5>3, <5>4, TreeGrows
      <4> QED BY <4>1, <4>2
    <3>2. NoTwoPrices'
      <4>1. CASE kind # "price"
        BY <2>5, <4>1 DEF NoTwoPrices
      <4>2. CASE kind = "price"
        <5>1. \A j \in Keys(kind) : RowsAt(j) = ProductPrice
          BY <4>2 DEF RowsAt, Trees, Coded, Parties, Children
        <5>2. \A j \in Keys(kind) : new[j] = IF j = k THEN row ELSE tbl[j]
          BY <2>n, <4>2 DEF Children
        <5>3. \A j \in Keys(kind) : j # k /\ tbl[j] # None /\ tbl[j].min = row.min =>
                                      ~Overlaps(tbl[j], row) /\ ~Overlaps(row, tbl[j])
          BY <1>1, <2>2, <2>10, <4>2, <5>1, OverlapIsMutual DEF ProductPriceForm, Stored
        <5>4. \A i, j \in Keys(kind) : new[i] # None /\ new[j] # None /\ new[i].min = new[j].min
                                       /\ Overlaps(new[i], new[j]) => i = j
          BY <2>2, <3>0, <4>2, <5>2, <5>3 DEF NoTwoPrices, Stored
        <5> QED BY <2>1, <2>3, <5>4 DEF NoTwoPrices, Stored
      <4> QED BY <4>1, <4>2
    <3>3. TrailTellsTheTable'
      <4>1. SUFFICES ASSUME kind \notin Children PROVE told' = tbl' \/ kind = "series"
        BY <2>5 DEF TrailTellsTheTable
      <4>2. CASE kind # "series"
        <5>1. told = tbl
          BY <2>10, <3>0, <4>1, <4>2 DEF TrailTellsTheTable
        <5>2. \A j \in Keys(kind) : new[j] = IF j = k THEN row ELSE tbl[j]
          BY <2>n, <4>1
        <5>3. told'[k] = row
          <6>1. CASE tbl[k] = None
            BY <1>1, <2>1, <2>2, <2>10, <6>1
          <6>2. CASE tbl[k] # None
            <7>1. told'[k] = Told(tbl[k], tbl[k], row)
              BY <1>1, <2>1, <2>2, <2>10, <5>1, <6>2
            <7> QED BY <1>1, <2>2, <6>2, <7>1, RowsAreAlike
          <6> QED BY <6>1, <6>2
        <5>4. \A j \in Keys(kind) : told'[j] = tbl'[j]
          <6> TAKE j \in Keys(kind)
          <6>1. j # k => told'[j] = told[j]
            BY <2>1, <2>2
          <6> QED BY <2>1, <5>1, <5>2, <5>3, <6>1
        <5> QED BY <2>4, <5>4
      <4> QED BY <4>2
    <3> QED BY <3>1, <3>2, <3>3
  <2> QED BY <1>0, <2>1, <2>4, <2>6, <2>7, <2>8, <2>9, <2>10, WriteStep
<1> QED BY <1>2, <1>3

LEMMA DrawKeeps ==
  ASSUME MastersInvariant, Draw
  PROVE  MastersInvariant' /\ tbl'[One].next > tbl[One].next
<1>1. /\ kind = "series" /\ tbl[One].next <= MaxNumber /\ posted' = posted \cup {tbl[One].next}
      /\ tbl' = [tbl EXCEPT ![One].next = @ + 1]
      /\ UNCHANGED <<kind, told, overtaken, turns>>
  BY DEF Draw, Used
<1>2. Keys(kind) = {One} /\ kind \in FixedTables /\ kind \notin Trees \cup Coded \cup Parties \cup Children
  BY <1>1 DEF Keys, FixedTables, Trees, Coded, Parties, Children
<1>3. \A k : RowsAt(k) = DocumentSequence
  BY <1>1 DEF RowsAt, Trees, Coded, Parties, Children
<1>4. /\ tbl = [k \in {One} |-> tbl[k]] /\ tbl[One] \in DocumentSequence /\ req \in [Admins -> Edits]
      /\ posted \subseteq Nodes \cup 1 .. MaxNumber /\ kind \in Kinds /\ InTurn
      /\ told = [k \in {One} |-> told[k]]
      /\ told[One] # None => \E row \in DocumentSequence : DOMAIN told[One] = DOMAIN row
      /\ overtaken \in BOOLEAN /\ turns \in 0 .. MaxRequests
  BY <1>2, <1>3 DEF MastersInvariant, MastersTypes
<1>5. tbl[One].next \in 1 .. MaxNumber /\ [tbl[One] EXCEPT !.next = @ + 1] \in DocumentSequence
  <2>1. tbl[One].next \in 1 .. MaxNumber + 1
    BY <1>4 DEF DocumentSequence
  <2>2. tbl[One].next \in 1 .. MaxNumber /\ tbl[One].next + 1 \in 1 .. MaxNumber + 1
    BY <1>1, <2>1, MastersAssumption
  <2> QED BY <1>4, <2>2 DEF DocumentSequence
<1>6. /\ tbl' = [k \in {One} |-> tbl'[k]] /\ tbl'[One] \in DocumentSequence
      /\ tbl'[One].next = tbl[One].next + 1
  BY <1>1, <1>4, <1>5 DEF DocumentSequence
<1>7. \A k : RowsAt(k)' = RowsAt(k)
  BY <1>1, KindStays
<1>8. \A k : None \notin RowsAt(k)
  BY <1>4, RowKinds
<1>9. /\ req' \in [Admins -> Edits] /\ \A d \in Admins : req'[d].at = req[d].at
      /\ \A d \in Admins : req'[d] = IF req[d].at \in {"loaded", "valid", "before"}
                                     THEN [req[d] EXCEPT !.raced = TRUE] ELSE req[d]
  <2>1. \A d \in Admins : req'[d] = IF req[d].at \in {"loaded", "valid", "before"}
                                    THEN [req[d] EXCEPT !.raced = TRUE] ELSE req[d]
    BY DEF Draw, At
  <2>2. \A r \in Edits : [r EXCEPT !.raced = TRUE] \in Edits /\ [r EXCEPT !.raced = TRUE].at = r.at
    BY DEF Edits
  <2>3. DOMAIN req' = Admins /\ req' = [d \in Admins |-> req'[d]]
    BY DEF Draw
  <2>4. \A d \in Admins : req'[d] \in Edits /\ req'[d].at = req[d].at
    BY <1>4, <2>1, <2>2
  <2>5. req' \in [Admins -> Edits]
    BY <2>3, <2>4
  <2> QED BY <2>1, <2>4, <2>5
<1>10. MastersTypes'
  <2>1. Keys(kind)' = {One} /\ tbl' = [k \in Keys(kind)' |-> tbl'[k]] /\ told' = [k \in Keys(kind)' |-> told'[k]]
    BY <1>1, <1>2, <1>4, <1>6
  <2>2. \A k \in Keys(kind)' : tbl'[k] \in RowsAt(k)' /\ tbl'[k] # None
    BY <1>3, <1>6, <1>7, <1>8, <2>1
  <2>3. \A k \in Keys(kind)' : told'[k] # None => \E row \in RowsAt(k)' : DOMAIN told'[k] = DOMAIN row
    BY <1>1, <1>3, <1>4, <1>7, <2>1
  <2>4. posted' \subseteq Nodes \cup 1 .. MaxNumber
    BY <1>1, <1>4, <1>5
  <2> QED BY <1>1, <1>2, <1>4, <1>9, <2>1, <2>2, <2>3, <2>4 DEF MastersTypes
<1>11. \A d \in Admins : \E r \in Edits : req'[d] = r /\ Working(r)'
  <2> TAKE d \in Admins
  <2>1. PICK r \in Edits : r = req[d] /\ Working(r)
    BY WorkingNow
  <2>2. CASE r.at \in {"loaded", "valid", "before"}
    <3>1. Working([r EXCEPT !.raced = TRUE])' /\ [r EXCEPT !.raced = TRUE] \in Edits
      BY <1>1, <1>2, <1>4, <2>1, OvertakenWorking, RacedWorking
    <3> QED BY <1>9, <2>1, <2>2, <3>1
  <2>3. CASE r.at \notin {"loaded", "valid", "before"}
    <3>1. Working(r)'
      BY <1>1, <1>2, <2>1, <2>3 DEF Working
    <3> QED BY <1>9, <2>1, <2>3, <3>1
  <2> QED BY <2>2, <2>3
<1>12. AllWorking'
  <2>1. ASSUME NEW d \in Admins, NEW r \in Edits, req'[d] = r PROVE Working(r)'
    BY <1>11, <2>1
  <2> QED BY <2>1 DEF AllWorking
<1>13. TableHolds'
  BY <1>1, <1>2 DEF TableHolds, Lawful
<1>14. InTurn'
  BY <1>1, <1>2, <1>4, <1>9 DEF InTurn, NoneAboveItself, NoTwoPrices, TrailTellsTheTable, At
<1>15. tbl[One].next + 1 > tbl[One].next
  BY <1>5
<1> QED BY <1>6, <1>10, <1>12, <1>13, <1>14, <1>15 DEF MastersInvariant

LEMMA StepKeeps ==
  ASSUME MastersInvariant, [MastersNext]_mastersVars PROVE MastersInvariant'
BY LoadKeeps, CleanKeeps, BeforeKeeps, SaveKeeps, DeleteKeeps, PressKeeps, DeactivateKeeps,
   UseKeeps, DrawKeeps DEF MastersNext

LEMMA SpecHolds == MastersSpec => []MastersInvariant
BY InitHolds, StepKeeps, PTL DEF MastersSpec

-----------------------------------------------------------------------------
(* What follows.                                                           *)

LEMMA InvariantIsSound ==
  ASSUME MastersInvariant PROVE MastersAreSound
<1>1. TypeOK
  <2>1. \A c \in Admins : req[c].at \in Stages /\ req[c].key \in Keys(kind) \cup {None}
    <3> TAKE c \in Admins
    <3>1. req[c] \in Edits /\ Working(req[c])
      BY WorkingNow
    <3> QED BY <3>1 DEF Edits, Working, Stages
  <2> QED BY <2>1 DEF TypeOK, MastersInvariant, MastersTypes
<1>2. TreesHaveRoots /\ TrailTellsTheTable /\ FormsSpeakFirst
  BY DEF MastersInvariant, InTurn, TreesHaveRoots, TrailTellsTheTable, FormsSpeakFirst
<1>3. /\ DOMAIN tbl = Keys(kind) /\ Lawful(tbl)
      /\ \A k \in Keys(kind) : tbl[k] \in RowsAt(k) \cup {None}
      /\ kind \in Coded => \A k \in Stored : Upper(tbl[k].code) = tbl[k].code
  BY DEF MastersInvariant, MastersTypes, TableHolds
<1>4. OnePricePerDay
  <2>1. SUFFICES ASSUME ~overtaken, kind = "price", NEW day \in 1 .. Days, NEW quantity \in {0, 10}
                 PROVE  Cardinality({k \in price_for(day, quantity) : tbl[k].min = quantity}) <= 1
    BY DEF OnePricePerDay, Unambiguous
  <2> DEFINE S == {k \in price_for(day, quantity) : tbl[k].min = quantity}
  <2>2. NoTwoPrices
    BY <2>1 DEF MastersInvariant, InTurn
  <2>3. ASSUME NEW j \in S, NEW k \in S PROVE j = k
    <3>1. /\ j \in Stored /\ k \in Stored /\ tbl[j].min = tbl[k].min /\ tbl[j].from <= day /\ tbl[k].from <= day
          /\ tbl[j].to = None \/ tbl[j].to >= day
          /\ tbl[k].to = None \/ tbl[k].to >= day
      BY DEF price_for
    <3>2. tbl[j] \in ProductPrice /\ tbl[k] \in ProductPrice
      <4>1. RowsAt(j) = ProductPrice /\ RowsAt(k) = ProductPrice
        BY <2>1 DEF RowsAt, Trees, Coded, Parties, Children
      <4> QED BY <1>3, <3>1, <4>1 DEF Stored
    <3>3. /\ tbl[j].from \in Nat /\ tbl[k].from \in Nat
          /\ tbl[j].to # None => tbl[j].to \in Nat
          /\ tbl[k].to # None => tbl[k].to \in Nat
      BY <3>2 DEF ProductPrice
    <3>4. Overlaps(tbl[j], tbl[k])
      BY <3>1, <3>3 DEF Overlaps
    <3> QED BY <2>1, <2>2, <3>1, <3>4 DEF NoTwoPrices
  <2> HIDE DEF S
  <2>4. ASSUME S = {} PROVE Cardinality(S) <= 1
    BY <2>4, FS_EmptySet
  <2>5. ASSUME S # {} PROVE Cardinality(S) <= 1
    <3>1. PICK k : S = {k}
      BY <2>3, <2>5
    <3>2. Cardinality(S) = 1
      BY <3>1, FS_Singleton
    <3> QED BY <3>2
  <2>6. Cardinality(S) <= 1
    BY <2>4, <2>5
  <2> QED BY <2>6 DEF S
<1>5. NoTwinCodes
  <2>1. CASE kind \in Coded
    <3>1. code_unique(tbl)
      BY <1>3, <2>1, LawfulSays
    <3> QED BY <1>3, <2>1, <3>1 DEF NoTwinCodes, code_unique, customer_code_unique_ci, Unique, Stored, Every
  <2>2. CASE kind \in Parties
    BY <1>3, <2>2, LawfulSays DEF NoTwinCodes
  <2> QED BY <2>1, <2>2 DEF NoTwinCodes
<1> QED BY <1>1, <1>2, <1>4, <1>5 DEF MastersAreSound

\* The masters keep what the documents rely on: src/apps/core/mixins.py saves every row
\* the same way, and none of its requests, however they overtake each other, breaks
\* the constraints; one at a time they keep trees, prices and the audit trail too.
THEOREM MastersAlwaysSound == MastersSpec => []MastersAreSound
BY SpecHolds, InvariantIsSound, PTL

\* The counter of a number series goes down only by an edit whose page was loaded
\* before the counter rose, and never below the number that page was loaded with:
\* the form compares with the row as it was loaded.
THEOREM CounterFallsOnlyByStaleEdits == MastersSpec => OnlyStaleEditsLowerCounter
<1>1. ASSUME MastersInvariant, [MastersNext]_mastersVars,
             kind = "series", tbl'[One].next < tbl[One].next
      PROVE  \E c \in Admins : /\ At(c, "before") /\ req'[c].at = "saved"
                               /\ req[c].inst.next < tbl[One].next
                               /\ req[c].inst.next <= tbl'[One].next
  <2>1. kind = "series" /\ tbl'[One].next < tbl[One].next
    BY <1>1
  <2>2. Keys(kind) = {One} /\ kind \notin Parties \cup Children \cup {"price"} /\ kind \in Kinds
        /\ DOMAIN tbl = {One} /\ tbl[One] \in DocumentSequence
    <3>1. Keys(kind) = {One} /\ kind \notin Parties \cup Children \cup {"price"} /\ kind \in FixedTables
      BY <2>1 DEF Keys, Parties, Children, FixedTables
    <3>2. RowsAt(One) = DocumentSequence
      BY <2>1 DEF RowsAt, Trees, Coded, Parties, Children
    <3> QED BY <1>1, <3>1, <3>2 DEF MastersInvariant, MastersTypes
  <2>3. tbl[One].next \in Nat
    BY <2>2 DEF DocumentSequence
  <2>4. ~UNCHANGED tbl
    BY <2>1, <2>3
  <2>5. ASSUME Draw
        PROVE  FALSE
    <3>1. tbl'[One].next = tbl[One].next + 1
      BY <2>2, <2>5 DEF Draw, DocumentSequence
    <3> QED BY <2>1, <2>3, <3>1
  <2>6. ASSUME NEW c \in Admins, Save(c)
        PROVE  /\ At(c, "before") /\ req'[c].at = "saved"
               /\ req[c].inst.next < tbl[One].next
               /\ req[c].inst.next <= tbl'[One].next
    <3>1. PICK r \in Edits : r = req[c] /\ Working(r)
      BY <1>1, WorkingNow
    <3>2. r.at = "before" /\ tbl' = Written(r) /\ End(c, "saved", TRUE)
      BY <2>4, <2>6, <3>1 DEF Save, At, Written
    <3>3. r.key = One /\ r.cleared = {} /\ r.form.next >= r.inst.next /\ r.inst # None
      BY <2>1, <2>2, <3>1, <3>2 DEF Working, FixedTables
    <3>4. tbl'[One] = r.form
      BY <2>2, <3>2, <3>3 DEF Written
    <3>5. r.form \in DocumentSequence /\ r.inst \in DocumentSequence
      BY <2>1, <3>1, <3>2, <3>3 DEF Working, RowsAt, Trees, Coded, Parties, Children
    <3>6. r.form.next \in Nat /\ r.inst.next \in Nat
      BY <3>5 DEF DocumentSequence
    <3>7. req'[c].at = "saved"
      <4>1. req'[c] = [NoEdit EXCEPT !.at = "saved"]
        BY <3>2 DEF End
      <4> QED BY <4>1 DEF NoEdit
    <3>8. r.inst.next <= tbl'[One].next /\ r.inst.next < tbl[One].next
      BY <2>1, <2>3, <3>3, <3>4, <3>6
    <3> QED BY <3>1, <3>2, <3>7, <3>8 DEF At
  <2>7. ASSUME NEW c \in Admins, Delete(c) \/ DeactivateView(c) PROVE FALSE
    <3>1. Working(req[c])
      BY <1>1, WorkingNow
    <3> QED BY <2>2, <2>7, <3>1 DEF Delete, DeactivateView, At, Working
  <2>8. ASSUME NEW c \in Admins, Load(c) \/ Clean(c) \/ Before(c) \/ LoadToDelete(c) \/ OpenPartyPage(c) \/ Press(c)
        PROVE  UNCHANGED tbl
    <3>0. \A r : Begin(c, r) => tbl' = tbl
      BY DEF Begin
    <3>1. CASE Load(c)
      <4>1. \E k \in DOMAIN tbl : \E form \in RowsAt(k) :
              Begin(c, [NoEdit EXCEPT !.at = "loaded", !.key = k, !.inst = tbl[k], !.form = form])
        BY ONLY <3>1, Zenon DEF Load
      <4> QED BY ONLY <3>0, <4>1, Zenon
    <3>2. CASE LoadToDelete(c) \/ OpenPartyPage(c)
      BY ONLY <3>0, <3>2, Zenon DEF LoadToDelete, OpenPartyPage
    <3>3. CASE Clean(c) \/ Before(c)
      BY <3>3 DEF Clean, Before, Move
    <3>4. CASE Press(c)
      BY <3>4 DEF Press, Move
    <3> QED BY <2>8, <3>1, <3>2, <3>3, <3>4
  <2>9. PICK c \in Admins : Save(c)
    BY <1>1, <2>4, <2>5, <2>7, <2>8 DEF MastersNext, PostLine, PostEntry, mastersVars
  <2> QED BY <2>6, <2>9
<1>2. MastersInvariant /\ [MastersNext]_mastersVars =>
        [kind = "series" /\ tbl'[One].next < tbl[One].next =>
           \E c \in Admins : /\ At(c, "before") /\ req'[c].at = "saved"
                             /\ req[c].inst.next < tbl[One].next
                             /\ req[c].inst.next <= tbl'[One].next]_mastersVars
  BY <1>1
<1> QED BY <1>2, SpecHolds, PTL DEF MastersSpec, OnlyStaleEditsLowerCounter

-----------------------------------------------------------------------------
(***************************************************************************)
(* Proofs about PostingEngine, for any requests, documents and periods.    *)
(***************************************************************************)

USE DEF Periods

Places == Ended \cup {"start", "lookup", "period", "number", "insert", "inserted",
                      "relookup"}
Changes == [step : {"locked", "checked"}, op : {"close", "reopen"}, period : Periods]

\* The rows and programs that say who has a period locked.
CalendarOK ==
  /\ status \in [Periods -> {"OPEN", "CLOSED"}]
  /\ periodLock \in [Periods -> Requests \cup Closers \cup {Nobody}]
  /\ closer \in [Closers -> {Idle} \cup Changes]
  /\ pc \in [Requests -> Places]

\* Whoever is changing a period has its row locked.
ClosersHold ==
  \A c \in Closers : closer[c].step # "idle" => periodLock[closer[c].period] = c

\* From the moment it has found its period open, an engine request has the row
\* locked, and so the period stays open.
EnginesHold ==
  \A r \in Requests \ Direct :
    pc[r] \in {"number", "insert", "inserted"} =>
      /\ periodLock[EntryPeriod[r]] = r
      /\ status[EntryPeriod[r]] = "OPEN"

CalendarInv == CalendarOK /\ ClosersHold /\ EnginesHold

LEMMA CalendarInit == PostInit => CalendarInv
BY RequestAssumption, PeriodAssumption
   DEF PostInit, PeriodInit, CalendarInv, CalendarOK, ClosersHold, EnginesHold, Idle,
       Places, Ended

\* A transaction that ends leaves everybody else's locks alone.
LEMMA ReleaseKeeps ==
  ASSUME CalendarInv, NEW r \in Requests, NEW end \in Ended,
         Release(r), pc' = [pc EXCEPT ![r] = end], UNCHANGED <<status, closer>>
  PROVE  CalendarInv'
<1>1. periodLock' = [p \in Periods |-> IF periodLock[p] = r THEN Nobody ELSE periodLock[p]]
  BY DEF Release
<1>2. CalendarOK'
  BY <1>1 DEF CalendarInv, CalendarOK, Places
<1>3. ClosersHold'
  <2> SUFFICES ASSUME NEW c \in Closers, closer[c].step # "idle"
               PROVE  periodLock'[closer[c].period] = c
    BY DEF ClosersHold
  <2>1. closer[c].period \in Periods
    BY DEF CalendarInv, CalendarOK, Changes, Idle
  <2>2. c # r
    BY RequestAssumption
  <2> QED BY <1>1, <2>1, <2>2 DEF CalendarInv, ClosersHold
<1>4. EnginesHold'
  <2> SUFFICES ASSUME NEW o \in Requests \ Direct,
                      pc'[o] \in {"number", "insert", "inserted"}
               PROVE  periodLock'[EntryPeriod[o]] = o /\ status[EntryPeriod[o]] = "OPEN"
    BY DEF EnginesHold
  <2>1. o # r /\ pc[o] = pc'[o]
    BY DEF CalendarInv, CalendarOK, Ended
  <2>2. EntryPeriod[o] \in Periods
    BY RequestAssumption
  <2> QED BY <1>1, <2>1, <2>2 DEF CalendarInv, EnginesHold
<1> QED BY <1>2, <1>3, <1>4 DEF CalendarInv

LEMMA FailKeeps ==
  ASSUME CalendarInv, NEW r \in Requests, Fail(r)
  PROVE  CalendarInv'
BY ReleaseKeeps DEF Fail, Ended

\* So does a step that only moves the request on, unless it makes an engine
\* request rely on a period.
LEMMA MoveKeeps ==
  ASSUME CalendarInv, NEW r \in Requests, NEW place \in Places,
         Goto(r, place), UNCHANGED periodLock,
         \/ r \in Direct
         \/ place \in {"lookup", "period", "relookup"}
         \/ pc[r] \in {"number", "insert", "inserted"}
  PROVE  CalendarInv'
<1>1. CalendarOK'
  BY DEF CalendarInv, CalendarOK, Goto
<1>2. ClosersHold'
  BY DEF CalendarInv, ClosersHold, Goto
<1>3. EnginesHold'
  BY DEF CalendarInv, CalendarOK, EnginesHold, Goto
<1> QED BY <1>1, <1>2, <1>3 DEF CalendarInv

LEMMA LockPeriodKeeps ==
  ASSUME CalendarInv, NEW r \in Requests, LockPeriod(r)
  PROVE  CalendarInv'
<1>1. EntryPeriod[r] \in Periods
  BY RequestAssumption
<1>2. CalendarOK'
  BY <1>1 DEF CalendarInv, CalendarOK, LockPeriod, Goto, Places
<1>3. ClosersHold'
  <2> SUFFICES ASSUME NEW c \in Closers, closer[c].step # "idle"
               PROVE  periodLock'[closer[c].period] = c
    BY DEF ClosersHold, LockPeriod, Goto
  <2>1. closer[c].period \in Periods /\ c # Nobody
    BY PeriodAssumption DEF CalendarInv, CalendarOK, Changes, Idle
  <2>2. periodLock[closer[c].period] = c
    BY DEF CalendarInv, ClosersHold
  <2> QED BY <2>1, <2>2 DEF LockPeriod, CalendarInv, CalendarOK
<1>4. EnginesHold'
  <2> SUFFICES ASSUME NEW o \in Requests \ Direct,
                      pc'[o] \in {"number", "insert", "inserted"}
               PROVE  periodLock'[EntryPeriod[o]] = o /\ status'[EntryPeriod[o]] = "OPEN"
    BY DEF EnginesHold
  <2>1. EntryPeriod[o] \in Periods /\ o # Nobody
    BY RequestAssumption
  <2>2. CASE o = r
    BY <2>2, <1>1 DEF LockPeriod, Goto, CalendarInv, CalendarOK
  <2>3. CASE o # r
    <3>1. periodLock[EntryPeriod[o]] = o /\ status[EntryPeriod[o]] = "OPEN"
      BY <2>3 DEF LockPeriod, Goto, CalendarInv, CalendarOK, EnginesHold
    <3> QED BY <2>1, <3>1 DEF LockPeriod, Goto, CalendarInv, CalendarOK
  <2> QED BY <2>2, <2>3
<1> QED BY <1>2, <1>3, <1>4 DEF CalendarInv

LEMMA FindPostedKeeps ==
  ASSUME CalendarInv, NEW r \in Requests, FindPosted(r)
  PROVE  CalendarInv'
<1> PICK e \in Posted(r) :
      \/ Fail(r)
      \/ /\ pc' = [pc EXCEPT ![r] = "done"]
         /\ Release(r)
         /\ UNCHANGED <<status, closer>>
  BY DEF FindPosted
<1> QED BY FailKeeps, ReleaseKeeps DEF Ended

LEMMA RequestKeeps ==
  ASSUME CalendarInv, NEW r \in Requests, Step(r) \/ RefuseDraft(r) \/ Abort(r)
  PROVE  CalendarInv'
<1>1. CASE LockSource(r)
  BY <1>1, MoveKeeps DEF LockSource, Places
<1>2. CASE Lookup(r)
  BY <1>2, MoveKeeps, FindPostedKeeps DEF Lookup, Places
<1>3. CASE LockPeriod(r)
  BY <1>3, LockPeriodKeeps
<1>4. CASE RefuseClosed(r) \/ RefuseDraft(r) \/ Abort(r)
  BY <1>4, FailKeeps DEF RefuseClosed, RefuseDraft, Abort
<1>5. CASE ReadDraft(r)
  BY <1>5, MoveKeeps, FailKeeps DEF ReadDraft, Places
<1>6. CASE ReadPeriod(r)
  BY <1>6, MoveKeeps DEF ReadPeriod, Places
<1>7. CASE TakeNumber(r)
  BY <1>7, MoveKeeps DEF TakeNumber, Places
<1>8. CASE Insert(r)
  BY <1>8, MoveKeeps DEF Insert, Places
<1>9. CASE InsertRejected(r)
  BY <1>9, MoveKeeps, FailKeeps DEF InsertRejected, Places
<1>10. CASE LookupAgain(r)
  BY <1>10, FindPostedKeeps, FailKeeps DEF LookupAgain
<1>11. CASE Commit(r)
  BY <1>11, ReleaseKeeps DEF Commit, Ended
<1> QED BY <1>1, <1>2, <1>3, <1>4, <1>5, <1>6, <1>7, <1>8, <1>9, <1>10, <1>11 DEF Step

\* A change of the calendar touches only the period its user has locked.
LEMMA CloserKeeps ==
  ASSUME CalendarInv, NEW c \in Closers, UNCHANGED pc,
         \/ \E op \in {"close", "reopen"}, p \in Periods : LockOwnPeriod(c, op, p)
         \/ CheckCalendar(c) \/ RefuseChange(c) \/ CommitChange(c)
  PROVE  CalendarInv'
<1>t. /\ c \notin Requests /\ c # Nobody /\ Nobody \notin Requests
      /\ \A r \in Requests : EntryPeriod[r] \in Periods
  BY RequestAssumption, PeriodAssumption
<1>1. CASE \E op \in {"close", "reopen"}, p \in Periods : LockOwnPeriod(c, op, p)
  <2> PICK op \in {"close", "reopen"}, p \in Periods : LockOwnPeriod(c, op, p)
    BY <1>1
  <2>1. CalendarOK'
    BY DEF CalendarInv, CalendarOK, LockOwnPeriod, Changes
  <2>2. ClosersHold'
    BY PeriodAssumption DEF CalendarInv, CalendarOK, ClosersHold, LockOwnPeriod, Changes, Idle
  <2>3. EnginesHold'
    BY <1>t DEF CalendarInv, CalendarOK, EnginesHold, LockOwnPeriod
  <2> QED BY <2>1, <2>2, <2>3 DEF CalendarInv
<1>2. CASE CheckCalendar(c)
  <2>1. CalendarOK'
    BY <1>2 DEF CalendarInv, CalendarOK, CheckCalendar, Changes, Idle
  <2>2. ClosersHold'
    BY <1>2 DEF CalendarInv, CalendarOK, ClosersHold, CheckCalendar, Changes, Idle
  <2>3. EnginesHold'
    BY <1>2 DEF CalendarInv, EnginesHold, CheckCalendar
  <2> QED BY <2>1, <2>2, <2>3 DEF CalendarInv
<1>3. CASE RefuseChange(c) \/ CommitChange(c)
  <2> DEFINE p == closer[c].period
  <2>1. /\ closer[c] \in Changes
        /\ p \in Periods
        /\ periodLock[p] = c
    BY <1>3 DEF CalendarInv, CalendarOK, ClosersHold, RefuseChange, CommitChange, Changes, Idle
  <2>2. /\ closer' = [closer EXCEPT ![c] = Idle]
        /\ periodLock' = [periodLock EXCEPT ![p] = Nobody]
        /\ status' \in [Periods -> {"OPEN", "CLOSED"}]
        /\ \A q \in Periods \ {p} : status'[q] = status[q]
    BY <1>3, <2>1 DEF CalendarInv, CalendarOK, RefuseChange, CommitChange
  <2> HIDE DEF p
  <2>3. CalendarOK'
    BY <2>1, <2>2 DEF CalendarInv, CalendarOK
  <2>4. ClosersHold'
    <3> SUFFICES ASSUME NEW d \in Closers, closer'[d].step # "idle"
                 PROVE  periodLock'[closer'[d].period] = d
      BY DEF ClosersHold
    <3>1. d # c /\ closer'[d] = closer[d]
      BY <2>2 DEF CalendarInv, CalendarOK, Idle
    <3>2. closer[d].period \in Periods /\ periodLock[closer[d].period] = d
      BY <3>1 DEF CalendarInv, CalendarOK, ClosersHold, Changes, Idle
    <3>3. closer[d].period # p
      BY <2>1, <3>1, <3>2
    <3> QED BY <2>2, <3>1, <3>2, <3>3 DEF CalendarInv, CalendarOK
  <2>5. EnginesHold'
    <3> SUFFICES ASSUME NEW r \in Requests \ Direct,
                        pc[r] \in {"number", "insert", "inserted"}
                 PROVE  periodLock'[EntryPeriod[r]] = r /\ status'[EntryPeriod[r]] = "OPEN"
      BY DEF EnginesHold
    <3>1. EntryPeriod[r] # p /\ EntryPeriod[r] \in Periods
      BY <1>t, <2>1 DEF CalendarInv, EnginesHold
    <3> QED BY <2>2, <3>1 DEF CalendarInv, CalendarOK, EnginesHold
  <2> QED BY <2>3, <2>4, <2>5 DEF CalendarInv
<1> QED BY <1>1, <1>2, <1>3

LEMMA CalendarStep == CalendarInv /\ [Next]_vars => CalendarInv'
<1> SUFFICES ASSUME CalendarInv, [Next]_vars PROVE CalendarInv'
  OBVIOUS
<1>1. CASE \E r \in Requests : Step(r) \/ RefuseDraft(r) \/ Abort(r)
  BY <1>1, RequestKeeps
<1>2. CASE \E e, d \in Requests : BreakDeadlock(e, d)
  BY <1>2, FailKeeps DEF BreakDeadlock
<1>3. CASE PeriodNext /\ UNCHANGED postVars
  BY <1>3, CloserKeeps DEF PeriodNext, postVars
<1>4. CASE UNCHANGED vars
  BY <1>4 DEF vars, periodVars, postVars, CalendarInv, CalendarOK, ClosersHold, EnginesHold
<1> QED BY <1>1, <1>2, <1>3, <1>4 DEF Next

LEMMA CalendarAlways == Spec => []CalendarInv
BY CalendarInit, CalendarStep, PTL DEF Spec

\* The ledger changes only when a request commits what it has inserted.
LEMMA OnlyCommitWrites ==
  ASSUME Next, NEW e \in ledger' \ ledger
  PROVE  \E r \in Requests : /\ Commit(r)
                             /\ e.by = r /\ e.period = EntryPeriod[r]
<1>1. ASSUME NEW r \in Requests, Fail(r) PROVE ledger' = ledger
  BY <1>1 DEF Fail
<1>2. ASSUME NEW r \in Requests, FindPosted(r) PROVE ledger' = ledger
  BY <1>2 DEF FindPosted, Fail
<1>3. ASSUME NEW r \in Requests, NEW place, Goto(r, place) PROVE ledger' = ledger
  BY <1>3 DEF Goto
<1>4. ASSUME NEW r \in Requests, Step(r) \/ RefuseDraft(r) \/ Abort(r), ~Commit(r)
      PROVE  ledger' = ledger
  BY <1>1, <1>2, <1>3, <1>4
     DEF Step, RefuseDraft, Abort, LockSource, Lookup, LockPeriod, RefuseClosed, ReadDraft,
         ReadPeriod, TakeNumber, Insert, InsertRejected, LookupAgain
<1>5. ASSUME \E c, d \in Requests : BreakDeadlock(c, d) PROVE ledger' = ledger
  BY <1>1, <1>5 DEF BreakDeadlock
<1>6. ASSUME PeriodNext /\ UNCHANGED postVars PROVE ledger' = ledger
  BY <1>6 DEF postVars
<1>7. PICK r \in Requests : Commit(r)
  BY <1>4, <1>5, <1>6 DEF Next
<1>8. PICK x : x.by = r /\ x.period = EntryPeriod[r] /\ ledger' = ledger \cup {x}
  BY <1>7 DEF Commit
<1> QED BY <1>7, <1>8

\* The engine never posts into a closed period, however many calls and calendar
\* changes overlap: it commits under the lock it found the period open with.
THEOREM EngineAlwaysRespectsClose == Spec => EngineRespectsClose
<1>1. CalendarInv /\ [Next]_vars =>
        [\A e \in ledger' \ ledger : e.by \notin Direct => status[e.period] = "OPEN"]_vars
  <2> SUFFICES ASSUME CalendarInv, Next, NEW e \in ledger' \ ledger, e.by \notin Direct
               PROVE  status[e.period] = "OPEN"
    OBVIOUS
  <2> PICK r \in Requests : Commit(r) /\ e.by = r /\ e.period = EntryPeriod[r]
    BY OnlyCommitWrites
  <2> QED BY DEF CalendarInv, EnginesHold, Commit
<1> QED BY <1>1, CalendarAlways, PTL DEF Spec, EngineRespectsClose
-----------------------------------------------------------------------------
\* Whoever has drawn a number has the sequence locked.
DrawersHold ==
  \A r \in Requests : pc[r] \in {"insert", "inserted"} => sequenceLock = r

\* An inserted row is the only one with its key: those who could commit
\* another need the sequence.
InsertedIsNew ==
  \A r \in Requests : pc[r] = "inserted" => \A e \in ledger : e.key # Key[r]

EntryInv ==
  /\ pc \in [Requests -> Places]
  /\ answer = [r \in Requests |-> answer[r]]
  /\ DrawersHold
  /\ InsertedIsNew
  /\ OnceOnly

LEMMA EntryInit == PostInit => EntryInv
BY DEF PostInit, EntryInv, DrawersHold, InsertedIsNew, OnceOnly, Places, Ended

\* A step of one request that writes no entry, gives no answer and gets no
\* nearer to the commit.
LEMMA QuietKeeps ==
  ASSUME EntryInv, NEW r \in Requests, NEW place \in Places \ {"insert", "inserted", "done"},
         pc' = [pc EXCEPT ![r] = place], UNCHANGED <<ledger, answer>>,
         sequenceLock' = sequenceLock \/ sequenceLock = r
  PROVE  EntryInv'
<1>1. pc' \in [Requests -> Places] /\ answer' = [o \in Requests |-> answer'[o]]
  BY DEF EntryInv
<1>2. \A o \in Requests \ {r} : pc'[o] = pc[o]
  BY DEF EntryInv
<1>3. pc'[r] = place
  BY DEF EntryInv
<1>4. DrawersHold'
  BY <1>2, <1>3 DEF EntryInv, DrawersHold
<1>5. InsertedIsNew'
  BY <1>2, <1>3 DEF EntryInv, InsertedIsNew
<1>6. OnceOnly'
  BY <1>2, <1>3 DEF EntryInv, OnceOnly
<1> QED BY <1>1, <1>4, <1>5, <1>6 DEF EntryInv

LEMMA FailIsQuiet ==
  ASSUME EntryInv, NEW r \in Requests, Fail(r)
  PROVE  EntryInv'
BY QuietKeeps DEF Fail, Release, Places, Ended

LEMMA AnswerKeeps ==
  ASSUME EntryInv, NEW r \in Requests, FindPosted(r)
  PROVE  EntryInv'
<1> PICK e \in Posted(r) :
      IF e.source = Source[r]
      THEN /\ answer' = [answer EXCEPT ![r] = e]
           /\ pc' = [pc EXCEPT ![r] = "done"]
           /\ Release(r)
           /\ UNCHANGED ledger
      ELSE Fail(r)
  BY DEF FindPosted
<1>1. CASE e.source # Source[r]
  BY <1>1, FailIsQuiet
<1>2. CASE e.source = Source[r]
  <2>1. /\ pc'[r] = "done" /\ answer'[r] = e
        /\ \A o \in Requests \ {r} : pc'[o] = pc[o] /\ answer'[o] = answer[o]
        /\ ledger' = ledger
    BY <1>2 DEF EntryInv
  <2>2. pc' \in [Requests -> Places] /\ answer' = [o \in Requests |-> answer'[o]]
    BY <1>2 DEF EntryInv, Places, Ended
  <2>3. DrawersHold'
    BY <1>2, <2>1 DEF EntryInv, DrawersHold, Release
  <2>4. InsertedIsNew'
    BY <2>1 DEF EntryInv, InsertedIsNew
  <2>5. e \in ledger /\ e.key = Key[r]
    BY DEF Posted
  <2>6. OnceOnly'
    BY <1>2, <2>1, <2>5 DEF EntryInv, OnceOnly
  <2> QED BY <2>2, <2>3, <2>4, <2>6 DEF EntryInv
<1> QED BY <1>1, <1>2

LEMMA CommitKeeps ==
  ASSUME EntryInv, NEW r \in Requests, Commit(r)
  PROVE  EntryInv'
<1> PICK x : /\ x.key = Key[r] /\ x.source = Source[r]
             /\ ledger' = ledger \cup {x}
             /\ answer' = [answer EXCEPT ![r] = x]
  BY DEF Commit
<1>1. /\ pc[r] = "inserted" /\ sequenceLock = r
      /\ pc' = [pc EXCEPT ![r] = "done"]
  BY DEF Commit, EntryInv, DrawersHold
<1>2. /\ pc'[r] = "done" /\ answer'[r] = x
      /\ \A o \in Requests \ {r} : pc'[o] = pc[o] /\ answer'[o] = answer[o]
  BY <1>1 DEF EntryInv
<1>3. pc' \in [Requests -> Places] /\ answer' = [o \in Requests |-> answer'[o]]
  BY <1>1 DEF EntryInv, Places, Ended
<1>4. \A o \in Requests : pc'[o] \notin {"insert", "inserted"}
  BY <1>1, <1>2 DEF EntryInv, DrawersHold
<1>5. \A e \in ledger : e.key # x.key
  BY <1>1 DEF EntryInv, InsertedIsNew
<1>6. OnceOnly'
  BY <1>2, <1>5 DEF EntryInv, OnceOnly
<1> QED BY <1>3, <1>4, <1>6 DEF EntryInv, DrawersHold, InsertedIsNew

\* The two steps that come nearer to the commit.
LEMMA TakeNumberKeeps ==
  ASSUME EntryInv, NEW r \in Requests, TakeNumber(r)
  PROVE  EntryInv'
<1>1. /\ sequenceLock = Nobody /\ sequenceLock' = r
      /\ pc' = [pc EXCEPT ![r] = "insert"] /\ UNCHANGED <<ledger, answer>>
  BY DEF TakeNumber, Goto
<1>2. pc'[r] = "insert" /\ \A o \in Requests \ {r} : pc'[o] = pc[o]
  BY <1>1 DEF EntryInv
<1>3. pc' \in [Requests -> Places] /\ answer' = [o \in Requests |-> answer'[o]]
  BY <1>1 DEF EntryInv, Places
<1>4. DrawersHold'
  BY <1>1, <1>2, RequestAssumption DEF EntryInv, DrawersHold
<1>5. InsertedIsNew' /\ OnceOnly'
  BY <1>1, <1>2 DEF EntryInv, InsertedIsNew, OnceOnly
<1> QED BY <1>3, <1>4, <1>5 DEF EntryInv

LEMMA InsertKeeps ==
  ASSUME EntryInv, NEW r \in Requests, Insert(r)
  PROVE  EntryInv'
<1>1. /\ pc[r] = "insert" /\ \A e \in ledger : e.key # Key[r]
      /\ pc' = [pc EXCEPT ![r] = "inserted"] /\ UNCHANGED <<ledger, answer, sequenceLock>>
  BY DEF Insert, Goto, Fits
<1>2. pc'[r] = "inserted" /\ \A o \in Requests \ {r} : pc'[o] = pc[o]
  BY <1>1 DEF EntryInv
<1>3. pc' \in [Requests -> Places] /\ answer' = [o \in Requests |-> answer'[o]]
  BY <1>1 DEF EntryInv, Places
<1>4. DrawersHold'
  BY <1>1, <1>2 DEF EntryInv, DrawersHold
<1>5. InsertedIsNew' /\ OnceOnly'
  BY <1>1, <1>2 DEF EntryInv, InsertedIsNew, OnceOnly
<1> QED BY <1>3, <1>4, <1>5 DEF EntryInv

LEMMA EntryStep == EntryInv /\ [Next]_vars => EntryInv'
<1> SUFFICES ASSUME EntryInv, [Next]_vars PROVE EntryInv'
  OBVIOUS
<1>1. ASSUME NEW r \in Requests, Step(r) \/ RefuseDraft(r) \/ Abort(r)
      PROVE  EntryInv'
  <2>1. CASE LockSource(r)
    BY <2>1, QuietKeeps DEF LockSource, Goto, Places
  <2>2. CASE Lookup(r)
    BY <2>2, QuietKeeps, AnswerKeeps DEF Lookup, Goto, Places
  <2>3. CASE LockPeriod(r) \/ ReadPeriod(r)
    BY <2>3, QuietKeeps DEF LockPeriod, ReadPeriod, Goto, Places
  <2>4. CASE RefuseClosed(r) \/ RefuseDraft(r) \/ Abort(r)
    BY <2>4, FailIsQuiet DEF RefuseClosed, RefuseDraft, Abort
  <2>5. CASE ReadDraft(r)
    BY <2>5, QuietKeeps, FailIsQuiet DEF ReadDraft, Goto, Places
  <2>6. CASE InsertRejected(r)
    <3>1. sequenceLock = r
      BY <2>6 DEF InsertRejected, EntryInv, DrawersHold
    <3> QED BY <2>6, <3>1, QuietKeeps, FailIsQuiet DEF InsertRejected, Goto, Places
  <2>7. CASE LookupAgain(r)
    BY <2>7, AnswerKeeps, FailIsQuiet DEF LookupAgain
  <2> QED BY <1>1, <2>1, <2>2, <2>3, <2>4, <2>5, <2>6, <2>7, TakeNumberKeeps, InsertKeeps,
             CommitKeeps DEF Step
<1>2. CASE \E e, d \in Requests : BreakDeadlock(e, d)
  BY <1>2, FailIsQuiet DEF BreakDeadlock
<1>3. CASE (PeriodNext /\ UNCHANGED postVars) \/ UNCHANGED vars
  BY <1>3 DEF vars, postVars, EntryInv, DrawersHold, InsertedIsNew, OnceOnly
<1> QED BY <1>1, <1>2, <1>3 DEF Next

\* However calls with one idempotency key meet, engine or not, the ledger has
\* one entry for it, and who was told of success was told of that entry.
THEOREM AlwaysOnceOnly == Spec => []OnceOnly
<1>1. EntryInv => OnceOnly
  BY DEF EntryInv
<1> QED BY <1>1, EntryInit, EntryStep, PTL DEF Spec
-----------------------------------------------------------------------------
\* One numbering serves every entry: the sequence is never restarted, or every
\* year and all entries are of one year.
OneNumbering ==
  \/ ResetPolicy = "NEVER"
  \/ ResetPolicy = "YEARLY" /\ \A p, q \in Periods : YearOf[p] = YearOf[q]

\* Such a sequence stays ahead of the ledger, and one request at a time has
\* drawn from it.
NumberInv ==
  /\ pc \in [Requests -> Places]
  /\ draw = [r \in Requests |-> draw[r]]
  /\ sequence.next \in Nat
  /\ \A e \in ledger : e.number \in Nat /\ e.number < sequence.next
  /\ DrawersHold
  /\ \A r \in Requests :
       /\ draw[r] # Nothing => /\ pc[r] \in {"insert", "inserted"}
                               /\ draw[r].number = sequence.next
       /\ pc[r] \in {"insert", "inserted"} => /\ draw[r].number = sequence.next
                                              /\ draw[r].key = SequenceKey(r)
  /\ sequence.next = 1 \/ \A r \in Requests : SequenceKey(r) = sequence.key

LEMMA NumberInit == PostInit => NumberInv
BY DEF PostInit, NumberInv, DrawersHold, Places, Ended

\* A step after which the request has no number, and which writes no entry.
LEMMA UndrawnKeeps ==
  ASSUME NumberInv, NEW r \in Requests, NEW place \in Places \ {"insert", "inserted"},
         pc' = [pc EXCEPT ![r] = place], UNCHANGED <<ledger, sequence>>,
         \/ draw' = [draw EXCEPT ![r] = Nothing]
         \/ draw' = draw /\ pc[r] \notin {"insert", "inserted"},
         sequenceLock' = sequenceLock \/ sequenceLock = r
  PROVE  NumberInv'
<1>1. pc' \in [Requests -> Places] /\ draw' = [o \in Requests |-> draw'[o]]
  BY DEF NumberInv
<1>2. pc'[r] = place /\ draw'[r] = Nothing
  BY DEF NumberInv
<1>3. \A o \in Requests \ {r} : pc'[o] = pc[o] /\ draw'[o] = draw[o]
  BY DEF NumberInv
<1>4. DrawersHold'
  BY <1>2, <1>3 DEF NumberInv, DrawersHold
<1> QED BY <1>1, <1>2, <1>3, <1>4 DEF NumberInv, SequenceKey

LEMMA FailGivesBack ==
  ASSUME NumberInv, NEW r \in Requests, Fail(r)
  PROVE  NumberInv'
BY UndrawnKeeps DEF Fail, Release, Places, Ended

LEMMA AnswerDrawsNothing ==
  ASSUME NumberInv, NEW r \in Requests, FindPosted(r), pc[r] \in {"lookup", "relookup"}
  PROVE  NumberInv'
<1>1. \/ Fail(r)
      \/ /\ pc' = [pc EXCEPT ![r] = "done"]
         /\ Release(r)
         /\ UNCHANGED <<sequence, draw, ledger>>
  BY DEF FindPosted
<1> QED BY <1>1, FailGivesBack, UndrawnKeeps DEF Release, Places, Ended

LEMMA TakeNumberDraws ==
  ASSUME NumberInv, NEW r \in Requests, TakeNumber(r)
  PROVE  NumberInv'
<1>1. NextNumber(r) = sequence.next
  BY DEF NextNumber, NumberInv
<1>2. /\ pc'[r] = "insert"
      /\ draw'[r].number = sequence.next /\ draw'[r].key = SequenceKey(r)
      /\ \A o \in Requests \ {r} : pc'[o] = pc[o] /\ draw'[o] = draw[o]
      /\ sequenceLock = Nobody /\ sequenceLock' = r
      /\ UNCHANGED <<ledger, sequence>>
  BY <1>1 DEF TakeNumber, Goto, NumberInv
<1>3. pc' \in [Requests -> Places] /\ draw' = [o \in Requests |-> draw'[o]]
  BY DEF TakeNumber, Goto, NumberInv, Places
<1>4. DrawersHold'
  BY <1>2, RequestAssumption DEF NumberInv, DrawersHold
<1>5. \A o \in Requests : SequenceKey(o)' = SequenceKey(o)
  BY <1>2 DEF SequenceKey
<1> QED BY <1>2, <1>3, <1>4, <1>5 DEF NumberInv

LEMMA InsertKeepsDraw ==
  ASSUME NumberInv, NEW r \in Requests, Insert(r)
  PROVE  NumberInv'
<1>1. /\ pc[r] = "insert" /\ pc'[r] = "inserted"
      /\ \A o \in Requests \ {r} : pc'[o] = pc[o]
      /\ UNCHANGED <<ledger, sequence, sequenceLock, draw>>
  BY DEF Insert, Goto, NumberInv
<1>2. pc' \in [Requests -> Places]
  BY DEF Insert, Goto, NumberInv, Places
<1>3. DrawersHold'
  BY <1>1 DEF NumberInv, DrawersHold
<1>4. \A o \in Requests : SequenceKey(o)' = SequenceKey(o)
  BY <1>1 DEF SequenceKey
<1> QED BY <1>1, <1>2, <1>3, <1>4 DEF NumberInv

LEMMA CommitAdvances ==
  ASSUME OneNumbering, NumberInv, NEW r \in Requests, Commit(r)
  PROVE  NumberInv'
<1>1. /\ pc[r] = "inserted" /\ sequenceLock = r /\ draw[r].number = sequence.next
  BY DEF Commit, NumberInv, DrawersHold
<1> PICK x : x.number = draw[r].number /\ ledger' = ledger \cup {x}
  BY DEF Commit
<1>2. sequence'.next = sequence.next + 1
  BY <1>1 DEF Commit
<1>3. /\ pc'[r] = "done" /\ draw'[r] = Nothing
      /\ \A o \in Requests \ {r} : pc'[o] = pc[o] /\ draw'[o] = draw[o]
  BY DEF Commit, NumberInv
<1>4. pc' \in [Requests -> Places] /\ draw' = [o \in Requests |-> draw'[o]]
  BY DEF Commit, NumberInv, Places, Ended
<1>5. \A o \in Requests : pc'[o] \notin {"insert", "inserted"} /\ draw'[o] = Nothing
  BY <1>1, <1>3 DEF NumberInv, DrawersHold
<1>6. \A e \in ledger' : e.number \in Nat /\ e.number < sequence'.next
  BY <1>1, <1>2 DEF NumberInv
<1>7. \A o \in Requests : SequenceKey(o)' = sequence'.key
  <2>1. sequence'.key = draw[r].key /\ draw[r].key = SequenceKey(r)
    BY <1>1 DEF Commit, NumberInv
  <2>2. EntryPeriod \in [Requests -> Periods]
    BY RequestAssumption
  <2> QED BY <2>1, <2>2 DEF SequenceKey, OneNumbering
<1> QED BY <1>2, <1>4, <1>5, <1>6, <1>7 DEF NumberInv, DrawersHold

LEMMA NumberStep ==
  ASSUME OneNumbering
  PROVE  NumberInv /\ [Next]_vars => NumberInv'
<1> SUFFICES ASSUME NumberInv, [Next]_vars PROVE NumberInv'
  OBVIOUS
<1>1. ASSUME NEW r \in Requests, Step(r) \/ RefuseDraft(r) \/ Abort(r)
      PROVE  NumberInv'
  <2>1. CASE LockSource(r)
    BY <2>1, UndrawnKeeps DEF LockSource, Goto, Places
  <2>2. CASE Lookup(r)
    BY <2>2, UndrawnKeeps, AnswerDrawsNothing DEF Lookup, Goto, Places
  <2>3. CASE LockPeriod(r) \/ ReadPeriod(r)
    BY <2>3, UndrawnKeeps DEF LockPeriod, ReadPeriod, Goto, Places
  <2>4. CASE RefuseClosed(r) \/ RefuseDraft(r) \/ Abort(r)
    BY <2>4, FailGivesBack DEF RefuseClosed, RefuseDraft, Abort
  <2>5. CASE ReadDraft(r)
    BY <2>5, UndrawnKeeps, FailGivesBack DEF ReadDraft, Goto, Places
  <2>6. CASE InsertRejected(r)
    <3>1. sequenceLock = r
      BY <2>6 DEF InsertRejected, NumberInv, DrawersHold
    <3> QED BY <2>6, <3>1, UndrawnKeeps, FailGivesBack DEF InsertRejected, Goto, Places
  <2>7. CASE LookupAgain(r)
    BY <2>7, AnswerDrawsNothing, FailGivesBack DEF LookupAgain
  <2> QED BY <1>1, <2>1, <2>2, <2>3, <2>4, <2>5, <2>6, <2>7, TakeNumberDraws,
             InsertKeepsDraw, CommitAdvances DEF Step
<1>2. CASE \E e, d \in Requests : BreakDeadlock(e, d)
  BY <1>2, FailGivesBack DEF BreakDeadlock
<1>3. CASE (PeriodNext /\ UNCHANGED postVars) \/ UNCHANGED vars
  BY <1>3 DEF vars, postVars, NumberInv, DrawersHold, SequenceKey
<1> QED BY <1>1, <1>2, <1>3 DEF Next

\* Within one numbering no number is handed out twice, whatever fails, retries
\* or deadlocks.
THEOREM NumbersAlwaysHandedOutOnce ==
  ASSUME OneNumbering
  PROVE  Spec => []NumbersHandedOutOnce
<1>1. NumberInv => NumbersHandedOutOnce
  BY DEF NumberInv, DrawersHold, NumbersHandedOutOnce
<1>2. NumberInv /\ [Next]_vars => NumberInv'
  BY NumberStep
<1> QED BY <1>1, <1>2, NumberInit, PTL DEF Spec
-----------------------------------------------------------------------------
Rows == [key : {Key[r] : r \in Requests}, source : Sources,
         number : Nat, period : Periods, by : Requests]

\* Every entry is the only one of a request that has finished, the numbers
\* given out so far are exactly theirs, and every row has its type.
LedgerInv ==
  /\ sourceLock \in [Sources -> Requests \cup {Nobody}]
  /\ sequenceLock \in Requests \cup {Nobody}
  /\ answer \in [Requests -> ledger \cup {Nothing}]
  /\ ledger \subseteq Rows
  /\ \A e \in ledger : pc[e.by] = "done"
  /\ \A e, f \in ledger : e.by = f.by => e = f
  /\ IsFiniteSet(ledger)
  /\ sequence.next = Cardinality(ledger) + 1
  /\ {e.number : e \in ledger} = 1 .. Cardinality(ledger)

LEMMA LedgerInit == PostInit => LedgerInv
<1> SUFFICES ASSUME PostInit PROVE LedgerInv
  OBVIOUS
<1>1. ledger = {} /\ IsFiniteSet(ledger) /\ Cardinality(ledger) = 0
  BY FS_EmptySet DEF PostInit
<1>2. {e.number : e \in ledger} = {} /\ 1 .. 0 = {}
  BY <1>1
<1>3. sequence.next = Cardinality(ledger) + 1
  BY <1>1 DEF PostInit
<1> QED BY <1>1, <1>2, <1>3 DEF PostInit, LedgerInv

\* What every request does until its end leaves the ledger as it is.
LEMMA LedgerStays ==
  ASSUME LedgerInv, NEW r \in Requests, pc[r] # "done",
         \A o \in Requests \ {r} : pc'[o] = pc[o],
         UNCHANGED <<ledger, sequence>>,
         answer' \in [Requests -> ledger \cup {Nothing}],
         sourceLock' \in [Sources -> Requests \cup {Nobody}],
         sequenceLock' \in Requests \cup {Nobody}
  PROVE  LedgerInv'
<1>1. \A e \in ledger : e.by \in Requests
  BY DEF LedgerInv, Rows
<1> QED BY <1>1 DEF LedgerInv

LEMMA FailLeavesLedger ==
  ASSUME LedgerInv, pc \in [Requests -> Places], NEW r \in Requests, Fail(r), pc[r] # "done"
  PROVE  LedgerInv'
<1>1. /\ UNCHANGED <<ledger, sequence, answer>>
      /\ \A o \in Requests \ {r} : pc'[o] = pc[o]
      /\ sourceLock' \in [Sources -> Requests \cup {Nobody}]
      /\ sequenceLock' \in Requests \cup {Nobody}
  BY DEF LedgerInv, Fail, Release
<1>2. answer' \in [Requests -> ledger \cup {Nothing}]
  BY <1>1 DEF LedgerInv
<1> QED BY <1>1, <1>2, LedgerStays

LEMMA MoveLeavesLedger ==
  ASSUME LedgerInv, pc \in [Requests -> Places], NEW r \in Requests, NEW place,
         Goto(r, place), pc[r] # "done",
         sourceLock' \in [Sources -> Requests \cup {Nobody}],
         sequenceLock' \in Requests \cup {Nobody}
  PROVE  LedgerInv'
<1>1. /\ UNCHANGED <<ledger, sequence, answer>>
      /\ \A o \in Requests \ {r} : pc'[o] = pc[o]
  BY DEF Goto
<1>2. answer' \in [Requests -> ledger \cup {Nothing}]
  BY <1>1 DEF LedgerInv
<1> QED BY <1>1, <1>2, LedgerStays

LEMMA AnswerLeavesLedger ==
  ASSUME LedgerInv, pc \in [Requests -> Places], NEW r \in Requests, FindPosted(r),
         pc[r] # "done"
  PROVE  LedgerInv'
<1> PICK e \in Posted(r) :
      \/ Fail(r)
      \/ /\ answer' = [answer EXCEPT ![r] = e]
         /\ pc' = [pc EXCEPT ![r] = "done"]
         /\ Release(r)
         /\ UNCHANGED <<sequence, ledger>>
  BY DEF FindPosted
<1>1. CASE ~Fail(r)
  <2>1. e \in ledger
    BY DEF Posted
  <2>2. /\ UNCHANGED <<ledger, sequence>>
        /\ \A o \in Requests \ {r} : pc'[o] = pc[o]
        /\ sourceLock' \in [Sources -> Requests \cup {Nobody}]
        /\ sequenceLock' \in Requests \cup {Nobody}
        /\ answer' \in [Requests -> ledger \cup {Nothing}]
    BY <1>1, <2>1 DEF LedgerInv, Release
  <2> QED BY <2>2, LedgerStays
<1> QED BY <1>1, FailLeavesLedger

\* The commit adds the number that was next.
LEMMA CommitAdds ==
  ASSUME LedgerInv, NumberInv, NEW r \in Requests, Commit(r)
  PROVE  LedgerInv'
<1> DEFINE e == [key |-> Key[r], source |-> Source[r], number |-> draw[r].number,
                 period |-> EntryPeriod[r], by |-> r]
           n == Cardinality(ledger)
<1>1. /\ pc[r] = "inserted"
      /\ draw[r].number = sequence.next
      /\ sequence.next \in Nat
      /\ pc \in [Requests -> Places]
  BY DEF Commit, NumberInv
<1>2. /\ ledger' = ledger \cup {e}
      /\ answer' = [answer EXCEPT ![r] = e]
      /\ sequence'.next = draw[r].number + 1
      /\ pc' = [pc EXCEPT ![r] = "done"]
      /\ Release(r)
  BY DEF Commit
<1>3. e \in Rows
  <2>1. Source[r] \in Sources /\ EntryPeriod[r] \in Periods
    BY RequestAssumption
  <2> QED BY <1>1, <2>1 DEF Rows
<1>4. \A f \in ledger : f.by \in Requests \ {r}
  BY <1>1 DEF LedgerInv, Rows
<1>5. e.by = r /\ e.number = n + 1 /\ n \in Nat
  <2>1. n \in Nat
    BY FS_CardinalityType DEF LedgerInv
  <2> QED BY <1>1, <2>1 DEF LedgerInv
<1> HIDE DEF e
<1>6. e \notin ledger
  BY <1>4, <1>5
<1>7. IsFiniteSet(ledger') /\ Cardinality(ledger') = n + 1
  BY <1>2, <1>6, FS_AddElement DEF LedgerInv
<1>8. {f.number : f \in ledger'} = 1 .. Cardinality(ledger')
  <2>1. {f.number : f \in ledger'} = {f.number : f \in ledger} \cup {e.number}
    BY <1>2
  <2>2. {f.number : f \in ledger} = 1 .. n
    BY DEF LedgerInv
  <2> HIDE DEF n
  <2>3. (1 .. n) \cup {n + 1} = 1 .. n + 1
    BY <1>5
  <2> QED BY <1>5, <1>7, <2>1, <2>2, <2>3
<1>9. \A f \in ledger' : pc'[f.by] = "done"
  BY <1>1, <1>2, <1>4, <1>5 DEF LedgerInv
<1>10. \A f, g \in ledger' : f.by = g.by => f = g
  BY <1>2, <1>4, <1>5 DEF LedgerInv
<1>11. /\ sourceLock' \in [Sources -> Requests \cup {Nobody}]
       /\ sequenceLock' \in Requests \cup {Nobody}
  BY <1>2 DEF LedgerInv, Release
<1>12. answer' \in [Requests -> ledger' \cup {Nothing}]
  BY <1>2 DEF LedgerInv
<1>13. sequence'.next = Cardinality(ledger') + 1
  BY <1>1, <1>2, <1>5, <1>7 DEF LedgerInv
<1>14. ledger' \subseteq Rows
  BY <1>2, <1>3 DEF LedgerInv
<1> QED BY <1>7, <1>8, <1>9, <1>10, <1>11, <1>12, <1>13, <1>14 DEF LedgerInv

LEMMA LedgerStep == NumberInv /\ LedgerInv /\ [Next]_vars => LedgerInv'
<1> SUFFICES ASSUME NumberInv, LedgerInv, [Next]_vars PROVE LedgerInv'
  OBVIOUS
<1>t. /\ pc \in [Requests -> Places]
      /\ sourceLock \in [Sources -> Requests \cup {Nobody}]
      /\ sequenceLock \in Requests \cup {Nobody}
  BY DEF NumberInv, LedgerInv
<1>1. ASSUME NEW r \in Requests, Step(r) \/ RefuseDraft(r) \/ Abort(r)
      PROVE  LedgerInv'
  <2>1. CASE LockSource(r)
    BY <1>t, <2>1, MoveLeavesLedger DEF LockSource
  <2>2. CASE Lookup(r)
    BY <1>t, <2>2, MoveLeavesLedger, AnswerLeavesLedger DEF Lookup
  <2>3. CASE LockPeriod(r) \/ ReadPeriod(r)
    BY <1>t, <2>3, MoveLeavesLedger DEF LockPeriod, ReadPeriod
  <2>4. CASE RefuseClosed(r) \/ RefuseDraft(r) \/ Abort(r)
    BY <1>t, <2>4, FailLeavesLedger DEF RefuseClosed, RefuseDraft, Abort
  <2>5. CASE ReadDraft(r)
    BY <1>t, <2>5, MoveLeavesLedger, FailLeavesLedger DEF ReadDraft
  <2>6. CASE TakeNumber(r)
    BY <1>t, <2>6, MoveLeavesLedger DEF TakeNumber
  <2>7. CASE Insert(r)
    BY <1>t, <2>7, MoveLeavesLedger DEF Insert
  <2>8. CASE InsertRejected(r)
    BY <1>t, <2>8, MoveLeavesLedger, FailLeavesLedger DEF InsertRejected
  <2>9. CASE LookupAgain(r)
    BY <1>t, <2>9, AnswerLeavesLedger, FailLeavesLedger DEF LookupAgain
  <2> QED BY <1>1, <2>1, <2>2, <2>3, <2>4, <2>5, <2>6, <2>7, <2>8, <2>9, CommitAdds DEF Step
<1>2. CASE \E e, d \in Requests : BreakDeadlock(e, d)
  BY <1>t, <1>2, FailLeavesLedger DEF BreakDeadlock, Deadlocked
<1>3. CASE (PeriodNext /\ UNCHANGED postVars) \/ UNCHANGED vars
  BY <1>3 DEF vars, postVars, LedgerInv
<1> QED BY <1>1, <1>2, <1>3 DEF Next

\* There are never more entries than requests, and one fewer while a request
\* has a number it has not committed.
LEMMA LedgerFits ==
  ASSUME LedgerInv
  PROVE  /\ Cardinality(Requests) \in Nat /\ Cardinality(ledger) \in Nat
         /\ Cardinality(ledger) <= Cardinality(Requests)
         /\ \A r \in Requests : pc[r] # "done" => Cardinality(ledger) < Cardinality(Requests)
<1> DEFINE f == [e \in ledger |-> e.by]
<1>1. f \in Injection(ledger, Requests)
  BY DEF LedgerInv, Rows, Injection, IsInjective
<1>2. Cardinality(ledger) <= Cardinality(Requests)
  BY <1>1, FiniteAssumption, FS_Injection
<1>3. Cardinality(ledger) \in Nat /\ Cardinality(Requests) \in Nat
  BY FiniteAssumption, FS_CardinalityType DEF LedgerInv
<1>4. ASSUME NEW r \in Requests, pc[r] # "done"
      PROVE  Cardinality(ledger) < Cardinality(Requests)
  <2>1. f \notin Surjection(ledger, Requests)
    <3>1. \A e \in ledger : f[e] # r
      BY <1>4 DEF LedgerInv
    <3> HIDE DEF f
    <3> QED BY <3>1 DEF Surjection
  <2>2. Cardinality(ledger) # Cardinality(Requests)
    BY <1>1, <2>1, FiniteAssumption, FS_Injection
  <2> QED BY <1>2, <1>3, <2>2
<1> QED BY <1>2, <1>3, <1>4

LEMMA LedgerMeans ==
  CalendarInv /\ NumberInv /\ LedgerInv => LedgerIsGapFree
<1> SUFFICES ASSUME CalendarInv, NumberInv, LedgerInv PROVE LedgerIsGapFree
  OBVIOUS
<1> DEFINE N == Cardinality(Requests)
           n == Cardinality(ledger)
<1>1. /\ N \in Nat /\ n \in Nat /\ n <= N
      /\ \A r \in Requests : pc[r] # "done" => n < N
      /\ sequence.next = n + 1
      /\ {e.number : e \in ledger} = 1 .. n
  BY LedgerFits DEF LedgerInv
<1> HIDE DEF N, n
<1>2. ledger \subseteq Entries
  <2> SUFFICES ASSUME NEW e \in ledger PROVE e \in Entries
    OBVIOUS
  <2>1. e \in Rows /\ e.number \in 1 .. n
    BY <1>1 DEF LedgerInv
  <2>2. e.number \in 1 .. N
    BY <1>1, <2>1
  <2> QED BY <2>1, <2>2 DEF Entries, Rows, N
<1>3. sequence.next \in 1 .. N + 1
  BY <1>1
<1>4. \A r \in Requests : draw[r] # Nothing => draw[r].number \in 1 .. N
  BY <1>1 DEF NumberInv
<1>5. PeriodTypeOK
  BY DEF CalendarInv, CalendarOK, PeriodTypeOK, Changes
<1>6. PostingTypeOK
  BY <1>2, <1>3, <1>4, <1>5 DEF CalendarInv, CalendarOK, LedgerInv, PostingTypeOK, Places, N
<1>7. GapFree
  BY <1>1 DEF GapFree, n
<1> QED BY <1>6, <1>7 DEF LedgerIsGapFree

\* Within one numbering the committed entries are numbered 1, 2, 3, ... with no
\* number missing, whichever calls failed, were retried or were ended by a
\* deadlock after they had drawn one; and every row keeps its type.
THEOREM LedgerAlwaysGapFree ==
  ASSUME OneNumbering
  PROVE  Spec => []LedgerIsGapFree
<1>1. NumberInv /\ [Next]_vars => NumberInv'
  BY NumberStep
<1> QED BY <1>1, NumberInit, CalendarAlways, LedgerInit, LedgerStep, LedgerMeans, PTL DEF Spec

----------------------------------------------------------------------------
(* The reports.  Sums over parts of a set. *)

\* A sum over two sets apart is the sum over each.
LEMMA SumParts ==
  ASSUME NEW A, IsFiniteSet(A), NEW B, IsFiniteSet(B), A \cap B = {},
         NEW f, \A x \in A \cup B : f[x] \in Int
  PROVE  SumFunctionOnSet(f, A \cup B) = SumFunctionOnSet(f, A) + SumFunctionOnSet(f, B)
<1> DEFINE S == A \cup B
           g == [x \in S |-> IF x \in A THEN f[x] ELSE 0]
           h == [x \in S |-> IF x \in A THEN 0 ELSE f[x]]
<1>1. IsFiniteSet(S)
  BY FS_Union
<1>2. \A x \in S : g[x] \in Int /\ h[x] \in Int /\ f[x] = g[x] + h[x]
  OBVIOUS
<1>3. /\ \A x \in A : f[x] \in Int /\ g[x] = f[x]
      /\ \A x \in S \ A : g[x] = 0
  OBVIOUS
<1>4. /\ \A x \in B : f[x] \in Int /\ h[x] = f[x]
      /\ \A x \in S \ B : h[x] = 0
  OBVIOUS
<1>5. A \in SUBSET S /\ B \in SUBSET S
  OBVIOUS
<1> HIDE DEF S, g, h
<1>6. SumFunctionOnSet(f, S) = SumFunctionOnSet(g, S) + SumFunctionOnSet(h, S)
  BY <1>1, <1>2, SumPlus
<1>7. SumFunctionOnSet(g, S) = SumFunctionOnSet(f, A)
  BY <1>1, <1>3, <1>5, SumSupport
<1>8. SumFunctionOnSet(h, S) = SumFunctionOnSet(f, B)
  BY <1>1, <1>4, <1>5, SumSupport
<1> QED BY <1>6, <1>7, <1>8 DEF S

\* A sum over the part of a set that lies in K grows with a member of K only.
LEMMA SumJoins ==
  ASSUME NEW B, IsFiniteSet(B), NEW x, x \notin B, NEW K,
         NEW f, \A y \in K : f[y] \in Int
  PROVE  SumFunctionOnSet(f, K \cap (B \cup {x}))
           = SumFunctionOnSet(f, K \cap B) + IF x \in K THEN f[x] ELSE 0
<1> DEFINE R == K \cap B
           part == SumFunctionOnSet(f, R)
           whole == SumFunctionOnSet(f, K \cap (B \cup {x}))
<1>1. IsFiniteSet(R)
  BY FS_Subset
<1>2. part \in Int
  BY <1>1, SumType
<1>3. CASE x \in K
  <2>1. K \cap (B \cup {x}) = R \cup {x} /\ x \notin R
    BY <1>3
  <2>2. \A y \in R \cup {x} : f[y] \in Int
    BY <1>3
  <2>3. f[x] \in Int
    BY <1>3
  <2> HIDE DEF R
  <2>4. SumFunctionOnSet(f, R \cup {x}) = f[x] + SumFunctionOnSet(f, R)
    BY <1>1, <2>1, <2>2, SumAdd
  <2>5. whole = f[x] + part
    BY <2>1, <2>4
  <2> HIDE DEF whole, part
  <2>6. whole = part + IF x \in K THEN f[x] ELSE 0
    BY <1>2, <1>3, <2>3, <2>5
  <2> QED BY <2>6 DEF whole, part, R
<1>4. CASE x \notin K
  <2>1. K \cap (B \cup {x}) = R
    BY <1>4
  <2>2. whole = part
    BY <2>1
  <2> HIDE DEF whole, part
  <2>3. whole = part + IF x \in K THEN f[x] ELSE 0
    BY <1>2, <1>4, <2>2
  <2> QED BY <2>3 DEF whole, part
<1> QED BY <1>3, <1>4

\* The sum of a function written over a set is the sum of any other that
\* agrees with it there.
LEMMA SumWritten ==
  ASSUME NEW S, IsFiniteSet(S), NEW f, NEW g, DOMAIN f = S, \A x \in S : f[x] = g[x]
  PROVE  Sum(f) = SumFunctionOnSet(g, S)
BY SumAgrees DEF Sum

LEMMA AccountsAre ==
  Accounts = {"cash", "receivable", "vendorAdvance", "inventory", "inputTax"}
             \cup {"equipment", "payable", "received", "customerAdvance", "outputTax"}
             \cup {"loan", "retained", "sales", "salesReturns", "cogs"}
             \cup {"purchases", "purchaseReturns", "fees", "gain", "lostTax"}
BY DEF Accounts, SubtypeOf

LEMMA FiveAreFinite == \A a, b, c, d, e : IsFiniteSet({a, b, c, d, e})
<1> TAKE a, b, c, d, e
<1>1. IsFiniteSet({} \cup {a})
  BY FS_EmptySet, FS_AddElement
<1>2. IsFiniteSet({} \cup {a} \cup {b})
  BY <1>1, FS_AddElement
<1>3. IsFiniteSet({} \cup {a} \cup {b} \cup {c})
  BY <1>2, FS_AddElement
<1>4. IsFiniteSet({} \cup {a} \cup {b} \cup {c} \cup {d})
  BY <1>3, FS_AddElement
<1>5. IsFiniteSet({} \cup {a} \cup {b} \cup {c} \cup {d} \cup {e})
  BY <1>4, FS_AddElement
<1>6. {a, b, c, d, e} = {} \cup {a} \cup {b} \cup {c} \cup {d} \cup {e}
  OBVIOUS
<1> QED BY <1>5, <1>6

LEMMA AccountsAreFinite == IsFiniteSet(Accounts)
<1> DEFINE A == {"cash", "receivable", "vendorAdvance", "inventory", "inputTax"}
           B == {"equipment", "payable", "received", "customerAdvance", "outputTax"}
           C == {"loan", "retained", "sales", "salesReturns", "cogs"}
           D == {"purchases", "purchaseReturns", "fees", "gain", "lostTax"}
<1>1. IsFiniteSet(A) /\ IsFiniteSet(B) /\ IsFiniteSet(C) /\ IsFiniteSet(D)
  BY FiveAreFinite
<1>2. Accounts = A \cup B \cup C \cup D
  BY AccountsAre
<1> HIDE DEF A, B, C, D
<1>3. IsFiniteSet(A \cup B)
  BY <1>1, FS_Union
<1>4. IsFiniteSet(A \cup B \cup C)
  BY <1>1, <1>3, FS_Union
<1>5. IsFiniteSet(A \cup B \cup C \cup D)
  BY <1>1, <1>4, FS_Union
<1> QED BY <1>2, <1>5

\* Every account has one type, that of its subtype.
LEMMA TypeIsOfSubtype ==
  ASSUME NEW a \in Accounts
  PROVE  /\ TypeOf(a) = "ASSET" <=> SubtypeOf[a] \in {"CURRENT_ASSET", "NONCURRENT_ASSET"}
         /\ TypeOf(a) = "LIABILITY"
              <=> SubtypeOf[a] \in {"CURRENT_LIABILITY", "NONCURRENT_LIABILITY"}
         /\ TypeOf(a) = "EQUITY" <=> SubtypeOf[a] = "EQUITY"
         /\ TypeOf(a) = "INCOME" <=> SubtypeOf[a] \in {"REVENUE", "OTHER_INCOME"}
         /\ TypeOf(a) = "EXPENSE"
              <=> SubtypeOf[a] \in {"COGS", "OPERATING_EXPENSE", "OTHER_EXPENSE"}
         /\ TypeOf(a) \in {"ASSET", "LIABILITY", "EQUITY", "INCOME", "EXPENSE"}
<1>1. SubtypeOf[a] \in {"CURRENT_ASSET", "NONCURRENT_ASSET", "CURRENT_LIABILITY",
        "NONCURRENT_LIABILITY", "EQUITY", "REVENUE", "OTHER_INCOME", "COGS",
        "OPERATING_EXPENSE", "OTHER_EXPENSE"}
  BY AccountsAre DEF SubtypeOf
<1> QED BY <1>1 DEF TypeOf, SubtypesOf

----------------------------------------------------------------------------
(* What a set of balanced entries moves. *)
EntryRecords ==
  [of : Things \cup RowIds, reverses : BOOLEAN, date : 1 .. LastDate, lines : [Accounts -> Int]]
Journal(S) == IsFiniteSet(S) /\ S \subseteq EntryRecords /\ \A e \in S : Sum(e.lines) = 0
Moves(S) == [a \in Accounts |-> Movement(S, a)]

LEMMA JournalPart ==
  ASSUME NEW S, Journal(S), NEW R \in SUBSET S
  PROVE  Journal(R)
BY FS_Subset DEF Journal

\* What an entry has on an account is a whole number.
LEMMA LinesAreWhole ==
  ASSUME NEW S, Journal(S)
  PROVE  \A e \in S, a \in Accounts : e.lines[a] \in Int
BY DEF Journal, EntryRecords

LEMMA MovementIsSum ==
  ASSUME NEW S, Journal(S), NEW a
  PROVE  Movement(S, a) = SumFunctionOnSet([e \in S |-> e.lines[a]], S)
BY DEF Movement, Sum

LEMMA MovementType ==
  ASSUME NEW S, Journal(S), NEW a \in Accounts
  PROVE  Movement(S, a) \in Int
<1> DEFINE f == [e \in S |-> e.lines[a]]
<1>1. \A e \in S : f[e] \in Int
  BY LinesAreWhole
<1>2. IsFiniteSet(S)
  BY DEF Journal
<1> HIDE DEF f
<1>3. SumFunctionOnSet(f, S) \in Int
  BY <1>1, <1>2, SumType
<1> QED BY <1>3, MovementIsSum DEF f

LEMMA MovementParts ==
  ASSUME NEW S, Journal(S), NEW P, NEW Q, S = P \cup Q, P \cap Q = {}, NEW a \in Accounts
  PROVE  Movement(S, a) = Movement(P, a) + Movement(Q, a)
<1> DEFINE f == [e \in S |-> e.lines[a]]
           p == [e \in P |-> e.lines[a]]
           q == [e \in Q |-> e.lines[a]]
<1>1. Journal(P) /\ Journal(Q)
  BY JournalPart
<1>2. IsFiniteSet(P) /\ IsFiniteSet(Q) /\ IsFiniteSet(S)
  BY <1>1 DEF Journal
<1>3. \A e \in P \cup Q : f[e] \in Int
  BY LinesAreWhole
<1>4. (\A e \in P : p[e] = f[e]) /\ (\A e \in Q : q[e] = f[e])
  OBVIOUS
<1>5. /\ Movement(S, a) = SumFunctionOnSet(f, S)
      /\ Movement(P, a) = SumFunctionOnSet(p, P)
      /\ Movement(Q, a) = SumFunctionOnSet(q, Q)
  BY <1>1, MovementIsSum
<1> HIDE DEF f, p, q
<1>6. SumFunctionOnSet(f, P \cup Q) = SumFunctionOnSet(f, P) + SumFunctionOnSet(f, Q)
  BY <1>2, <1>3, SumParts
<1>7. SumFunctionOnSet(p, P) = SumFunctionOnSet(f, P)
  BY <1>2, <1>4, SumAgrees
<1>8. SumFunctionOnSet(q, Q) = SumFunctionOnSet(f, Q)
  BY <1>2, <1>4, SumAgrees
<1> QED BY <1>5, <1>6, <1>7, <1>8

LEMMA MovementOfOne ==
  ASSUME NEW e, Journal({e}), NEW a \in Accounts
  PROVE  Movement({e}, a) = e.lines[a]
<1> DEFINE f == [x \in {e} |-> x.lines[a]]
<1>1. f[e] = e.lines[a] /\ f[e] \in Int
  BY LinesAreWhole
<1>2. Movement({e}, a) = SumFunctionOnSet(f, {} \cup {e})
  <2>1. {} \cup {e} = {e}
    OBVIOUS
  <2> QED BY <2>1, MovementIsSum
<1>3. IsFiniteSet({}) /\ e \notin {} /\ \A y \in {} \cup {e} : f[y] \in Int
  BY <1>1, FS_EmptySet
<1> HIDE DEF f
<1>4. SumFunctionOnSet(f, {} \cup {e}) = f[e] + SumFunctionOnSet(f, {})
  BY <1>3, SumAdd
<1> QED BY <1>1, <1>2, <1>4, SumEmpty

\* An entry written moves each account by its line there.
LEMMA MovementGrows ==
  ASSUME NEW S, NEW e, Journal(S \cup {e}), e \notin S, NEW a \in Accounts
  PROVE  Movement(S \cup {e}, a) = Movement(S, a) + e.lines[a]
<1>1. Journal({e})
  BY JournalPart
<1>2. S \cap {e} = {}
  OBVIOUS
<1>3. Movement(S \cup {e}, a) = Movement(S, a) + Movement({e}, a)
  BY <1>2, MovementParts
<1>4. Movement({e}, a) = e.lines[a]
  BY <1>1, MovementOfOne
<1> QED BY <1>3, <1>4

\* The two sides of an account differ by what it moved.
LEMMA SidesMakeMovement ==
  ASSUME NEW S, Journal(S), NEW a \in Accounts
  PROVE  /\ Debits(S, a) \in Int /\ Credited(S, a) \in Int
         /\ Debits(S, a) = Movement(S, a) + Credited(S, a)
<1> DEFINE f == [e \in S |-> e.lines[a]]
           d == [e \in S |-> Larger(e.lines[a])]
           c == [e \in S |-> Larger(-e.lines[a])]
<1>1. IsFiniteSet(S)
  BY DEF Journal
<1>2. \A e \in S : f[e] \in Int /\ c[e] \in Int /\ d[e] \in Int /\ d[e] = f[e] + c[e]
  BY LinesAreWhole DEF Larger
<1>3. /\ Movement(S, a) = SumFunctionOnSet(f, S)
      /\ Debits(S, a) = SumFunctionOnSet(d, S)
      /\ Credited(S, a) = SumFunctionOnSet(c, S)
  BY MovementIsSum DEF Debits, Credited, Sum
<1> HIDE DEF f, d, c
<1>4. SumFunctionOnSet(d, S) = SumFunctionOnSet(f, S) + SumFunctionOnSet(c, S)
  BY <1>1, <1>2, SumPlus
<1>5. SumFunctionOnSet(d, S) \in Int /\ SumFunctionOnSet(c, S) \in Int
  BY <1>1, <1>2, SumType
<1> QED BY <1>3, <1>4, <1>5

\* An account no line touches has not moved.
LEMMA UntouchedIsStill ==
  ASSUME NEW S, Journal(S), NEW a \in Accounts \ Touched(S)
  PROVE  Movement(S, a) = 0
<1> DEFINE f == [e \in S |-> e.lines[a]]
<1>1. \A e \in S : f[e] = 0
  BY DEF Touched
<1>2. IsFiniteSet(S)
  BY DEF Journal
<1> HIDE DEF f
<1>3. SumFunctionOnSet(f, S) = 0
  BY <1>1, <1>2, SumOfZeros
<1> QED BY <1>3, MovementIsSum DEF f

\* Balanced entries move all accounts together by nothing.
LEMMA MovesCancel ==
  ASSUME NEW S, Journal(S)
  PROVE  SumFunctionOnSet(Moves(S), Accounts) = 0
<1> DEFINE m == [e \in S |-> e.lines]
           n == [a \in Accounts |-> [e \in S |-> e.lines[a]]]
           each == [e \in S |-> Sum(e.lines)]
<1>1. IsFiniteSet(S)
  BY DEF Journal
<1>2. \A e \in S, a \in Accounts : m[e][a] \in Int /\ n[a][e] = m[e][a]
  BY LinesAreWhole
<1>3. \A e \in S : each[e] = SumFunctionOnSet(m[e], Accounts)
  BY DEF Sum, Journal, EntryRecords
<1>4. \A a \in Accounts : Moves(S)[a] = SumFunctionOnSet(n[a], S)
  BY MovementIsSum DEF Moves
<1>5. \A e \in S : each[e] = 0
  BY DEF Journal
<1> HIDE DEF m, n, each
<1>6. Tallied(S, Accounts, m, n, each, Moves(S))
  BY <1>2, <1>3, <1>4 DEF Tallied
<1>7. SumFunctionOnSet(each, S) = SumFunctionOnSet(Moves(S), Accounts)
  BY <1>1, <1>6, AccountsAreFinite, SumExchange
<1>8. SumFunctionOnSet(each, S) = 0
  BY <1>1, <1>5, SumOfZeros
<1> QED BY <1>7, <1>8

\* The accounts touched carry all that moved.
LEMMA TouchedCarryAll ==
  ASSUME NEW S, Journal(S), NEW T, Touched(S) \subseteq T, NEW A \in SUBSET Accounts
  PROVE  /\ SumFunctionOnSet(Moves(S), A \cap T) = SumFunctionOnSet(Moves(S), A)
         /\ SumFunctionOnSet(Moves(S), A) \in Int
         /\ \A a \in A : Moves(S)[a] \in Int
         /\ IsFiniteSet(A \cap T)
<1>1. IsFiniteSet(A) /\ IsFiniteSet(A \cap T) /\ A \cap T \in SUBSET A
  BY AccountsAreFinite, FS_Subset
<1>2. \A a \in A : Moves(S)[a] \in Int
  BY MovementType DEF Moves
<1>3. \A a \in A \ (A \cap T) : Moves(S)[a] = 0
  BY UntouchedIsStill DEF Moves
<1>4. \A a \in A \cap T : Moves(S)[a] \in Int /\ Moves(S)[a] = Moves(S)[a]
  BY <1>2
<1>5. SumFunctionOnSet(Moves(S), A) = SumFunctionOnSet(Moves(S), A \cap T)
  BY <1>1, <1>3, <1>4, SumSupport
<1>6. SumFunctionOnSet(Moves(S), A) \in Int
  BY <1>1, <1>2, SumType
<1> QED BY <1>1, <1>2, <1>5, <1>6

----------------------------------------------------------------------------
(* The trial balance. *)
LEMMA TouchedGrows ==
  ASSUME NEW S, NEW R \in SUBSET S
  PROVE  Touched(R) \subseteq Touched(S) /\ Touched(S) \subseteq Accounts
BY DEF Touched

\* Two columns that differ account by account by what balanced entries moved
\* have the same total.
LEMMA ColumnsBalance ==
  ASSUME NEW S, Journal(S), NEW T \in SUBSET Accounts, Touched(S) \subseteq T,
         NEW f, NEW g, \A a \in T : f[a] \in Int /\ g[a] \in Int /\ f[a] = Movement(S, a) + g[a]
  PROVE  SumFunctionOnSet(f, T) = SumFunctionOnSet(g, T)
<1>1. IsFiniteSet(T) /\ Accounts \cap T = T
  BY AccountsAreFinite, FS_Subset
<1>2. /\ SumFunctionOnSet(Moves(S), T) = SumFunctionOnSet(Moves(S), Accounts)
      /\ \A a \in Accounts : Moves(S)[a] \in Int
  BY <1>1, TouchedCarryAll
<1>3. \A a \in T : Moves(S)[a] \in Int /\ g[a] \in Int /\ f[a] = Moves(S)[a] + g[a]
  BY <1>2 DEF Moves
<1>4. SumFunctionOnSet(f, T) = SumFunctionOnSet(Moves(S), T) + SumFunctionOnSet(g, T)
  BY <1>1, <1>3, SumPlus
<1>5. SumFunctionOnSet(g, T) \in Int
  BY <1>1, <1>3, SumType
<1> QED BY <1>2, <1>4, <1>5, MovesCancel

LEMMA LargerSplits == \A n \in Int : /\ Larger(n) \in Int /\ Larger(-n) \in Int
                                     /\ n = Larger(n) - Larger(-n)
                                     /\ Larger(n) = n + Larger(-n)
BY DEF Larger

\* The parts of a window.
LEMMA WindowParts ==
  ASSUME Journal(entries), NEW from \in Int, NEW to \in Int, from <= to + 1
  PROVE  /\ Journal(Upto(to)) /\ Journal(Within(from, to)) /\ Journal(Earlier(from, to))
         /\ Upto(to) = Earlier(from, to) \cup Within(from, to)
         /\ Earlier(from, to) \cap Within(from, to) = {}
         /\ Earlier(from, to) = Upto(from - 1)
         /\ Upto(to) \subseteq entries
<1>1. Upto(to) \subseteq entries /\ Within(from, to) \subseteq entries
      /\ Earlier(from, to) \subseteq entries
  BY DEF Upto, Within, Earlier
<1>2. Journal(Upto(to)) /\ Journal(Within(from, to)) /\ Journal(Earlier(from, to))
  BY <1>1, JournalPart
<1>3. \A e \in entries : e.date \in Int
  BY DEF Journal, EntryRecords
<1>4. /\ Upto(to) = Earlier(from, to) \cup Within(from, to)
      /\ Earlier(from, to) \cap Within(from, to) = {}
      /\ Earlier(from, to) = Upto(from - 1)
  BY <1>3 DEF Upto, Within, Earlier
<1> QED BY <1>1, <1>2, <1>4

\* What the rows of a trial balance are.
LEMMA RowsOfTrialBalance ==
  ASSUME NEW from, NEW to, NEW a \in Touched(Upto(to))
  PROVE  LET row == fn_trial_balance(from, to)[a]
         IN  /\ row["openingDebit"] = Larger(Movement(Earlier(from, to), a))
             /\ row["openingCredit"] = Larger(-Movement(Earlier(from, to), a))
             /\ row["periodDebit"] = Debits(Within(from, to), a)
             /\ row["periodCredit"] = Credited(Within(from, to), a)
             /\ row["closingDebit"] = Larger(Movement(Upto(to), a))
             /\ row["closingCredit"] = Larger(-Movement(Upto(to), a))
             /\ row.openingDebit = row["openingDebit"] /\ row.openingCredit = row["openingCredit"]
             /\ row.periodDebit = row["periodDebit"] /\ row.periodCredit = row["periodCredit"]
             /\ row.closingDebit = row["closingDebit"] /\ row.closingCredit = row["closingCredit"]
BY DEF fn_trial_balance

LEMMA AccountsOfTrialBalance ==
  \A from, to : DOMAIN fn_trial_balance(from, to) = Touched(Upto(to))
BY DEF fn_trial_balance

\* The three columns of a trial balance balance.
LEMMA TrialBalanceBalances ==
  ASSUME Journal(entries), NEW from \in Int, NEW to \in Int, from <= to + 1
  PROVE  LET tb == fn_trial_balance(from, to)
         IN  /\ Total(tb, "openingDebit") = Total(tb, "openingCredit")
             /\ Total(tb, "periodDebit") = Total(tb, "periodCredit")
             /\ Total(tb, "closingDebit") = Total(tb, "closingCredit")
<1> DEFINE tb == fn_trial_balance(from, to)
           T == Touched(Upto(to))
           col(c) == [a \in T |-> tb[a][c]]
<1>1. /\ Journal(Upto(to)) /\ Journal(Within(from, to)) /\ Journal(Earlier(from, to))
      /\ Within(from, to) \in SUBSET Upto(to) /\ Earlier(from, to) \in SUBSET Upto(to)
  BY WindowParts
<1>2. /\ T \in SUBSET Accounts /\ Touched(Within(from, to)) \subseteq T
      /\ Touched(Earlier(from, to)) \subseteq T
  BY <1>1, TouchedGrows
<1>3. DOMAIN tb = T
  BY AccountsOfTrialBalance
<1>4. \A c : Total(tb, c) = SumFunctionOnSet(col(c), T)
  BY <1>3 DEF Total, Sum
<1>5. ASSUME NEW a \in T
      PROVE  /\ col("openingDebit")[a] = Larger(Movement(Earlier(from, to), a))
             /\ col("openingCredit")[a] = Larger(-Movement(Earlier(from, to), a))
             /\ col("periodDebit")[a] = Debits(Within(from, to), a)
             /\ col("periodCredit")[a] = Credited(Within(from, to), a)
             /\ col("closingDebit")[a] = Larger(Movement(Upto(to), a))
             /\ col("closingCredit")[a] = Larger(-Movement(Upto(to), a))
  BY RowsOfTrialBalance
<1>6. ASSUME NEW a \in T
      PROVE  /\ Movement(Earlier(from, to), a) \in Int /\ Movement(Upto(to), a) \in Int
             /\ Debits(Within(from, to), a) \in Int /\ Credited(Within(from, to), a) \in Int
             /\ Debits(Within(from, to), a)
                  = Movement(Within(from, to), a) + Credited(Within(from, to), a)
  BY <1>1, <1>2, MovementType, SidesMakeMovement
<1> HIDE DEF tb, T, col
<1>7. SumFunctionOnSet(col("openingDebit"), T) = SumFunctionOnSet(col("openingCredit"), T)
  <2> DEFINE f == col("openingDebit")  g == col("openingCredit")
  <2>1. ASSUME NEW a \in T
        PROVE  f[a] \in Int /\ g[a] \in Int /\ f[a] = Movement(Earlier(from, to), a) + g[a]
    <3> DEFINE n == Movement(Earlier(from, to), a)
    <3>1. f[a] = Larger(n) /\ g[a] = Larger(-n) /\ n \in Int
      BY <1>5, <1>6
    <3> HIDE DEF n, f, g
    <3>2. f[a] \in Int /\ g[a] \in Int /\ f[a] = n + g[a]
      BY <3>1, LargerSplits
    <3> QED BY <3>2 DEF n
  <2> HIDE DEF f, g
  <2>2. SumFunctionOnSet(f, T) = SumFunctionOnSet(g, T)
    BY <1>1, <1>2, <2>1, ColumnsBalance
  <2> QED BY <2>2 DEF f, g
<1>8. SumFunctionOnSet(col("periodDebit"), T) = SumFunctionOnSet(col("periodCredit"), T)
  <2> DEFINE f == col("periodDebit")  g == col("periodCredit")
  <2>1. \A a \in T : f[a] \in Int /\ g[a] \in Int /\ f[a] = Movement(Within(from, to), a) + g[a]
    BY <1>5, <1>6
  <2> HIDE DEF f, g
  <2>2. SumFunctionOnSet(f, T) = SumFunctionOnSet(g, T)
    BY <1>1, <1>2, <2>1, ColumnsBalance
  <2> QED BY <2>2 DEF f, g
<1>9. SumFunctionOnSet(col("closingDebit"), T) = SumFunctionOnSet(col("closingCredit"), T)
  <2> DEFINE f == col("closingDebit")  g == col("closingCredit")
  <2>1. ASSUME NEW a \in T
        PROVE  f[a] \in Int /\ g[a] \in Int /\ f[a] = Movement(Upto(to), a) + g[a]
    <3> DEFINE n == Movement(Upto(to), a)
    <3>1. f[a] = Larger(n) /\ g[a] = Larger(-n) /\ n \in Int
      BY <1>5, <1>6
    <3> HIDE DEF n, f, g
    <3>2. f[a] \in Int /\ g[a] \in Int /\ f[a] = n + g[a]
      BY <3>1, LargerSplits
    <3> QED BY <3>2 DEF n
  <2>2. Touched(Upto(to)) \subseteq T
    BY DEF T
  <2> HIDE DEF f, g
  <2>3. SumFunctionOnSet(f, T) = SumFunctionOnSet(g, T)
    BY <1>1, <1>2, <2>1, <2>2, ColumnsBalance
  <2> QED BY <2>3 DEF f, g
<1> QED BY <1>4, <1>7, <1>8, <1>9 DEF tb

\* A trial balance moves by its period, and the next opens where it closes.
LEMMA TrialBalanceMoves ==
  ASSUME Journal(entries), NEW from \in Int, NEW to \in Int, from <= to + 1,
         NEW a \in Touched(Upto(to)), NEW last \in Int, to <= last
  PROVE  LET tb == fn_trial_balance(from, to)
             next == fn_trial_balance(to + 1, last)
         IN  /\ tb[a].closingDebit = next[a].openingDebit
             /\ tb[a].closingCredit = next[a].openingCredit
             /\ tb[a].closingDebit - tb[a].closingCredit
                  = tb[a].openingDebit - tb[a].openingCredit
                    + tb[a].periodDebit - tb[a].periodCredit
<1> DEFINE opening == Movement(Earlier(from, to), a)
           closing == Movement(Upto(to), a)
           moved == Movement(Within(from, to), a)
           debits == Debits(Within(from, to), a)
           credits == Credited(Within(from, to), a)
<1>1. /\ Journal(Upto(to)) /\ Journal(Within(from, to)) /\ Journal(Earlier(from, to))
      /\ Upto(to) = Earlier(from, to) \cup Within(from, to)
      /\ Earlier(from, to) \cap Within(from, to) = {}
  BY WindowParts
<1>2. a \in Accounts
  BY DEF Touched
<1>3. opening \in Int /\ closing \in Int /\ moved \in Int
  BY <1>1, <1>2, MovementType
<1>4. closing = opening + moved
  BY <1>1, <1>2, MovementParts
<1>5. debits \in Int /\ credits \in Int /\ debits = moved + credits
  BY <1>1, <1>2, SidesMakeMovement
<1>6. Upto(to) \subseteq Upto(last) /\ Earlier(to + 1, last) = Upto(to)
  <2>1. \A e \in entries : e.date \in Int
    BY DEF Journal, EntryRecords
  <2> QED BY <2>1 DEF Upto, Earlier
<1>7. a \in Touched(Upto(last))
  BY <1>6 DEF Touched
<1> DEFINE row == fn_trial_balance(from, to)[a]
           after == fn_trial_balance(to + 1, last)[a]
<1>8. /\ row.openingDebit = Larger(opening) /\ row.openingCredit = Larger(-opening)
      /\ row.periodDebit = debits /\ row.periodCredit = credits
      /\ row.closingDebit = Larger(closing) /\ row.closingCredit = Larger(-closing)
  BY RowsOfTrialBalance
<1>9. after.openingDebit = Larger(closing) /\ after.openingCredit = Larger(-closing)
  BY <1>6, <1>7, RowsOfTrialBalance
<1> HIDE DEF row, after, opening, closing, moved, debits, credits
<1>10. row.closingDebit - row.closingCredit
         = row.openingDebit - row.openingCredit + row.periodDebit - row.periodCredit
  BY <1>3, <1>4, <1>5, <1>8, LargerSplits
<1> QED BY <1>8, <1>9, <1>10 DEF row, after

----------------------------------------------------------------------------
(* The balance sheet and the profit. *)
OfSubtype(s) == {a \in Accounts : SubtypeOf[a] = s}
OfType(t) == {a \in Accounts : TypeOf(a) = t}
OverSubtype(g, s) == SumFunctionOnSet(g, OfSubtype(s))
OverType(g, t) == SumFunctionOnSet(g, OfType(t))

\* Two sets of accounts apart.
LEMMA AccountParts ==
  ASSUME NEW g, \A a \in Accounts : g[a] \in Int,
         NEW A \in SUBSET Accounts, NEW B \in SUBSET Accounts, A \cap B = {}
  PROVE  /\ SumFunctionOnSet(g, A \cup B) = SumFunctionOnSet(g, A) + SumFunctionOnSet(g, B)
         /\ SumFunctionOnSet(g, A) \in Int /\ SumFunctionOnSet(g, B) \in Int
         /\ SumFunctionOnSet(g, A \cup B) \in Int
<1>1. IsFiniteSet(A) /\ IsFiniteSet(B)
  BY AccountsAreFinite, FS_Subset
<1>2. \A a \in A \cup B : g[a] \in Int
  OBVIOUS
<1>3. SumFunctionOnSet(g, A) \in Int /\ SumFunctionOnSet(g, B) \in Int
  BY <1>1, SumType
<1>4. SumFunctionOnSet(g, A \cup B) = SumFunctionOnSet(g, A) + SumFunctionOnSet(g, B)
  BY <1>1, <1>2, SumParts
<1> QED BY <1>3, <1>4

\* The types are made of their subtypes, and the accounts of the types.
LEMMA AccountsSplit ==
  ASSUME NEW g, \A a \in Accounts : g[a] \in Int
  PROVE  /\ \A s : OverSubtype(g, s) \in Int
         /\ \A t : OverType(g, t) \in Int
         /\ OverType(g, "ASSET")
              = OverSubtype(g, "CURRENT_ASSET") + OverSubtype(g, "NONCURRENT_ASSET")
         /\ OverType(g, "LIABILITY")
              = OverSubtype(g, "CURRENT_LIABILITY") + OverSubtype(g, "NONCURRENT_LIABILITY")
         /\ OverType(g, "EQUITY") = OverSubtype(g, "EQUITY")
         /\ OverType(g, "INCOME")
              = OverSubtype(g, "REVENUE") + OverSubtype(g, "OTHER_INCOME")
         /\ OverType(g, "EXPENSE")
              = OverSubtype(g, "COGS") + OverSubtype(g, "OPERATING_EXPENSE")
                + OverSubtype(g, "OTHER_EXPENSE")
         /\ SumFunctionOnSet(g, Accounts)
              = OverType(g, "ASSET") + OverType(g, "LIABILITY") + OverType(g, "EQUITY")
                + OverType(g, "INCOME") + OverType(g, "EXPENSE")
<1> DEFINE Sm(A) == SumFunctionOnSet(g, A)
<1>0. /\ \A s : OfSubtype(s) \in SUBSET Accounts
      /\ \A t : OfType(t) \in SUBSET Accounts
  BY DEF OfSubtype, OfType
<1>1. \A A, B \in SUBSET Accounts :
         A \cap B = {} => /\ Sm(A \cup B) = Sm(A) + Sm(B)
                          /\ Sm(A) \in Int /\ Sm(B) \in Int /\ Sm(A \cup B) \in Int
  BY AccountParts
<1>2. \A A \in SUBSET Accounts : Sm(A) \in Int
  BY AccountsAreFinite, FS_Subset, SumType
<1> HIDE DEF Sm
<1>3. /\ OfType("ASSET") = OfSubtype("CURRENT_ASSET") \cup OfSubtype("NONCURRENT_ASSET")
      /\ OfSubtype("CURRENT_ASSET") \cap OfSubtype("NONCURRENT_ASSET") = {}
  BY TypeIsOfSubtype DEF OfType, OfSubtype
<1>4. /\ OfType("LIABILITY")
           = OfSubtype("CURRENT_LIABILITY") \cup OfSubtype("NONCURRENT_LIABILITY")
      /\ OfSubtype("CURRENT_LIABILITY") \cap OfSubtype("NONCURRENT_LIABILITY") = {}
  BY TypeIsOfSubtype DEF OfType, OfSubtype
<1>5. OfType("EQUITY") = OfSubtype("EQUITY")
  BY TypeIsOfSubtype DEF OfType, OfSubtype
<1>6. /\ OfType("INCOME") = OfSubtype("REVENUE") \cup OfSubtype("OTHER_INCOME")
      /\ OfSubtype("REVENUE") \cap OfSubtype("OTHER_INCOME") = {}
  BY TypeIsOfSubtype DEF OfType, OfSubtype
<1>7. /\ OfType("EXPENSE") = (OfSubtype("COGS") \cup OfSubtype("OPERATING_EXPENSE"))
                             \cup OfSubtype("OTHER_EXPENSE")
      /\ OfSubtype("COGS") \cap OfSubtype("OPERATING_EXPENSE") = {}
      /\ (OfSubtype("COGS") \cup OfSubtype("OPERATING_EXPENSE"))
           \cap OfSubtype("OTHER_EXPENSE") = {}
  BY TypeIsOfSubtype DEF OfType, OfSubtype
<1> DEFINE two == OfType("ASSET") \cup OfType("LIABILITY")
           three == two \cup OfType("EQUITY")
           four == three \cup OfType("INCOME")
<1>8. /\ OfType("ASSET") \cap OfType("LIABILITY") = {}
      /\ two \cap OfType("EQUITY") = {}
      /\ three \cap OfType("INCOME") = {}
      /\ four \cap OfType("EXPENSE") = {}
      /\ Accounts = four \cup OfType("EXPENSE")
      /\ two \in SUBSET Accounts /\ three \in SUBSET Accounts /\ four \in SUBSET Accounts
  BY TypeIsOfSubtype DEF OfType
<1>9. \A s : OverSubtype(g, s) = Sm(OfSubtype(s))
  BY DEF OverSubtype, Sm
<1>10. \A t : OverType(g, t) = Sm(OfType(t))
  BY DEF OverType, Sm
<1>11. /\ \A s : OverSubtype(g, s) \in Int
       /\ \A t : OverType(g, t) \in Int
  BY <1>0, <1>2, <1>9, <1>10
<1>12. OverType(g, "ASSET")
         = OverSubtype(g, "CURRENT_ASSET") + OverSubtype(g, "NONCURRENT_ASSET")
  <2>1. Sm(OfSubtype("CURRENT_ASSET") \cup OfSubtype("NONCURRENT_ASSET"))
          = Sm(OfSubtype("CURRENT_ASSET")) + Sm(OfSubtype("NONCURRENT_ASSET"))
    BY <1>0, <1>1, <1>3
  <2> QED BY <1>3, <1>9, <1>10, <2>1
<1>13. OverType(g, "LIABILITY")
         = OverSubtype(g, "CURRENT_LIABILITY") + OverSubtype(g, "NONCURRENT_LIABILITY")
  <2>1. Sm(OfSubtype("CURRENT_LIABILITY") \cup OfSubtype("NONCURRENT_LIABILITY"))
          = Sm(OfSubtype("CURRENT_LIABILITY")) + Sm(OfSubtype("NONCURRENT_LIABILITY"))
    BY <1>0, <1>1, <1>4
  <2> QED BY <1>4, <1>9, <1>10, <2>1
<1>14. OverType(g, "INCOME") = OverSubtype(g, "REVENUE") + OverSubtype(g, "OTHER_INCOME")
  <2>1. Sm(OfSubtype("REVENUE") \cup OfSubtype("OTHER_INCOME"))
          = Sm(OfSubtype("REVENUE")) + Sm(OfSubtype("OTHER_INCOME"))
    BY <1>0, <1>1, <1>6
  <2> QED BY <1>6, <1>9, <1>10, <2>1
<1>15. OverType(g, "EQUITY") = OverSubtype(g, "EQUITY")
  BY <1>5, <1>9, <1>10
<1>16. OverType(g, "EXPENSE")
         = OverSubtype(g, "COGS") + OverSubtype(g, "OPERATING_EXPENSE")
           + OverSubtype(g, "OTHER_EXPENSE")
  <2> DEFINE C == OfSubtype("COGS") \cup OfSubtype("OPERATING_EXPENSE")
  <2>1. C \in SUBSET Accounts
    BY <1>0
  <2>2. Sm(C) = Sm(OfSubtype("COGS")) + Sm(OfSubtype("OPERATING_EXPENSE"))
    BY <1>0, <1>1, <1>7
  <2>3. Sm(C \cup OfSubtype("OTHER_EXPENSE")) = Sm(C) + Sm(OfSubtype("OTHER_EXPENSE"))
    <3>1. C \cap OfSubtype("OTHER_EXPENSE") = {}
      BY <1>7
    <3> HIDE DEF C
    <3> QED BY <1>0, <1>1, <2>1, <3>1
  <2>4. OfType("EXPENSE") = C \cup OfSubtype("OTHER_EXPENSE")
    BY <1>7
  <2> HIDE DEF C
  <2> QED BY <1>9, <1>10, <2>2, <2>3, <2>4
<1>17. Sm(Accounts) = Sm(OfType("ASSET")) + Sm(OfType("LIABILITY")) + Sm(OfType("EQUITY"))
                      + Sm(OfType("INCOME")) + Sm(OfType("EXPENSE"))
  <2>1. Sm(two) = Sm(OfType("ASSET")) + Sm(OfType("LIABILITY"))
    BY <1>0, <1>1, <1>8
  <2> HIDE DEF two
  <2>2. Sm(three) = Sm(two) + Sm(OfType("EQUITY"))
    BY <1>0, <1>1, <1>8
  <2> HIDE DEF three
  <2>3. Sm(four) = Sm(three) + Sm(OfType("INCOME"))
    BY <1>0, <1>1, <1>8
  <2> HIDE DEF four
  <2>4. Sm(Accounts) = Sm(four) + Sm(OfType("EXPENSE"))
    BY <1>0, <1>1, <1>8
  <2> QED BY <2>1, <2>2, <2>3, <2>4
<1> QED BY <1>10, <1>11, <1>12, <1>13, <1>14, <1>15, <1>16, <1>17 DEF Sm

\* A section of a statement shows what its accounts moved, whichever of them
\* are listed.
LEMMA SectionMoves ==
  ASSUME NEW S, Journal(S), NEW T, Touched(S) \subseteq T, NEW A \in SUBSET Accounts,
         NEW f, NEW k \in {1, -1}, \A a \in A \cap T : f[a] = k * Movement(S, a)
  PROVE  SumFunctionOnSet(f, A \cap T) = k * SumFunctionOnSet(Moves(S), A)
<1>1. /\ SumFunctionOnSet(Moves(S), A \cap T) = SumFunctionOnSet(Moves(S), A)
      /\ \A a \in A : Moves(S)[a] \in Int
      /\ IsFiniteSet(A \cap T)
  BY TouchedCarryAll
<1> DEFINE R == A \cap T
           g == Moves(S)
<1>2. \A a \in R : g[a] \in Int /\ f[a] = k * g[a]
  BY <1>1 DEF Moves
<1>3. IsFiniteSet(R) /\ k \in Int
  BY <1>1
<1> HIDE DEF R, g
<1>4. SumFunctionOnSet(f, R) = k * SumFunctionOnSet(g, R)
  BY <1>2, <1>3, SumScale
<1> QED BY <1>1, <1>4 DEF R, g

\* What the sign of a balance is in a statement.
Sign(a) == IF TypeOf(a) \in {"ASSET", "EXPENSE"} THEN 1 ELSE -1

LEMMA NaturalIsSigned ==
  ASSUME NEW a, NEW debit \in Int, NEW credit \in Int, NEW n \in Int, debit = n + credit
  PROVE  Natural(a, debit, credit) = Sign(a) * n
BY DEF Natural, Sign

LEMMA RowsAreSigned ==
  ASSUME Journal(entries), NEW from \in Int, NEW to \in Int, from <= to + 1,
         NEW a \in Touched(Upto(to))
  PROVE  LET tb == fn_trial_balance(from, to)
         IN  /\ ClosingNet(tb, a) = Sign(a) * Movement(Upto(to), a)
             /\ PeriodNet(tb, a) = Sign(a) * Movement(Within(from, to), a)
<1> DEFINE closing == Movement(Upto(to), a)
           moved == Movement(Within(from, to), a)
           debits == Debits(Within(from, to), a)
           credits == Credited(Within(from, to), a)
           row == fn_trial_balance(from, to)[a]
<1>1. Journal(Upto(to)) /\ Journal(Within(from, to)) /\ a \in Accounts
  BY WindowParts DEF Touched
<1>2. closing \in Int /\ moved \in Int
  BY <1>1, MovementType
<1>3. debits \in Int /\ credits \in Int /\ debits = moved + credits
  BY <1>1, SidesMakeMovement
<1>4. /\ row.periodDebit = debits /\ row.periodCredit = credits
      /\ row.closingDebit = Larger(closing) /\ row.closingCredit = Larger(-closing)
  BY RowsOfTrialBalance
<1>5. /\ ClosingNet(fn_trial_balance(from, to), a)
           = Natural(a, row.closingDebit, row.closingCredit)
      /\ PeriodNet(fn_trial_balance(from, to), a)
           = Natural(a, row.periodDebit, row.periodCredit)
  BY DEF ClosingNet, PeriodNet
<1> HIDE DEF closing, moved, debits, credits, row
<1>6. Natural(a, Larger(closing), Larger(-closing)) = Sign(a) * closing
  <2>1. /\ Larger(closing) \in Int /\ Larger(-closing) \in Int
        /\ Larger(closing) = closing + Larger(-closing)
    BY <1>2, LargerSplits
  <2> QED BY <1>2, <2>1, NaturalIsSigned
<1>7. Natural(a, debits, credits) = Sign(a) * moved
  BY <1>2, <1>3, NaturalIsSigned
<1> QED BY <1>4, <1>5, <1>6, <1>7 DEF closing, moved

LEMMA SectionIs ==
  ASSUME Journal(entries), NEW from \in Int, NEW to \in Int, from <= to + 1,
         NEW s, NEW k \in {1, -1}, \A a \in OfSubtype(s) : Sign(a) = k
  PROVE  LET tb == fn_trial_balance(from, to)
         IN  /\ Section(tb, ClosingNet, s) = k * OverSubtype(Moves(Upto(to)), s)
             /\ Section(tb, PeriodNet, s) = k * OverSubtype(Moves(Within(from, to)), s)
<1> DEFINE tb == fn_trial_balance(from, to)
           T == Touched(Upto(to))
           A == OfSubtype(s)
           f == [a \in A \cap T |-> ClosingNet(tb, a)]
           g == [a \in A \cap T |-> PeriodNet(tb, a)]
<1>1. /\ Journal(Upto(to)) /\ Journal(Within(from, to))
      /\ Touched(Upto(to)) \subseteq T /\ Touched(Within(from, to)) \subseteq T
      /\ T \subseteq Accounts
  BY WindowParts, TouchedGrows
<1>2. A \in SUBSET Accounts
  BY DEF OfSubtype
<1>3. {b \in DOMAIN tb : SubtypeOf[b] = s} = A \cap T
  BY <1>1, AccountsOfTrialBalance DEF OfSubtype
<1>4. /\ Section(tb, ClosingNet, s) = SumFunctionOnSet(f, A \cap T)
      /\ Section(tb, PeriodNet, s) = SumFunctionOnSet(g, A \cap T)
  BY <1>3 DEF Section, Sum
<1>5. /\ \A a \in A \cap T : f[a] = k * Movement(Upto(to), a)
      /\ \A a \in A \cap T : g[a] = k * Movement(Within(from, to), a)
  BY RowsAreSigned
<1> HIDE DEF tb, T, A, f, g
<1>6. SumFunctionOnSet(f, A \cap T) = k * SumFunctionOnSet(Moves(Upto(to)), A)
  <2> DEFINE S == Upto(to)
  <2>1. /\ Journal(S) /\ Touched(S) \subseteq T /\ A \in SUBSET Accounts /\ k \in {1, -1}
        /\ \A a \in A \cap T : f[a] = k * Movement(S, a)
    BY <1>1, <1>2, <1>5 DEF T
  <2> HIDE DEF S
  <2>2. SumFunctionOnSet(f, A \cap T) = k * SumFunctionOnSet(Moves(S), A)
    BY ONLY <2>1, SectionMoves
  <2> QED BY <2>2 DEF S
<1>7. SumFunctionOnSet(g, A \cap T) = k * SumFunctionOnSet(Moves(Within(from, to)), A)
  <2> DEFINE S == Within(from, to)
  <2>1. /\ Journal(S) /\ Touched(S) \subseteq T /\ A \in SUBSET Accounts /\ k \in {1, -1}
        /\ \A a \in A \cap T : g[a] = k * Movement(S, a)
    BY <1>1, <1>2, <1>5
  <2> HIDE DEF S
  <2>2. SumFunctionOnSet(g, A \cap T) = k * SumFunctionOnSet(Moves(S), A)
    BY ONLY <2>1, SectionMoves
  <2> QED BY <2>2 DEF S
<1> QED BY <1>4, <1>6, <1>7 DEF tb, A, OverSubtype

LEMMA TotalForIs ==
  ASSUME Journal(entries), NEW from \in Int, NEW to \in Int, from <= to + 1,
         NEW type, NEW k \in {1, -1}, \A a \in OfType(type) : Sign(a) = k
  PROVE  TotalFor(fn_trial_balance(from, to), type) = k * OverType(Moves(Upto(to)), type)
<1> DEFINE tb == fn_trial_balance(from, to)
           T == Touched(Upto(to))
           A == OfType(type)
           f == [a \in A \cap T |-> ClosingNet(tb, a)]
<1>1. Journal(Upto(to)) /\ Touched(Upto(to)) \subseteq T /\ T \subseteq Accounts
  BY WindowParts, TouchedGrows
<1>2. A \in SUBSET Accounts
  BY DEF OfType
<1>3. {b \in DOMAIN tb : TypeOf(b) = type} = A \cap T
  BY <1>1, AccountsOfTrialBalance DEF OfType
<1>4. TotalFor(tb, type) = SumFunctionOnSet(f, A \cap T)
  BY <1>3 DEF TotalFor, Sum
<1>5. \A a \in A \cap T : f[a] = k * Movement(Upto(to), a)
  BY RowsAreSigned
<1> HIDE DEF tb, T, A, f
<1>6. SumFunctionOnSet(f, A \cap T) = k * SumFunctionOnSet(Moves(Upto(to)), A)
  <2> DEFINE S == Upto(to)
  <2>1. Touched(S) \subseteq T /\ Journal(S)
    BY <1>1 DEF T
  <2>2. \A a \in A \cap T : f[a] = k * Movement(S, a)
    BY <1>5
  <2> HIDE DEF S
  <2>3. /\ Journal(S) /\ Touched(S) \subseteq T /\ A \in SUBSET Accounts /\ k \in {1, -1}
        /\ \A a \in A \cap T : f[a] = k * Movement(S, a)
    BY <1>2, <2>1, <2>2
  <2>4. SumFunctionOnSet(f, A \cap T) = k * SumFunctionOnSet(Moves(S), A)
    BY ONLY <2>3, SectionMoves
  <2> QED BY <2>4 DEF S
<1> QED BY <1>4, <1>6 DEF tb, A, OverType

LEMMA SignsOfSubtypes ==
  /\ \A s \in {"CURRENT_ASSET", "NONCURRENT_ASSET", "COGS", "OPERATING_EXPENSE", "OTHER_EXPENSE"} :
       \A a \in OfSubtype(s) : Sign(a) = 1
  /\ \A s \in {"CURRENT_LIABILITY", "NONCURRENT_LIABILITY", "EQUITY", "REVENUE", "OTHER_INCOME"} :
       \A a \in OfSubtype(s) : Sign(a) = -1
  /\ \A a \in OfType("INCOME") : Sign(a) = -1
  /\ \A a \in OfType("EXPENSE") : Sign(a) = 1
<1>1. \A s \in {"CURRENT_ASSET", "NONCURRENT_ASSET", "COGS", "OPERATING_EXPENSE", "OTHER_EXPENSE"} :
        \A a \in OfSubtype(s) : Sign(a) = 1
  BY TypeIsOfSubtype DEF OfSubtype, Sign
<1>2. \A s \in {"CURRENT_LIABILITY", "NONCURRENT_LIABILITY", "EQUITY", "REVENUE", "OTHER_INCOME"} :
        \A a \in OfSubtype(s) : Sign(a) = -1
  BY TypeIsOfSubtype DEF OfSubtype, Sign
<1>3. \A a \in OfType("INCOME") \cup OfType("EXPENSE") :
        Sign(a) = IF a \in OfType("INCOME") THEN -1 ELSE 1
  BY DEF OfType, Sign
<1>4. OfType("INCOME") \cap OfType("EXPENSE") = {}
  BY DEF OfType
<1> QED BY <1>1, <1>2, <1>3, <1>4

LEMMA MovesAreWhole ==
  ASSUME NEW S, Journal(S)
  PROVE  \A a \in Accounts : Moves(S)[a] \in Int
BY MovementType DEF Moves

\* The result on a balance sheet, by what the accounts of income and expense moved.
LEMMA ResultIs ==
  ASSUME Journal(entries), NEW d \in Int, d >= -1
  PROVE  /\ balance_sheet(d).result
              = -OverType(Moves(Upto(d)), "INCOME") - OverType(Moves(Upto(d)), "EXPENSE")
         /\ OverType(Moves(Upto(d)), "INCOME") \in Int
         /\ OverType(Moves(Upto(d)), "EXPENSE") \in Int
<1> DEFINE tb == fn_trial_balance(Inception, d)
           income == OverType(Moves(Upto(d)), "INCOME")
           expense == OverType(Moves(Upto(d)), "EXPENSE")
<1>0. Inception \in Int /\ Inception <= d + 1
  BY DEF Inception
<1>1. Journal(Upto(d))
  BY <1>0, WindowParts
<1>2. income \in Int /\ expense \in Int
  BY <1>1, MovesAreWhole, AccountsSplit
<1>3. TotalFor(tb, "INCOME") = (-1) * income
  BY <1>0, SignsOfSubtypes, TotalForIs
<1>4. TotalFor(tb, "EXPENSE") = 1 * expense
  BY <1>0, SignsOfSubtypes, TotalForIs
<1>5. balance_sheet(d).result = TotalFor(tb, "INCOME") - TotalFor(tb, "EXPENSE")
  BY DEF balance_sheet
<1> HIDE DEF income, expense, tb
<1>6. balance_sheet(d).result = -income - expense
  BY <1>2, <1>3, <1>4, <1>5
<1> QED BY <1>2, <1>6 DEF income, expense

\* A balance sheet balances.
LEMMA SheetBalances ==
  ASSUME Journal(entries), NEW d \in Int, d >= -1
  PROVE  balance_sheet(d).assets = balance_sheet(d).liabilities + balance_sheet(d).equity
<1> DEFINE tb == fn_trial_balance(Inception, d)
           g == Moves(Upto(d))
           income == OverType(g, "INCOME")
           expense == OverType(g, "EXPENSE")
           ca == OverSubtype(g, "CURRENT_ASSET")
           na == OverSubtype(g, "NONCURRENT_ASSET")
           cl == OverSubtype(g, "CURRENT_LIABILITY")
           nl == OverSubtype(g, "NONCURRENT_LIABILITY")
           eq == OverSubtype(g, "EQUITY")
<1>0. Inception \in Int /\ Inception <= d + 1
  BY DEF Inception
<1>1. Journal(Upto(d)) /\ \A a \in Accounts : g[a] \in Int
  BY <1>0, WindowParts, MovesAreWhole
<1>2. ca + na + (cl + nl) + eq + income + expense = 0
  <2>1. SumFunctionOnSet(g, Accounts) = 0
    BY <1>1, MovesCancel
  <2> HIDE DEF g
  <2>2. /\ SumFunctionOnSet(g, Accounts)
             = OverType(g, "ASSET") + OverType(g, "LIABILITY") + OverType(g, "EQUITY")
               + OverType(g, "INCOME") + OverType(g, "EXPENSE")
        /\ OverType(g, "ASSET") = ca + na /\ OverType(g, "LIABILITY") = cl + nl
        /\ OverType(g, "EQUITY") = eq
    BY <1>1, AccountsSplit
  <2> QED BY <2>1, <2>2
<1>3. /\ income \in Int /\ expense \in Int /\ ca \in Int /\ na \in Int /\ cl \in Int
      /\ nl \in Int /\ eq \in Int
  <2> HIDE DEF g
  <2> QED BY <1>1, AccountsSplit
<1>4. /\ Section(tb, ClosingNet, "CURRENT_ASSET") = 1 * ca
      /\ Section(tb, ClosingNet, "NONCURRENT_ASSET") = 1 * na
  BY <1>0, SignsOfSubtypes, SectionIs
<1>5. /\ Section(tb, ClosingNet, "CURRENT_LIABILITY") = (-1) * cl
      /\ Section(tb, ClosingNet, "NONCURRENT_LIABILITY") = (-1) * nl
  BY <1>0, SignsOfSubtypes, SectionIs
<1>6. Section(tb, ClosingNet, "EQUITY") = (-1) * eq
  BY <1>0, SignsOfSubtypes, SectionIs
<1>7. balance_sheet(d).result = -income - expense
  BY ResultIs
<1>8. /\ balance_sheet(d).assets = Section(tb, ClosingNet, "CURRENT_ASSET")
                                   + Section(tb, ClosingNet, "NONCURRENT_ASSET")
      /\ balance_sheet(d).liabilities = Section(tb, ClosingNet, "CURRENT_LIABILITY")
                                        + Section(tb, ClosingNet, "NONCURRENT_LIABILITY")
      /\ balance_sheet(d).equity = Section(tb, ClosingNet, "EQUITY") + balance_sheet(d).result
  BY DEF balance_sheet
<1> HIDE DEF tb, g, income, expense, ca, na, cl, nl, eq
<1> QED BY <1>2, <1>3, <1>4, <1>5, <1>6, <1>7, <1>8

\* The profit of a window explains the result.
LEMMA ProfitExplains ==
  ASSUME Journal(entries), NEW from \in Nat, NEW to \in Nat, 0 < from, from <= to
  PROVE  NetProfit(from, to) = balance_sheet(to).result - balance_sheet(from - 1).result
<1> DEFINE tb == fn_trial_balance(from, to)
           g == Moves(Upto(to))
           h == Moves(Upto(from - 1))
           m == Moves(Within(from, to))
           rev == OverSubtype(m, "REVENUE")
           cogs == OverSubtype(m, "COGS")
           opex == OverSubtype(m, "OPERATING_EXPENSE")
           other == OverSubtype(m, "OTHER_INCOME")
           lost == OverSubtype(m, "OTHER_EXPENSE")
<1>0. from \in Int /\ to \in Int /\ from <= to + 1 /\ from - 1 \in Int /\ to >= -1 /\ from - 1 >= -1
  OBVIOUS
<1>1. /\ Journal(Upto(to)) /\ Journal(Within(from, to)) /\ Journal(Upto(from - 1))
      /\ Upto(to) = Upto(from - 1) \cup Within(from, to)
      /\ Upto(from - 1) \cap Within(from, to) = {}
  BY <1>0, WindowParts
<1>2. \A a \in Accounts : h[a] \in Int /\ m[a] \in Int /\ g[a] = h[a] + m[a]
  <2> SUFFICES ASSUME NEW a \in Accounts
               PROVE  h[a] \in Int /\ m[a] \in Int /\ g[a] = h[a] + m[a]
    OBVIOUS
  <2>1. Movement(Upto(to), a) = Movement(Upto(from - 1), a) + Movement(Within(from, to), a)
    BY <1>1, MovementParts
  <2> QED BY <1>1, <2>1, MovementType DEF Moves
<1>3. ASSUME NEW t
      PROVE  /\ OverType(g, t) = OverType(h, t) + OverType(m, t)
             /\ OverType(h, t) \in Int /\ OverType(m, t) \in Int
  <2>1. IsFiniteSet(OfType(t)) /\ OfType(t) \subseteq Accounts
    BY AccountsAreFinite, FS_Subset DEF OfType
  <2>2. \A a \in OfType(t) : h[a] \in Int /\ m[a] \in Int /\ g[a] = h[a] + m[a]
    BY <1>2, <2>1
  <2> HIDE DEF g, h, m
  <2>3. SumFunctionOnSet(g, OfType(t))
          = SumFunctionOnSet(h, OfType(t)) + SumFunctionOnSet(m, OfType(t))
    BY <2>1, <2>2, SumPlus
  <2>4. SumFunctionOnSet(h, OfType(t)) \in Int /\ SumFunctionOnSet(m, OfType(t)) \in Int
    BY <2>1, <2>2, SumType
  <2> QED BY <2>3, <2>4 DEF OverType
<1>4. /\ balance_sheet(to).result = -OverType(g, "INCOME") - OverType(g, "EXPENSE")
      /\ balance_sheet(from - 1).result = -OverType(h, "INCOME") - OverType(h, "EXPENSE")
  BY <1>0, ResultIs
<1>5. /\ OverType(m, "INCOME") = rev + other /\ OverType(m, "EXPENSE") = cogs + opex + lost
      /\ rev \in Int /\ other \in Int /\ cogs \in Int /\ opex \in Int /\ lost \in Int
  <2> HIDE DEF m
  <2> QED BY <1>2, AccountsSplit
<1>6. /\ Section(tb, PeriodNet, "REVENUE") = (-1) * rev
      /\ Section(tb, PeriodNet, "OTHER_INCOME") = (-1) * other
  BY <1>0, SignsOfSubtypes, SectionIs
<1>7. /\ Section(tb, PeriodNet, "COGS") = 1 * cogs
      /\ Section(tb, PeriodNet, "OPERATING_EXPENSE") = 1 * opex
      /\ Section(tb, PeriodNet, "OTHER_EXPENSE") = 1 * lost
  BY <1>0, SignsOfSubtypes, SectionIs
<1>8. NetProfit(from, to)
        = Section(tb, PeriodNet, "REVENUE") - Section(tb, PeriodNet, "COGS")
          - Section(tb, PeriodNet, "OPERATING_EXPENSE")
          + Section(tb, PeriodNet, "OTHER_INCOME") - Section(tb, PeriodNet, "OTHER_EXPENSE")
  BY DEF NetProfit
<1> HIDE DEF tb, rev, cogs, opex, other, lost
<1>9. NetProfit(from, to) = -(OverType(m, "INCOME") + OverType(m, "EXPENSE"))
  BY <1>5, <1>6, <1>7, <1>8
<1>10. /\ OverType(g, "INCOME") = OverType(h, "INCOME") + OverType(m, "INCOME")
       /\ OverType(g, "EXPENSE") = OverType(h, "EXPENSE") + OverType(m, "EXPENSE")
       /\ OverType(h, "INCOME") \in Int /\ OverType(m, "INCOME") \in Int
       /\ OverType(h, "EXPENSE") \in Int /\ OverType(m, "EXPENSE") \in Int
  BY <1>3
<1> HIDE DEF g, h, m
<1> QED BY <1>4, <1>9, <1>10

\* The statements of balanced entries agree.
LEMMA StatementsOfJournal ==
  ASSUME ReportsAssumption, Journal(entries)
  PROVE  TrialBalancesJoin /\ BalanceSheetBalances /\ ProfitExplainsResult
<1>0. LastDate \in Nat /\ Inception = 0
  BY DEF ReportsAssumption, Inception
<1>1. TrialBalancesJoin
  <2> SUFFICES ASSUME NEW from \in Inception .. LastDate, NEW to \in Inception .. LastDate,
                      from <= to
               PROVE  LET tb == fn_trial_balance(from, to)
                          next == fn_trial_balance(to + 1, LastDate + 1)
                      IN  /\ Total(tb, "openingDebit") = Total(tb, "openingCredit")
                          /\ Total(tb, "periodDebit") = Total(tb, "periodCredit")
                          /\ Total(tb, "closingDebit") = Total(tb, "closingCredit")
                          /\ \A a \in DOMAIN tb :
                               /\ tb[a].closingDebit = next[a].openingDebit
                               /\ tb[a].closingCredit = next[a].openingCredit
                               /\ tb[a].closingDebit - tb[a].closingCredit
                                    = tb[a].openingDebit - tb[a].openingCredit
                                      + tb[a].periodDebit - tb[a].periodCredit
    BY DEF TrialBalancesJoin, Windows
  <2>1. from \in Int /\ to \in Int /\ from <= to + 1 /\ LastDate + 1 \in Int /\ to <= LastDate + 1
    BY <1>0
  <2>2. LET tb == fn_trial_balance(from, to)
        IN  /\ Total(tb, "openingDebit") = Total(tb, "openingCredit")
            /\ Total(tb, "periodDebit") = Total(tb, "periodCredit")
            /\ Total(tb, "closingDebit") = Total(tb, "closingCredit")
    BY <2>1, TrialBalanceBalances
  <2>3. ASSUME NEW a \in DOMAIN fn_trial_balance(from, to)
        PROVE  LET tb == fn_trial_balance(from, to)
                   next == fn_trial_balance(to + 1, LastDate + 1)
               IN  /\ tb[a].closingDebit = next[a].openingDebit
                   /\ tb[a].closingCredit = next[a].openingCredit
                   /\ tb[a].closingDebit - tb[a].closingCredit
                        = tb[a].openingDebit - tb[a].openingCredit
                          + tb[a].periodDebit - tb[a].periodCredit
    <3>1. a \in Touched(Upto(to))
      BY AccountsOfTrialBalance
    <3> QED BY <2>1, <3>1, TrialBalanceMoves
  <2> QED BY <2>2, <2>3
<1>2. BalanceSheetBalances
  <2> SUFFICES ASSUME NEW d \in Inception .. LastDate
               PROVE  balance_sheet(d).assets
                        = balance_sheet(d).liabilities + balance_sheet(d).equity
    BY DEF BalanceSheetBalances
  <2>1. d \in Int /\ d >= -1
    BY <1>0
  <2> QED BY <2>1, SheetBalances
<1>3. ProfitExplainsResult
  <2> SUFFICES ASSUME NEW from \in Inception .. LastDate, NEW to \in Inception .. LastDate,
                      from <= to, from > Inception
               PROVE  NetProfit(from, to)
                        = balance_sheet(to).result - balance_sheet(from - 1).result
    BY DEF ProfitExplainsResult, Windows
  <2>1. from \in Nat /\ to \in Nat /\ 0 < from
    BY <1>0
  <2> QED BY <2>1, ProfitExplains
<1> QED BY <1>1, <1>2, <1>3

----------------------------------------------------------------------------
(* The invariant of the postings. *)
RowRecords ==
  [id : RowIds, source : Payments \cup Credits, target : Documents, amount : Nat \ {0},
   date : 1 .. LastDate, reversed : BOOLEAN]
DocRecords ==
  [date : PostingDays \cup {0}, allocated : Int, credited : Int, open : Int]

\* What is posted, and the sets of things and rows the books are told by.
OnBooks == {x \in Things : Booked(x)}
DocsOf(side) == {x \in Documents : Side(x) = side}
CreditsOf(side) == {x \in Credits : Side(x) = side}
OnPaper == Documents \cup Credits
GivenBack(side) == {x \in Credits : Side(x) = side /\ (side = "AR" \/ Recoverable[x])}
Unreclaimed == {x \in Documents : Side(x) = "AP" /\ ~Recoverable[x]}
PaperWorth == [x \in Things |-> PaperStock(x)]
AmountIn == [r \in RowRecords |-> r.amount]
RowsFrom(s) == {r \in RowRecords : r.source = s}
RowsPaying(x) == {r \in RowRecords : r.target = x /\ r.source \in Payments}
RowsCrediting(x) == {r \in RowRecords : r.target = x /\ r.source \notin Payments}
PaidRows(side) == {r \in RowRecords : r.source \in Payments /\ Side(r.source) = side}

WorthPosted(K) == SumFunctionOnSet(Worth, K \cap OnBooks)
TaxPosted(K) == SumFunctionOnSet(Tax, K \cap OnBooks)
PaperPosted == SumFunctionOnSet(PaperWorth, OnPaper \cap OnBooks)
ShippedWorth == SumFunctionOnSet(Worth, shipped)
AmountLive(K) == SumFunctionOnSet(AmountIn, K \cap Live(rows))

TypesHold ==
  /\ plan \in Plans /\ stock \in Nat /\ shipped \subseteq plan
  /\ Journal(entries)
  /\ IsFiniteSet(rows) /\ rows \subseteq RowRecords
  /\ docs \in [Documents -> DocRecords]

\* Rows go by their ids, between things posted on one side.
RowsHold ==
  /\ \A r, q \in rows : r.id = q.id => r = q
  /\ \A r \in rows : /\ Side(r.source) = Side(r.target)
                     /\ Booked(r.source) /\ Booked(r.target)
                     /\ r.source \in Payments => Booked(r.id)
  /\ \A r \in Live(rows) : r.id \notin cancelled
  /\ \A i \in cancelled : i \in Payments \/ \E r \in rows : r.id = i

\* The lines an entry was written with.
LinesOf(x) ==
  IF x \in Documents THEN DocumentLines(x)
  ELSE IF x \in Credits THEN CreditLines(x)
  ELSE IF x \in Payments THEN PaymentLines(x) ELSE GoodsLines(x)
EntriesHold ==
  \A e \in entries :
    /\ e.reverses => e.of \in cancelled
    /\ ~e.reverses /\ e.of \in Documents \cup Credits \cup Payments => e.lines = LinesOf(e.of)
    /\ ~e.reverses /\ e.of \in RowIds =>
         \E r \in rows : r.id = e.of /\ r.source \in Payments
                         /\ e.lines = AllocationLines(r.source, r.amount)

\* A document carries what its live rows settle.
DocsHold ==
  \A x \in Documents :
    /\ docs[x].date # 0 <=> Booked(x)
    /\ docs[x].allocated = AmountLive(RowsPaying(x))
    /\ docs[x].credited = AmountLive(RowsCrediting(x))
    /\ docs[x].open = IF Booked(x) THEN Worth[x] - docs[x].allocated - docs[x].credited ELSE 0
    /\ docs[x].open >= 0

\* The accounts the reports read hold what is posted.
BooksHold ==
  /\ Movement(entries, "receivable")
       = WorthPosted(DocsOf("AR")) - WorthPosted(CreditsOf("AR")) - AmountLive(PaidRows("AR"))
  /\ Movement(entries, "payable")
       = WorthPosted(CreditsOf("AP")) - WorthPosted(DocsOf("AP")) + AmountLive(PaidRows("AP"))
  /\ Movement(entries, "inventory") = stock + PaperPosted + ShippedWorth
  /\ Movement(entries, "outputTax") + Movement(entries, "inputTax")
       = TaxPosted(GivenBack("AR")) - TaxPosted(GivenBack("AP"))
         - TaxPosted(DocsOf("AR")) + TaxPosted(DocsOf("AP")) - TaxPosted(Unreclaimed)

ReportsInvariant == TypesHold /\ RowsHold /\ EntriesHold /\ DocsHold /\ BooksHold

----------------------------------------------------------------------------
(* The lines of the postings. *)
LEMMA NoLinesAre ==
  /\ NoLines \in [Accounts -> Int]
  /\ \A a \in Accounts : NoLines[a] = 0
  /\ SumFunctionOnSet(NoLines, Accounts) = 0
<1>1. NoLines \in [Accounts -> Int] /\ \A a \in Accounts : NoLines[a] = 0
  BY DEF NoLines
<1> QED BY <1>1, AccountsAreFinite, SumOfZeros

\* One more line on an account that has none.
Lined(f, a, p) == [f EXCEPT ![a] = p]
LEMMA LineAdded ==
  ASSUME NEW f \in [Accounts -> Int], NEW a \in Accounts, NEW p \in Int, f[a] = 0
  PROVE  /\ Lined(f, a, p) \in [Accounts -> Int] /\ Lined(f, a, p)[a] = p
         /\ \A o \in Accounts \ {a} : Lined(f, a, p)[o] = f[o]
         /\ SumFunctionOnSet(Lined(f, a, p), Accounts) = SumFunctionOnSet(f, Accounts) + p
<1> DEFINE g == [f EXCEPT ![a] = p]
<1>1. /\ g \in [Accounts -> Int] /\ g[a] = p
      /\ \A o \in Accounts \ {a} : g[o] = f[o]
      /\ \A o \in Accounts : f[o] \in Int
  OBVIOUS
<1> HIDE DEF g
<1>2. SumFunctionOnSet(g, Accounts) = SumFunctionOnSet(f, Accounts) + (g[a] - f[a])
  BY <1>1, AccountsAreFinite, SumChange
<1>3. g[a] - f[a] = p
  BY <1>1
<1> QED BY <1>1, <1>2, <1>3 DEF g, Lined

LEMMA NamesAreAccounts ==
  /\ "cash" \in Accounts /\ "receivable" \in Accounts /\ "vendorAdvance" \in Accounts
  /\ "inventory" \in Accounts /\ "inputTax" \in Accounts /\ "equipment" \in Accounts
  /\ "payable" \in Accounts /\ "received" \in Accounts /\ "customerAdvance" \in Accounts
  /\ "outputTax" \in Accounts /\ "loan" \in Accounts /\ "retained" \in Accounts
  /\ "sales" \in Accounts /\ "salesReturns" \in Accounts /\ "cogs" \in Accounts
  /\ "purchases" \in Accounts /\ "purchaseReturns" \in Accounts /\ "fees" \in Accounts
  /\ "gain" \in Accounts /\ "lostTax" \in Accounts
BY AccountsAre

Two(a, b, p, q) == [NoLines EXCEPT ![a] = p, ![b] = q]
Three(a, b, c, p, q, r) == [NoLines EXCEPT ![a] = p, ![b] = q, ![c] = r]

LEMMA TwoLines ==
  ASSUME NEW a \in Accounts, NEW b \in Accounts, a # b, NEW p \in Int, NEW q \in Int
  PROVE  /\ Two(a, b, p, q) \in [Accounts -> Int]
         /\ Two(a, b, p, q)[a] = p /\ Two(a, b, p, q)[b] = q
         /\ \A o \in Accounts \ {a, b} : Two(a, b, p, q)[o] = 0
         /\ Sum(Two(a, b, p, q)) = p + q
<1> DEFINE f == Lined(NoLines, a, p)
           g == Lined(f, b, q)
<1>1. /\ f \in [Accounts -> Int] /\ f[a] = p
      /\ \A o \in Accounts \ {a} : f[o] = 0
      /\ SumFunctionOnSet(f, Accounts) = 0 + p
  BY NoLinesAre, LineAdded
<1>2. Two(a, b, p, q) = g
  BY DEF Two, Lined
<1> HIDE DEF f
<1>0. f[b] = 0
  BY <1>1
<1>3. /\ g \in [Accounts -> Int] /\ g[b] = q
      /\ \A o \in Accounts \ {b} : g[o] = f[o]
      /\ SumFunctionOnSet(g, Accounts) = SumFunctionOnSet(f, Accounts) + q
  BY <1>0, <1>1, LineAdded
<1> HIDE DEF g
<1>4. Sum(g) = p + q
  BY <1>1, <1>3 DEF Sum
<1>5. /\ g \in [Accounts -> Int] /\ g[a] = p /\ g[b] = q
      /\ \A o \in Accounts \ {a, b} : g[o] = 0
  BY <1>1, <1>3
<1> QED BY <1>2, <1>4, <1>5

LEMMA ThreeLines ==
  ASSUME NEW a \in Accounts, NEW b \in Accounts, NEW c \in Accounts, a # b, a # c, b # c,
         NEW p \in Int, NEW q \in Int, NEW r \in Int
  PROVE  /\ Three(a, b, c, p, q, r) \in [Accounts -> Int]
         /\ Three(a, b, c, p, q, r)[a] = p /\ Three(a, b, c, p, q, r)[b] = q
         /\ Three(a, b, c, p, q, r)[c] = r
         /\ \A o \in Accounts \ {a, b, c} : Three(a, b, c, p, q, r)[o] = 0
         /\ Sum(Three(a, b, c, p, q, r)) = p + q + r
<1> DEFINE f == Two(a, b, p, q)
           g == Lined(f, c, r)
<1>1. /\ f \in [Accounts -> Int] /\ f[a] = p /\ f[b] = q
      /\ \A o \in Accounts \ {a, b} : f[o] = 0
      /\ Sum(f) = p + q
  BY TwoLines
<1>2. Three(a, b, c, p, q, r) = g
  BY DEF Three, Two, Lined
<1> HIDE DEF f
<1>0. f[c] = 0
  BY <1>1
<1>3. /\ g \in [Accounts -> Int] /\ g[c] = r
      /\ \A o \in Accounts \ {c} : g[o] = f[o]
      /\ SumFunctionOnSet(g, Accounts) = SumFunctionOnSet(f, Accounts) + r
  BY <1>0, <1>1, LineAdded
<1> HIDE DEF g
<1>4. Sum(g) = p + q + r
  BY <1>1, <1>3 DEF Sum
<1>5. /\ g \in [Accounts -> Int] /\ g[a] = p /\ g[b] = q /\ g[c] = r
      /\ \A o \in Accounts \ {a, b, c} : g[o] = 0
  BY <1>1, <1>3
<1> QED BY <1>2, <1>4, <1>5

\* What the lines of a posting have on the accounts the reports read.
Reads(lines, receivable, payable, inventory, outputTax, inputTax) ==
  /\ lines \in [Accounts -> Int] /\ Sum(lines) = 0
  /\ lines["receivable"] = receivable /\ lines["payable"] = payable
  /\ lines["inventory"] = inventory
  /\ lines["outputTax"] = outputTax /\ lines["inputTax"] = inputTax

LEMMA WorthIsSplit ==
  ASSUME ReportsAssumption, NEW x \in Things
  PROVE  /\ Worth[x] \in Int /\ Tax[x] \in Int /\ Net(x) \in Int /\ Worth[x] = Net(x) + Tax[x]
         /\ Worth[x] > 0 /\ Net(x) > 0 /\ Tax[x] >= 0
BY DEF ReportsAssumption, Net

LEMMA KindsApart ==
  /\ Documents \cap Credits = {} /\ Documents \cap Payments = {} /\ Documents \cap Goods = {}
  /\ Credits \cap Payments = {} /\ Credits \cap Goods = {} /\ Payments \cap Goods = {}
  /\ Documents \subseteq Things /\ Credits \subseteq Things /\ Payments \subseteq Things
  /\ Goods \subseteq Things /\ Notes \subseteq Credits /\ Returns \subseteq Credits
BY DEF Documents, Credits, Notes, Returns, Payments, Goods

\* The five lines of a sale, or of one undone.
LEMMA SaleLinesRead ==
  ASSUME NEW worth \in Int, NEW net \in Int, NEW tax \in Int, NEW cost \in Int, worth = net + tax
  PROVE  Reads(SaleLines(worth, net, tax, cost), worth, 0, -cost, -tax, 0)
<1> DEFINE f == Three("receivable", "sales", "outputTax", worth, -net, -tax)
           g == Lined(f, "cogs", cost)
           h == Lined(g, "inventory", -cost)
<1>1. /\ "receivable" \in Accounts /\ "sales" \in Accounts /\ "outputTax" \in Accounts
      /\ "cogs" \in Accounts /\ "inventory" \in Accounts
      /\ -net \in Int /\ -tax \in Int /\ -cost \in Int /\ cost \in Int
  BY NamesAreAccounts
<1>2. /\ f \in [Accounts -> Int] /\ f["receivable"] = worth /\ f["outputTax"] = -tax
      /\ \A o \in Accounts \ {"receivable", "sales", "outputTax"} : f[o] = 0
      /\ Sum(f) = worth + (-net) + (-tax)
  BY <1>1, ThreeLines
<1>3. SaleLines(worth, net, tax, cost) = h
  BY DEF SaleLines, Lined, Three
<1> HIDE DEF f
<1>4. f["cogs"] = 0 /\ f["inventory"] = 0 /\ f["payable"] = 0 /\ f["inputTax"] = 0
  BY <1>2, AccountsAre
<1>5. /\ g \in [Accounts -> Int] /\ \A o \in Accounts \ {"cogs"} : g[o] = f[o]
      /\ SumFunctionOnSet(g, Accounts) = SumFunctionOnSet(f, Accounts) + cost
  <2>1. f \in [Accounts -> Int] /\ "cogs" \in Accounts /\ cost \in Int /\ f["cogs"] = 0
    BY <1>1, <1>2, <1>4
  <2> QED BY ONLY <2>1, LineAdded
<1> HIDE DEF g
<1>6. g["inventory"] = 0
  BY <1>1, <1>4, <1>5
<1>7. /\ h \in [Accounts -> Int] /\ h["inventory"] = -cost
      /\ \A o \in Accounts \ {"inventory"} : h[o] = g[o]
      /\ SumFunctionOnSet(h, Accounts) = SumFunctionOnSet(g, Accounts) + (-cost)
  <2>1. g \in [Accounts -> Int] /\ "inventory" \in Accounts /\ -cost \in Int
        /\ g["inventory"] = 0
    BY <1>1, <1>5, <1>6
  <2> QED BY ONLY <2>1, LineAdded
<1> HIDE DEF h
<1>8. /\ SumFunctionOnSet(f, Accounts) = worth + (-net) + (-tax)
      /\ Sum(h) = SumFunctionOnSet(h, Accounts)
  BY <1>2, <1>7 DEF Sum
<1>9. Sum(h) = 0
  BY <1>5, <1>7, <1>8
<1>10. /\ h["receivable"] = worth /\ h["outputTax"] = -tax /\ h["payable"] = 0
       /\ h["inputTax"] = 0
  BY <1>2, <1>4, <1>5, <1>7, NamesAreAccounts
<1> QED BY <1>3, <1>7, <1>9, <1>10 DEF Reads

\* What documents and credits book on inventory beside the movements.
LEMMA PaperStockIs ==
  ASSUME ReportsAssumption
  PROVE  /\ \A x \in Documents :
              PaperStock(x) = IF Side(x) = "AR" THEN -Cost[x]
                              ELSE IF Stocked[x] /\ ~FromReceipt[x] THEN Net(x) ELSE 0
         /\ \A x \in Credits :
              PaperStock(x) = IF Side(x) = "AR" THEN Restocked(x)
                              ELSE IF Stocked[x] THEN -Net(x) ELSE 0
         /\ \A x \in Documents \cup Credits : Cost[x] \in Nat /\ Restocked(x) \in Nat
<1>1. \A x \in Documents : Kind[x] \in {"INVOICE", "BILL"} /\ x \in Things
  BY DEF Documents
<1>2. \A x \in Credits : Kind[x] \in {"CREDIT_NOTE", "DEBIT_NOTE", "SALES_RETURN"} /\ x \in Things
  BY DEF Credits, Notes, Returns
<1>3. ASSUME NEW x \in Documents
      PROVE  PaperStock(x) = IF Side(x) = "AR" THEN -Cost[x]
                             ELSE IF Stocked[x] /\ ~FromReceipt[x] THEN Net(x) ELSE 0
  <2>1. CASE Kind[x] = "INVOICE"
    BY <2>1 DEF PaperStock, Side
  <2>2. CASE Kind[x] = "BILL"
    BY <2>2 DEF PaperStock, Side
  <2> QED BY <1>1, <2>1, <2>2
<1>4. ASSUME NEW x \in Credits
      PROVE  PaperStock(x) = IF Side(x) = "AR" THEN Restocked(x)
                             ELSE IF Stocked[x] THEN -Net(x) ELSE 0
  <2>1. CASE Kind[x] = "CREDIT_NOTE"
    BY <2>1 DEF PaperStock, Side, Restocked, Returns
  <2>2. CASE Kind[x] = "DEBIT_NOTE"
    BY <2>2 DEF PaperStock, Side
  <2>3. CASE Kind[x] = "SALES_RETURN"
    BY <1>2, <2>3 DEF PaperStock, Side, Restocked, Returns
  <2> QED BY <1>2, <2>1, <2>2, <2>3
<1>5. \A x \in Documents \cup Credits : Cost[x] \in Nat /\ Restocked(x) \in Nat
  BY <1>1, <1>2 DEF ReportsAssumption, Restocked
<1> QED BY <1>3, <1>4, <1>5

LEMMA DocumentLinesRead ==
  ASSUME ReportsAssumption, NEW x \in Documents
  PROVE  Reads(DocumentLines(x),
               IF Side(x) = "AR" THEN Worth[x] ELSE 0,
               IF Side(x) = "AR" THEN 0 ELSE -Worth[x],
               PaperStock(x),
               IF Side(x) = "AR" THEN -Tax[x] ELSE 0,
               IF Side(x) # "AR" /\ Recoverable[x] THEN Tax[x] ELSE 0)
<1>1. /\ Worth[x] \in Int /\ Tax[x] \in Int /\ Net(x) \in Int /\ Worth[x] = Net(x) + Tax[x]
  BY WorthIsSplit, KindsApart
<1>0. /\ PaperStock(x) = IF Side(x) = "AR" THEN -Cost[x]
                         ELSE IF Stocked[x] /\ ~FromReceipt[x] THEN Net(x) ELSE 0
      /\ Cost[x] \in Int
  BY PaperStockIs
<1>2. CASE Side(x) = "AR"
  <2>1. DocumentLines(x) = SaleLines(Worth[x], Net(x), Tax[x], Cost[x])
    BY <1>2 DEF DocumentLines
  <2>2. Reads(SaleLines(Worth[x], Net(x), Tax[x], Cost[x]), Worth[x], 0, -Cost[x], -Tax[x], 0)
    BY <1>0, <1>1, SaleLinesRead
  <2> QED BY <1>0, <1>2, <2>1, <2>2
<1>3. CASE Side(x) # "AR"
  <2> DEFINE f == Three("payable", Bought(x), InputTax(x), -Worth[x], Net(x), Tax[x])
  <2>1. /\ Bought(x) = IF ~Stocked[x] THEN "purchases"
                       ELSE IF FromReceipt[x] THEN "received" ELSE "inventory"
        /\ InputTax(x) = IF Recoverable[x] THEN "inputTax" ELSE "lostTax"
    BY DEF Bought, InputTax
  <2>2. /\ Bought(x) \in Accounts /\ InputTax(x) \in Accounts /\ "payable" \in Accounts
        /\ "payable" # Bought(x) /\ "payable" # InputTax(x) /\ Bought(x) # InputTax(x)
    BY <2>1, AccountsAre
  <2>3. /\ f \in [Accounts -> Int] /\ f["payable"] = -Worth[x] /\ f[Bought(x)] = Net(x)
        /\ f[InputTax(x)] = Tax[x]
        /\ \A o \in Accounts \ {"payable", Bought(x), InputTax(x)} : f[o] = 0
        /\ Sum(f) = (-Worth[x]) + Net(x) + Tax[x]
    BY <1>1, <2>2, ThreeLines
  <2>4. DocumentLines(x) = f
    BY <1>3 DEF DocumentLines, Three
  <2> HIDE DEF f
  <2>5. Sum(f) = 0
    BY <1>1, <2>3
  <2>6. f["receivable"] = 0 /\ f["outputTax"] = 0
    BY <2>1, <2>3, AccountsAre
  <2>7. f["inventory"] = PaperStock(x)
    BY <1>0, <1>3, <2>1, <2>3, AccountsAre
  <2>8. f["inputTax"] = IF Recoverable[x] THEN Tax[x] ELSE 0
    BY <2>1, <2>3, AccountsAre
  <2> QED BY <1>3, <2>3, <2>4, <2>5, <2>6, <2>7, <2>8 DEF Reads
<1> QED BY <1>2, <1>3

LEMMA CreditLinesRead ==
  ASSUME ReportsAssumption, NEW x \in Credits
  PROVE  Reads(CreditLines(x),
               IF Side(x) = "AR" THEN -Worth[x] ELSE 0,
               IF Side(x) = "AR" THEN 0 ELSE Worth[x],
               PaperStock(x),
               IF Side(x) = "AR" THEN Tax[x] ELSE 0,
               IF Side(x) # "AR" /\ Recoverable[x] THEN -Tax[x] ELSE 0)
<1>1. /\ Worth[x] \in Int /\ Tax[x] \in Int /\ Net(x) \in Int /\ Worth[x] = Net(x) + Tax[x]
  BY WorthIsSplit, KindsApart
<1>0. /\ PaperStock(x) = IF Side(x) = "AR" THEN Restocked(x)
                         ELSE IF Stocked[x] THEN -Net(x) ELSE 0
      /\ Restocked(x) \in Int
  BY PaperStockIs
<1>2. CASE Side(x) = "AR"
  <2> DEFINE worth == -Worth[x]
             net == -Net(x)
             tax == -Tax[x]
             cost == -Restocked(x)
  <2>1. CreditLines(x) = SaleLines(worth, net, tax, cost)
    BY <1>2 DEF CreditLines
  <2>2. /\ worth \in Int /\ net \in Int /\ tax \in Int /\ cost \in Int /\ worth = net + tax
        /\ -cost = Restocked(x) /\ -tax = Tax[x]
    BY <1>0, <1>1
  <2> HIDE DEF worth, net, tax, cost
  <2>3. Reads(SaleLines(worth, net, tax, cost), worth, 0, -cost, -tax, 0)
    BY <2>2, SaleLinesRead
  <2>4. Reads(CreditLines(x), worth, 0, PaperStock(x), Tax[x], 0)
    BY <1>0, <1>2, <2>1, <2>2, <2>3
  <2> QED BY <1>2, <2>4 DEF worth
<1>3. CASE Side(x) # "AR"
  <2> DEFINE f == Three("payable", SentBackFrom(x), InputTax(x), Worth[x], -Net(x), -Tax[x])
  <2>1. /\ SentBackFrom(x) = IF Stocked[x] THEN "inventory" ELSE "purchaseReturns"
        /\ InputTax(x) = IF Recoverable[x] THEN "inputTax" ELSE "lostTax"
    BY DEF SentBackFrom, InputTax
  <2>2. /\ SentBackFrom(x) \in Accounts /\ InputTax(x) \in Accounts /\ "payable" \in Accounts
        /\ "payable" # SentBackFrom(x) /\ "payable" # InputTax(x)
        /\ SentBackFrom(x) # InputTax(x)
    BY <2>1, AccountsAre
  <2>3. /\ f \in [Accounts -> Int] /\ f["payable"] = Worth[x] /\ f[SentBackFrom(x)] = -Net(x)
        /\ f[InputTax(x)] = -Tax[x]
        /\ \A o \in Accounts \ {"payable", SentBackFrom(x), InputTax(x)} : f[o] = 0
        /\ Sum(f) = Worth[x] + (-Net(x)) + (-Tax[x])
    BY <1>1, <2>2, ThreeLines
  <2>4. CreditLines(x) = f
    BY <1>3 DEF CreditLines, Three
  <2> HIDE DEF f
  <2>5. Sum(f) = 0
    BY <1>1, <2>3
  <2>6. f["receivable"] = 0 /\ f["outputTax"] = 0
    BY <2>1, <2>3, AccountsAre
  <2>7. f["inventory"] = PaperStock(x)
    BY <1>0, <1>3, <2>1, <2>3, AccountsAre
  <2>8. f["inputTax"] = IF Recoverable[x] THEN -Tax[x] ELSE 0
    BY <2>1, <2>3, AccountsAre
  <2> QED BY <1>3, <2>3, <2>4, <2>5, <2>6, <2>7, <2>8 DEF Reads
<1> QED BY <1>2, <1>3

LEMMA PaymentLinesRead ==
  ASSUME ReportsAssumption, NEW x \in Payments
  PROVE  Reads(PaymentLines(x), 0, 0, 0, 0, 0)
<1>1. /\ Worth[x] \in Int /\ Tax[x] \in Int /\ Net(x) \in Int /\ Worth[x] = Net(x) + Tax[x]
  BY WorthIsSplit, KindsApart
<1>2. CASE Side(x) = "AR"
  <2> DEFINE f == Three("cash", "fees", "customerAdvance", Net(x), Tax[x], -Worth[x])
  <2>1. /\ f \in [Accounts -> Int]
        /\ \A o \in Accounts \ {"cash", "fees", "customerAdvance"} : f[o] = 0
        /\ Sum(f) = Net(x) + Tax[x] + (-Worth[x])
    <3>1. "cash" \in Accounts /\ "fees" \in Accounts /\ "customerAdvance" \in Accounts
          /\ -Worth[x] \in Int
      BY <1>1, NamesAreAccounts
    <3> QED BY <1>1, <3>1, ThreeLines
  <2>2. PaymentLines(x) = f
    BY <1>2 DEF PaymentLines, Three
  <2> HIDE DEF f
  <2>3. Sum(f) = 0
    BY <1>1, <2>1
  <2>4. /\ f["receivable"] = 0 /\ f["payable"] = 0 /\ f["inventory"] = 0
        /\ f["outputTax"] = 0 /\ f["inputTax"] = 0
    BY <2>1, AccountsAre
  <2> QED BY <2>1, <2>2, <2>3, <2>4 DEF Reads
<1>3. CASE Side(x) # "AR"
  <2> DEFINE out == -(Worth[x] + Tax[x])
             f == Three("vendorAdvance", "fees", "cash", Worth[x], Tax[x], out)
  <2>1. out \in Int /\ Worth[x] + Tax[x] + out = 0
    BY <1>1
  <2>2. PaymentLines(x) = f
    BY <1>3 DEF PaymentLines, Three
  <2> HIDE DEF out
  <2>0. "vendorAdvance" \in Accounts /\ "fees" \in Accounts /\ "cash" \in Accounts
    BY NamesAreAccounts
  <2>3. /\ f \in [Accounts -> Int] /\ f["vendorAdvance"] = Worth[x] /\ f["fees"] = Tax[x]
        /\ f["cash"] = out
        /\ \A o \in Accounts \ {"vendorAdvance", "fees", "cash"} : f[o] = 0
        /\ Sum(f) = Worth[x] + Tax[x] + out
    BY <1>1, <2>0, <2>1, ThreeLines
  <2> HIDE DEF f
  <2>4. Sum(f) = 0
    BY <2>1, <2>3
  <2>5. /\ f["receivable"] = 0 /\ f["payable"] = 0 /\ f["inventory"] = 0
        /\ f["outputTax"] = 0 /\ f["inputTax"] = 0
    BY <2>3, AccountsAre
  <2> QED BY <2>2, <2>3, <2>4, <2>5 DEF Reads
<1> QED BY <1>2, <1>3

LEMMA AllocationLinesRead ==
  ASSUME NEW x, NEW amount \in Int
  PROVE  Reads(AllocationLines(x, amount), IF Side(x) = "AR" THEN -amount ELSE 0,
               IF Side(x) = "AR" THEN 0 ELSE amount, 0, 0, 0)
<1>1. CASE Side(x) = "AR"
  <2> DEFINE f == Two("customerAdvance", "receivable", amount, -amount)
  <2>1. /\ f \in [Accounts -> Int] /\ f["receivable"] = -amount
        /\ \A o \in Accounts \ {"customerAdvance", "receivable"} : f[o] = 0
        /\ Sum(f) = amount + (-amount)
    BY NamesAreAccounts, TwoLines
  <2>2. AllocationLines(x, amount) = f
    BY <1>1 DEF AllocationLines, Two
  <2> HIDE DEF f
  <2>3. Sum(f) = 0
    BY <2>1
  <2>4. /\ f["payable"] = 0 /\ f["inventory"] = 0 /\ f["outputTax"] = 0 /\ f["inputTax"] = 0
    BY <2>1, AccountsAre
  <2> QED BY <1>1, <2>1, <2>2, <2>3, <2>4 DEF Reads
<1>2. CASE Side(x) # "AR"
  <2> DEFINE f == Two("payable", "vendorAdvance", amount, -amount)
  <2>1. /\ f \in [Accounts -> Int] /\ f["payable"] = amount
        /\ \A o \in Accounts \ {"payable", "vendorAdvance"} : f[o] = 0
        /\ Sum(f) = amount + (-amount)
    BY NamesAreAccounts, TwoLines
  <2>2. AllocationLines(x, amount) = f
    BY <1>2 DEF AllocationLines, Two
  <2> HIDE DEF f
  <2>3. Sum(f) = 0
    BY <2>1
  <2>4. /\ f["receivable"] = 0 /\ f["inventory"] = 0 /\ f["outputTax"] = 0 /\ f["inputTax"] = 0
    BY <2>1, AccountsAre
  <2> QED BY <1>2, <2>1, <2>2, <2>3, <2>4 DEF Reads
<1> QED BY <1>1, <1>2

LEMMA GoodsLinesRead ==
  ASSUME ReportsAssumption, NEW x \in Goods
  PROVE  Reads(GoodsLines(x), 0, 0, StockEffect(x), 0, 0)
<1>1. Worth[x] \in Int
  BY WorthIsSplit, KindsApart
<1>2. Kind[x] \in {"GOODS_RECEIPT", "DELIVERY", "ADJUSTMENT"}
  BY DEF Goods
<1>3. CASE Kind[x] = "GOODS_RECEIPT"
  <2> DEFINE f == Two("inventory", "received", Worth[x], -Worth[x])
  <2>1. /\ f \in [Accounts -> Int] /\ f["inventory"] = Worth[x]
        /\ \A o \in Accounts \ {"inventory", "received"} : f[o] = 0
        /\ Sum(f) = Worth[x] + (-Worth[x])
    BY <1>1, NamesAreAccounts, TwoLines
  <2>2. GoodsLines(x) = f /\ StockEffect(x) = Worth[x]
    BY <1>3 DEF GoodsLines, StockEffect, Two
  <2> HIDE DEF f
  <2>3. Sum(f) = 0
    BY <1>1, <2>1
  <2>4. /\ f["receivable"] = 0 /\ f["payable"] = 0 /\ f["outputTax"] = 0 /\ f["inputTax"] = 0
    BY <2>1, AccountsAre
  <2> QED BY <2>1, <2>2, <2>3, <2>4 DEF Reads
<1>4. CASE Kind[x] = "DELIVERY"
  <2> DEFINE f == Two("cogs", "inventory", Worth[x], -Worth[x])
  <2>1. /\ f \in [Accounts -> Int] /\ f["inventory"] = -Worth[x]
        /\ \A o \in Accounts \ {"cogs", "inventory"} : f[o] = 0
        /\ Sum(f) = Worth[x] + (-Worth[x])
    BY <1>1, NamesAreAccounts, TwoLines
  <2>2. GoodsLines(x) = f /\ StockEffect(x) = -Worth[x]
    BY <1>4 DEF GoodsLines, StockEffect, Two
  <2> HIDE DEF f
  <2>3. Sum(f) = 0
    BY <1>1, <2>1
  <2>4. /\ f["receivable"] = 0 /\ f["payable"] = 0 /\ f["outputTax"] = 0 /\ f["inputTax"] = 0
    BY <2>1, AccountsAre
  <2> QED BY <2>1, <2>2, <2>3, <2>4 DEF Reads
<1>5. CASE Kind[x] = "ADJUSTMENT"
  <2> DEFINE f == Two("inventory", "gain", Worth[x], -Worth[x])
  <2>1. /\ f \in [Accounts -> Int] /\ f["inventory"] = Worth[x]
        /\ \A o \in Accounts \ {"inventory", "gain"} : f[o] = 0
        /\ Sum(f) = Worth[x] + (-Worth[x])
    BY <1>1, NamesAreAccounts, TwoLines
  <2>2. GoodsLines(x) = f /\ StockEffect(x) = Worth[x]
    BY <1>5 DEF GoodsLines, StockEffect, Two
  <2> HIDE DEF f
  <2>3. Sum(f) = 0
    BY <1>1, <2>1
  <2>4. /\ f["receivable"] = 0 /\ f["payable"] = 0 /\ f["outputTax"] = 0 /\ f["inputTax"] = 0
    BY <2>1, AccountsAre
  <2> QED BY <2>1, <2>2, <2>3, <2>4 DEF Reads
<1> QED BY <1>2, <1>3, <1>4, <1>5

LEMMA ManualLinesRead ==
  ASSUME ReportsAssumption, NEW x \in Things
  PROVE  Reads(ManualLines(x), 0, 0, 0, 0, 0)
<1>1. Worth[x] \in Int
  BY WorthIsSplit
<1> DEFINE f == Two("equipment", "loan", Worth[x], -Worth[x])
<1>2. /\ f \in [Accounts -> Int]
      /\ \A o \in Accounts \ {"equipment", "loan"} : f[o] = 0
      /\ Sum(f) = Worth[x] + (-Worth[x])
  BY <1>1, NamesAreAccounts, TwoLines
<1>3. ManualLines(x) = f
  BY DEF ManualLines, Two
<1> HIDE DEF f
<1>4. Sum(f) = 0
  BY <1>1, <1>2
<1>5. /\ f["receivable"] = 0 /\ f["payable"] = 0 /\ f["inventory"] = 0
      /\ f["outputTax"] = 0 /\ f["inputTax"] = 0
  BY <1>2, AccountsAre
<1> QED BY <1>2, <1>3, <1>4, <1>5 DEF Reads

LEMMA ClosingLinesRead ==
  ASSUME Journal(entries), NEW d \in Int
  PROVE  Reads(ClosingLines(d), 0, 0, 0, 0, 0)
<1> DEFINE f == ClosingLines(d)
           m == [b \in ResultAccounts |-> Balance(b, d)]
           total == SumFunctionOnSet(m, ResultAccounts)
           rest == Accounts \ (ResultAccounts \cup {"retained"})
<1>1. /\ ResultAccounts \in SUBSET Accounts /\ "retained" \in Accounts \ ResultAccounts
      /\ "receivable" \in rest /\ "payable" \in rest /\ "inventory" \in rest
      /\ "outputTax" \in rest /\ "inputTax" \in rest
  <2>1. \A a \in Accounts : a \in ResultAccounts
          <=> SubtypeOf[a] \in {"REVENUE", "OTHER_INCOME", "COGS", "OPERATING_EXPENSE",
                                "OTHER_EXPENSE"}
    BY TypeIsOfSubtype DEF ResultAccounts
  <2>2. \A a \in {"retained", "receivable", "payable", "inventory", "outputTax", "inputTax"} :
          /\ a \in Accounts
          /\ SubtypeOf[a] \in {"EQUITY", "CURRENT_ASSET", "CURRENT_LIABILITY"}
    BY AccountsAre DEF SubtypeOf
  <2>3. ResultAccounts \in SUBSET Accounts
    BY DEF ResultAccounts
  <2>4. \A a \in {"retained", "receivable", "payable", "inventory", "outputTax", "inputTax"} :
          a \in Accounts \ ResultAccounts
    BY <2>1, <2>2
  <2> QED BY <2>3, <2>4
<1>2. IsFiniteSet(ResultAccounts)
  BY <1>1, AccountsAreFinite, FS_Subset
<1>3. \A b \in ResultAccounts : m[b] \in Int
  <2>1. Journal(Upto(d))
    BY JournalPart DEF Upto
  <2> QED BY <1>1, <2>1, MovementType DEF Balance
<1>4. total \in Int
  BY <1>2, <1>3, SumType
<1>5. Sum([b \in ResultAccounts |-> Balance(b, d)]) = total
  BY DEF Sum
<1>6. /\ f \in [Accounts -> Int]
      /\ \A a \in ResultAccounts : f[a] = -m[a]
      /\ f["retained"] = total
      /\ \A a \in rest : f[a] = 0
  <2>1. \A a \in Accounts : f[a] = IF a \in ResultAccounts THEN -Balance(a, d)
                                   ELSE IF a = "retained" THEN total ELSE 0
    BY <1>5 DEF ClosingLines
  <2>2. f = [a \in Accounts |-> f[a]]
    BY DEF ClosingLines
  <2>3. \A b \in ResultAccounts : m[b] = Balance(b, d)
    OBVIOUS
  <2> HIDE DEF f, m, total
  <2>4. /\ \A a \in ResultAccounts : f[a] = -m[a]
        /\ f["retained"] = total
        /\ \A a \in rest : f[a] = 0
    BY <1>1, <2>1, <2>3
  <2>5. \A a \in Accounts : f[a] \in Int
    BY <1>3, <1>4, <2>1, <2>3
  <2> QED BY <2>2, <2>4, <2>5
<1> HIDE DEF f, m
<1>7. SumFunctionOnSet(f, ResultAccounts) = -total
  <2>1. \A a \in ResultAccounts : m[a] \in Int /\ f[a] = (-1) * m[a]
    BY <1>3, <1>6
  <2>2. SumFunctionOnSet(f, ResultAccounts) = (-1) * SumFunctionOnSet(m, ResultAccounts)
    BY <1>2, <2>1, SumScale
  <2> HIDE DEF total
  <2>3. SumFunctionOnSet(f, ResultAccounts) = (-1) * total
    BY <2>2 DEF total
  <2> QED BY <1>4, <2>3
<1>8. SumFunctionOnSet(f, Accounts \ ResultAccounts) = total
  <2> DEFINE R == {} \cup {"retained"}
             E == Accounts \ ResultAccounts
  <2>1. IsFiniteSet(E) /\ IsFiniteSet({}) /\ R \in SUBSET E /\ "retained" \notin {}
    BY <1>1, AccountsAreFinite, FS_Subset, FS_EmptySet
  <2>2. (\A a \in R : f[a] \in Int /\ f[a] = f[a]) /\ (\A a \in E \ R : f[a] = 0)
        /\ \A a \in {} \cup {"retained"} : f[a] \in Int
    BY <1>1, <1>4, <1>6
  <2>3. SumFunctionOnSet(f, {} \cup {"retained"}) = f["retained"] + SumFunctionOnSet(f, {})
    BY <2>1, <2>2, SumAdd
  <2>4. SumFunctionOnSet(f, R) = total
    BY <1>4, <1>6, <2>3, SumEmpty
  <2> HIDE DEF R, E
  <2>5. SumFunctionOnSet(f, E) = SumFunctionOnSet(f, R)
    BY <2>1, <2>2, SumSupport
  <2> QED BY <2>4, <2>5 DEF E
<1>9. Sum(f) = 0
  <2> DEFINE E == Accounts \ ResultAccounts
  <2>1. IsFiniteSet(E) /\ ResultAccounts \cap E = {} /\ ResultAccounts \cup E = Accounts
        /\ \A a \in ResultAccounts \cup E : f[a] \in Int
    BY <1>1, <1>6, AccountsAreFinite, FS_Subset
  <2>2. SumFunctionOnSet(f, E) = total
    BY <1>8
  <2> HIDE DEF E
  <2>3. SumFunctionOnSet(f, ResultAccounts \cup E)
          = SumFunctionOnSet(f, ResultAccounts) + SumFunctionOnSet(f, E)
    BY <1>2, <2>1, SumParts
  <2> HIDE DEF total
  <2>4. SumFunctionOnSet(f, Accounts) = -total + total
    BY <1>7, <2>1, <2>2, <2>3
  <2>5. SumFunctionOnSet(f, Accounts) = 0
    BY <1>4, <2>4
  <2> QED BY <1>6, <2>5 DEF Sum
<1> QED BY <1>1, <1>6, <1>9 DEF Reads, f

----------------------------------------------------------------------------
(* An entry written grows the journal, what is posted, and the books. *)
LEMMA SetsAreFinite ==
  ASSUME ReportsAssumption
  PROVE  /\ IsFiniteSet(Things) /\ IsFiniteSet(Documents) /\ IsFiniteSet(Credits)
         /\ IsFiniteSet(OnBooks) /\ OnBooks \subseteq Things
BY KindsApart, FS_Subset DEF ReportsAssumption, OnBooks

LEMMA LiveIsFinite ==
  ASSUME TypesHold
  PROVE  IsFiniteSet(Live(rows)) /\ Live(rows) \subseteq RowRecords
BY FS_Subset DEF TypesHold, Live

LEMMA AmountsAreWhole == \A r \in RowRecords : AmountIn[r] \in Int /\ AmountIn[r] = r.amount
                                               /\ r.amount > 0
BY DEF AmountIn, RowRecords

LEMMA JournalGrows ==
  ASSUME NEW S, Journal(S), NEW e \in EntryRecords, Sum(e.lines) = 0
  PROVE  Journal(S \cup {e})
<1>1. IsFiniteSet(S \cup {e})
  BY FS_AddElement DEF Journal
<1> QED BY <1>1 DEF Journal

\* What one more member of a set adds to a sum over it.
Part(K, f, x) == IF x \in K THEN f[x] ELSE 0

LEMMA PostedIsMore ==
  ASSUME NEW x \in Things, ~Booked(x), NEW date, NEW lines,
         entries' = entries \cup {Entry(x, date, lines)}
  PROVE  /\ \A y : Booked(y)' <=> Booked(y) \/ y = x
         /\ OnBooks' = OnBooks \cup {x} /\ x \notin OnBooks
         /\ Entry(x, date, lines) \notin entries
<1>1. /\ Entry(x, date, lines).of = x /\ ~Entry(x, date, lines).reverses
      /\ Entry(x, date, lines).lines = lines /\ Entry(x, date, lines).date = date
  BY DEF Entry
<1>2. \A y : Booked(y)' <=> Booked(y) \/ y = x
  BY <1>1 DEF Booked, Original
<1>3. Entry(x, date, lines) \notin entries
  BY <1>1 DEF Booked, Original
<1> QED BY <1>2, <1>3 DEF OnBooks

LEMMA PostedSumsGrow ==
  ASSUME ReportsAssumption, NEW x \in Things, x \notin OnBooks, OnBooks' = OnBooks \cup {x},
         NEW K \in SUBSET Things
  PROVE  /\ WorthPosted(K)' = WorthPosted(K) + Part(K, Worth, x)
         /\ TaxPosted(K)' = TaxPosted(K) + Part(K, Tax, x)
         /\ WorthPosted(K) \in Int /\ TaxPosted(K) \in Int
         /\ Part(K, Worth, x) \in Int /\ Part(K, Tax, x) \in Int
<1>1. \A y \in K : Worth[y] \in Int /\ Tax[y] \in Int
  BY WorthIsSplit
<1>2. IsFiniteSet(OnBooks) /\ IsFiniteSet(K \cap OnBooks)
  BY SetsAreFinite, FS_Subset
<1>3. SumFunctionOnSet(Worth, K \cap (OnBooks \cup {x}))
        = SumFunctionOnSet(Worth, K \cap OnBooks) + IF x \in K THEN Worth[x] ELSE 0
  BY <1>1, <1>2, SumJoins
<1>4. SumFunctionOnSet(Tax, K \cap (OnBooks \cup {x}))
        = SumFunctionOnSet(Tax, K \cap OnBooks) + IF x \in K THEN Tax[x] ELSE 0
  BY <1>1, <1>2, SumJoins
<1>5. WorthPosted(K) \in Int /\ TaxPosted(K) \in Int
  BY <1>1, <1>2, SumType DEF WorthPosted, TaxPosted
<1> QED BY <1>1, <1>3, <1>4, <1>5 DEF WorthPosted, TaxPosted, Part

LEMMA PaperIsWhole ==
  ASSUME ReportsAssumption
  PROVE  \A y \in OnPaper : PaperWorth[y] = PaperStock(y) /\ PaperWorth[y] \in Int
<1> SUFFICES ASSUME NEW y \in OnPaper
             PROVE  PaperWorth[y] = PaperStock(y) /\ PaperWorth[y] \in Int
  OBVIOUS
<1>1. y \in Things /\ y \in Documents \cup Credits
  BY KindsApart DEF OnPaper
<1>2. Net(y) \in Int /\ Cost[y] \in Int /\ Restocked(y) \in Int
  BY <1>1, WorthIsSplit, PaperStockIs
<1>3. PaperStock(y) \in {0, Net(y), -Net(y), -Cost[y], Restocked(y)}
  BY <1>1, PaperStockIs
<1>4. -Net(y) \in Int /\ -Cost[y] \in Int /\ 0 \in Int
  BY <1>2
<1>5. PaperStock(y) \in Int
  BY <1>2, <1>3, <1>4
<1> QED BY <1>1, <1>5 DEF PaperWorth

LEMMA ShippedIsWhole ==
  ASSUME ReportsAssumption, TypesHold
  PROVE  /\ ShippedWorth \in Nat /\ IsFiniteSet(shipped) /\ shipped \subseteq Things
         /\ \A y \in Things : Worth[y] \in Nat
<1>1. shipped \subseteq Things
  BY DEF TypesHold, ReportsAssumption
<1>2. IsFiniteSet(shipped)
  BY <1>1, SetsAreFinite, FS_Subset
<1>3. \A y \in Things : Worth[y] \in Nat
  BY DEF ReportsAssumption
<1> QED BY <1>1, <1>2, <1>3, SumNat DEF ShippedWorth

LEMMA PaperGrows ==
  ASSUME ReportsAssumption, NEW x \in Things, x \notin OnBooks, OnBooks' = OnBooks \cup {x}
  PROVE  /\ PaperPosted' = PaperPosted + Part(OnPaper, PaperWorth, x)
         /\ PaperPosted \in Int /\ Part(OnPaper, PaperWorth, x) \in Int
<1>1. \A y \in OnPaper : PaperWorth[y] \in Int
  BY PaperIsWhole
<1>2. IsFiniteSet(OnBooks) /\ IsFiniteSet(OnPaper \cap OnBooks)
  BY SetsAreFinite, FS_Subset
<1>3. SumFunctionOnSet(PaperWorth, OnPaper \cap (OnBooks \cup {x}))
        = SumFunctionOnSet(PaperWorth, OnPaper \cap OnBooks)
          + IF x \in OnPaper THEN PaperWorth[x] ELSE 0
  BY <1>1, <1>2, SumJoins
<1>4. PaperPosted \in Int
  BY <1>1, <1>2, SumType DEF PaperPosted
<1> QED BY <1>1, <1>3, <1>4 DEF PaperPosted, Part

LEMMA SetsOfThings ==
  /\ \A side : DocsOf(side) \in SUBSET Things /\ CreditsOf(side) \in SUBSET Things
               /\ GivenBack(side) \in SUBSET Things
  /\ Unreclaimed \in SUBSET Things /\ OnPaper \in SUBSET Things
BY KindsApart DEF DocsOf, CreditsOf, GivenBack, Unreclaimed, OnPaper

LEMMA LiveAmountType ==
  ASSUME TypesHold, NEW K \in SUBSET RowRecords
  PROVE  AmountLive(K) \in Nat
<1>1. IsFiniteSet(K \cap Live(rows))
  BY LiveIsFinite, FS_Subset
<1>2. \A r \in K \cap Live(rows) : AmountIn[r] \in Nat
  BY AmountsAreWhole
<1> QED BY <1>1, <1>2, SumNat DEF AmountLive

LEMMA PaidRowsAre == \A side : PaidRows(side) \in SUBSET RowRecords
BY DEF PaidRows

\* The journal after an entry of x.
LEMMA PostedJournal ==
  ASSUME ReportsAssumption, Journal(entries), NEW x \in Things, ~Booked(x),
         NEW date \in 1 .. LastDate, NEW lines \in [Accounts -> Int], Sum(lines) = 0,
         entries' = entries \cup {Entry(x, date, lines)}
  PROVE  /\ Journal(entries')
         /\ \A a \in Accounts : /\ Movement(entries', a) = Movement(entries, a) + lines[a]
                                /\ Movement(entries, a) \in Int
<1> DEFINE e == Entry(x, date, lines)
<1>1. e \in EntryRecords /\ e.lines = lines
  BY DEF Entry, EntryRecords
<1>2. e \notin entries
  BY PostedIsMore
<1>3. entries' = entries \cup {e}
  OBVIOUS
<1> HIDE DEF e
<1>4. Journal(entries \cup {e})
  BY <1>1, JournalGrows
<1>5. ASSUME NEW a \in Accounts
      PROVE  /\ Movement(entries \cup {e}, a) = Movement(entries, a) + e.lines[a]
             /\ Movement(entries, a) \in Int
  <2>1. Journal(entries) /\ a \in Accounts
    OBVIOUS
  <2>2. Movement(entries \cup {e}, a) = Movement(entries, a) + e.lines[a]
    BY ONLY <1>2, <1>4, <2>1, MovementGrows
  <2>3. Movement(entries, a) \in Int
    BY ONLY <2>1, MovementType
  <2> QED BY <2>2, <2>3
<1> QED BY <1>1, <1>3, <1>4, <1>5

\* The books after an entry of x with such lines.
LEMMA PostedBooks ==
  ASSUME ReportsAssumption, TypesHold, BooksHold, NEW x \in Things, ~Booked(x),
         NEW date \in 1 .. LastDate, NEW lines,
         entries' = entries \cup {Entry(x, date, lines)}, rows' = rows, stock' \in Nat,
         shipped' = shipped, NEW o \in Int, NEW i \in Int,
         Reads(lines, Part(DocsOf("AR"), Worth, x) - Part(CreditsOf("AR"), Worth, x),
               Part(CreditsOf("AP"), Worth, x) - Part(DocsOf("AP"), Worth, x),
               (stock' - stock) + Part(OnPaper, PaperWorth, x), o, i),
         o + i = Part(GivenBack("AR"), Tax, x) - Part(GivenBack("AP"), Tax, x)
                 - Part(DocsOf("AR"), Tax, x) + Part(DocsOf("AP"), Tax, x)
                 - Part(Unreclaimed, Tax, x)
  PROVE  BooksHold'
<1>1. lines \in [Accounts -> Int] /\ Sum(lines) = 0
  BY DEF Reads
<1>2. \A a \in Accounts : /\ Movement(entries', a) = Movement(entries, a) + lines[a]
                          /\ Movement(entries, a) \in Int
  BY <1>1, PostedJournal DEF TypesHold
<1>3. OnBooks' = OnBooks \cup {x} /\ x \notin OnBooks
  BY PostedIsMore
<1>4. \A K : AmountLive(K)' = AmountLive(K)
  BY DEF AmountLive
<1>5. AmountLive(PaidRows("AR")) \in Int /\ AmountLive(PaidRows("AP")) \in Int
  BY PaidRowsAre, LiveAmountType
<1>6. \A K \in SUBSET Things :
        /\ WorthPosted(K)' = WorthPosted(K) + Part(K, Worth, x)
        /\ TaxPosted(K)' = TaxPosted(K) + Part(K, Tax, x)
        /\ WorthPosted(K) \in Int /\ TaxPosted(K) \in Int
        /\ Part(K, Worth, x) \in Int /\ Part(K, Tax, x) \in Int
  BY <1>3, PostedSumsGrow
<1>7. /\ PaperPosted' = PaperPosted + Part(OnPaper, PaperWorth, x)
      /\ PaperPosted \in Int /\ Part(OnPaper, PaperWorth, x) \in Int
  BY <1>3, PaperGrows
<1>8. (Movement(entries, "receivable")
        = WorthPosted(DocsOf("AR")) - WorthPosted(CreditsOf("AR")) - AmountLive(PaidRows("AR")))'
  <2>1. Movement(entries', "receivable") = Movement(entries, "receivable")
          + (Part(DocsOf("AR"), Worth, x) - Part(CreditsOf("AR"), Worth, x))
    BY <1>2, NamesAreAccounts DEF Reads
  <2>2. Movement(entries, "receivable")
          = WorthPosted(DocsOf("AR")) - WorthPosted(CreditsOf("AR")) - AmountLive(PaidRows("AR"))
    BY DEF BooksHold
  <2>3. /\ WorthPosted(DocsOf("AR"))' = WorthPosted(DocsOf("AR")) + Part(DocsOf("AR"), Worth, x)
        /\ WorthPosted(DocsOf("AR")) \in Int /\ Part(DocsOf("AR"), Worth, x) \in Int
    BY <1>6, SetsOfThings
  <2>4. /\ WorthPosted(CreditsOf("AR"))'
             = WorthPosted(CreditsOf("AR")) + Part(CreditsOf("AR"), Worth, x)
        /\ WorthPosted(CreditsOf("AR")) \in Int /\ Part(CreditsOf("AR"), Worth, x) \in Int
    BY <1>6, SetsOfThings
  <2>5. AmountLive(PaidRows("AR"))' = AmountLive(PaidRows("AR"))
    BY <1>4
  <2> QED BY <1>5, <2>1, <2>2, <2>3, <2>4, <2>5
<1>9. (Movement(entries, "payable")
        = WorthPosted(CreditsOf("AP")) - WorthPosted(DocsOf("AP")) + AmountLive(PaidRows("AP")))'
  <2>1. Movement(entries', "payable") = Movement(entries, "payable")
          + (Part(CreditsOf("AP"), Worth, x) - Part(DocsOf("AP"), Worth, x))
    BY <1>2, NamesAreAccounts DEF Reads
  <2>2. Movement(entries, "payable")
          = WorthPosted(CreditsOf("AP")) - WorthPosted(DocsOf("AP")) + AmountLive(PaidRows("AP"))
    BY DEF BooksHold
  <2>3. /\ WorthPosted(DocsOf("AP"))' = WorthPosted(DocsOf("AP")) + Part(DocsOf("AP"), Worth, x)
        /\ WorthPosted(DocsOf("AP")) \in Int /\ Part(DocsOf("AP"), Worth, x) \in Int
    BY <1>6, SetsOfThings
  <2>4. /\ WorthPosted(CreditsOf("AP"))'
             = WorthPosted(CreditsOf("AP")) + Part(CreditsOf("AP"), Worth, x)
        /\ WorthPosted(CreditsOf("AP")) \in Int /\ Part(CreditsOf("AP"), Worth, x) \in Int
    BY <1>6, SetsOfThings
  <2>5. AmountLive(PaidRows("AP"))' = AmountLive(PaidRows("AP"))
    BY <1>4
  <2> QED BY <1>5, <2>1, <2>2, <2>3, <2>4, <2>5
<1>10. (Movement(entries, "inventory") = stock + PaperPosted + ShippedWorth)'
  <2>1. Movement(entries', "inventory") = Movement(entries, "inventory")
          + ((stock' - stock) + Part(OnPaper, PaperWorth, x))
    BY <1>2, NamesAreAccounts DEF Reads
  <2>2. /\ Movement(entries, "inventory") = stock + PaperPosted + ShippedWorth
        /\ stock \in Int /\ stock' \in Int
    BY DEF BooksHold, TypesHold
  <2>3. ShippedWorth' = ShippedWorth /\ ShippedWorth \in Int
    BY ShippedIsWhole DEF ShippedWorth
  <2> QED BY <1>7, <2>1, <2>2, <2>3
<1>11. (Movement(entries, "outputTax") + Movement(entries, "inputTax")
         = TaxPosted(GivenBack("AR")) - TaxPosted(GivenBack("AP"))
           - TaxPosted(DocsOf("AR")) + TaxPosted(DocsOf("AP")) - TaxPosted(Unreclaimed))'
  <2>1. /\ Movement(entries', "outputTax") = Movement(entries, "outputTax") + o
        /\ Movement(entries', "inputTax") = Movement(entries, "inputTax") + i
        /\ Movement(entries, "outputTax") \in Int /\ Movement(entries, "inputTax") \in Int
    BY <1>2, NamesAreAccounts DEF Reads
  <2>2. Movement(entries, "outputTax") + Movement(entries, "inputTax")
          = TaxPosted(GivenBack("AR")) - TaxPosted(GivenBack("AP"))
            - TaxPosted(DocsOf("AR")) + TaxPosted(DocsOf("AP")) - TaxPosted(Unreclaimed)
    BY DEF BooksHold
  <2>3. \A side : /\ TaxPosted(GivenBack(side))'
                       = TaxPosted(GivenBack(side)) + Part(GivenBack(side), Tax, x)
                  /\ TaxPosted(GivenBack(side)) \in Int /\ Part(GivenBack(side), Tax, x) \in Int
    BY <1>6, SetsOfThings
  <2>4. \A side : /\ TaxPosted(DocsOf(side))'
                       = TaxPosted(DocsOf(side)) + Part(DocsOf(side), Tax, x)
                  /\ TaxPosted(DocsOf(side)) \in Int /\ Part(DocsOf(side), Tax, x) \in Int
    BY <1>6, SetsOfThings
  <2>5. /\ TaxPosted(Unreclaimed)' = TaxPosted(Unreclaimed) + Part(Unreclaimed, Tax, x)
        /\ TaxPosted(Unreclaimed) \in Int /\ Part(Unreclaimed, Tax, x) \in Int
    BY <1>6, SetsOfThings
  <2> QED BY <2>1, <2>2, <2>3, <2>4, <2>5
<1> QED BY <1>8, <1>9, <1>10, <1>11 DEF BooksHold

LEMMA PostedRows ==
  ASSUME ReportsAssumption, RowsHold, NEW x \in Things, ~Booked(x), NEW date, NEW lines,
         entries' = entries \cup {Entry(x, date, lines)}, rows' = rows, cancelled' = cancelled
  PROVE  RowsHold'
<1>1. \A y : Booked(y)' <=> Booked(y) \/ y = x
  BY PostedIsMore
<1>2. Live(rows)' = Live(rows)
  OBVIOUS
<1> QED BY <1>1, <1>2 DEF RowsHold

LEMMA PostedEntries ==
  ASSUME ReportsAssumption, EntriesHold, NEW x \in Things, ~Booked(x), NEW date, NEW lines,
         x \in Documents \cup Credits \cup Payments => lines = LinesOf(x),
         entries' = entries \cup {Entry(x, date, lines)}, rows' = rows, cancelled' = cancelled
  PROVE  EntriesHold'
<1> SUFFICES ASSUME NEW e \in entries'
             PROVE  /\ e.reverses => e.of \in cancelled
                    /\ ~e.reverses /\ e.of \in Documents \cup Credits \cup Payments
                         => e.lines = LinesOf(e.of)
                    /\ ~e.reverses /\ e.of \in RowIds =>
                         \E r \in rows : r.id = e.of /\ r.source \in Payments
                                         /\ e.lines = AllocationLines(r.source, r.amount)
  BY DEF EntriesHold
<1>1. CASE e \in entries
  BY <1>1 DEF EntriesHold
<1>2. CASE e = Entry(x, date, lines)
  <2>1. e.of = x /\ ~e.reverses /\ e.lines = lines
    BY <1>2 DEF Entry
  <2>2. x \notin RowIds
    BY DEF ReportsAssumption
  <2> QED BY <2>1, <2>2
<1> QED BY <1>1, <1>2

LEMMA PostedDocs ==
  ASSUME DocsHold, NEW x \in Things \ Documents, ~Booked(x), NEW date, NEW lines,
         entries' = entries \cup {Entry(x, date, lines)}, rows' = rows, docs' = docs
  PROVE  DocsHold'
<1>1. \A y : Booked(y)' <=> Booked(y) \/ y = x
  BY PostedIsMore
<1>2. \A K : AmountLive(K)' = AmountLive(K)
  BY DEF AmountLive
<1> QED BY <1>1, <1>2 DEF DocsHold

\* A posting of something that is not a document: all but the books.
LEMMA PostedInvariant ==
  ASSUME ReportsAssumption, ReportsInvariant, NEW x \in Things \ Documents, ~Booked(x),
         NEW date \in 1 .. LastDate, NEW lines \in [Accounts -> Int], Sum(lines) = 0,
         x \in Documents \cup Credits \cup Payments => lines = LinesOf(x),
         entries' = entries \cup {Entry(x, date, lines)}, stock' \in Nat,
         UNCHANGED <<plan, cancelled, docs, rows, shipped>>, BooksHold'
  PROVE  ReportsInvariant'
<1>1. TypesHold'
  <2>1. Journal(entries')
    BY PostedJournal DEF ReportsInvariant, TypesHold
  <2> QED BY <2>1 DEF ReportsInvariant, TypesHold
<1>2. RowsHold' /\ EntriesHold'
  BY PostedRows, PostedEntries DEF ReportsInvariant
<1>3. DocsHold'
  BY PostedDocs DEF ReportsInvariant
<1> QED BY <1>1, <1>2, <1>3 DEF ReportsInvariant

LEMMA DaysAreDates ==
  ASSUME ReportsAssumption, NEW d \in PostingDays
  PROVE  /\ d \in 1 .. LastDate /\ d \in Int
         /\ \A x \in Things : d + Lag[x] \in 1 .. LastDate
<1>1. d \in 1 .. LastDate /\ d \in Int /\ LastDate \in Int
  BY DEF ReportsAssumption
<1>2. \A x \in Things : Lag[x] \in Nat /\ d + Lag[x] <= LastDate
  BY DEF ReportsAssumption
<1> QED BY <1>1, <1>2

LEMMA ReadyMeans ==
  ASSUME ReportsAssumption, TypesHold, NEW x, NEW k, Ready(x, k)
  PROVE  x \in Things /\ x \in k /\ ~Booked(x)
BY DEF Ready, ReportsAssumption, TypesHold

LEMMA CreditStep ==
  ASSUME ReportsAssumption, ReportsInvariant, NEW x, NEW d \in PostingDays,
         PostCredit(x, d) \/ PostReturn(x, d)
  PROVE  ReportsInvariant'
<1>1. x \in Credits /\ x \in Things \ Documents /\ ~Booked(x)
  BY ReadyMeans, KindsApart DEF PostCredit, PostReturn, ReportsInvariant
<1>2. entries' = entries \cup {Entry(x, d, CreditLines(x))} /\ stock' = stock
      /\ UNCHANGED <<plan, cancelled, docs, rows, shipped>>
  BY DEF PostCredit, PostReturn
<1>3. /\ Worth[x] \in Int /\ Tax[x] \in Int /\ Net(x) \in Int
  BY <1>1, WorthIsSplit
<1>4. d \in 1 .. LastDate /\ stock \in Nat
  BY DaysAreDates DEF ReportsInvariant, TypesHold
<1> DEFINE o == IF Side(x) = "AR" THEN Tax[x] ELSE 0
           i == IF Side(x) # "AR" /\ Recoverable[x] THEN -Tax[x] ELSE 0
<1>5. Side(x) \in {"AR", "AP"} /\ Recoverable[x] \in BOOLEAN /\ Stocked[x] \in BOOLEAN
  BY <1>1 DEF Side, ReportsAssumption
<1>6. /\ Part(DocsOf("AR"), Worth, x) = 0 /\ Part(DocsOf("AP"), Worth, x) = 0
      /\ Part(DocsOf("AR"), Tax, x) = 0 /\ Part(DocsOf("AP"), Tax, x) = 0
      /\ Part(Unreclaimed, Tax, x) = 0
  BY <1>1 DEF Part, DocsOf, Unreclaimed
<1>7. /\ Part(CreditsOf("AR"), Worth, x) = IF Side(x) = "AR" THEN Worth[x] ELSE 0
      /\ Part(CreditsOf("AP"), Worth, x) = IF Side(x) = "AR" THEN 0 ELSE Worth[x]
  BY <1>1, <1>5 DEF Part, CreditsOf
<1>8. Part(OnPaper, PaperWorth, x) = PaperStock(x) /\ PaperStock(x) \in Int
  BY <1>1, PaperIsWhole DEF Part, OnPaper
<1>9. /\ Part(GivenBack("AR"), Tax, x) = IF Side(x) = "AR" THEN Tax[x] ELSE 0
      /\ Part(GivenBack("AP"), Tax, x) = IF Side(x) # "AR" /\ Recoverable[x] THEN Tax[x] ELSE 0
  BY <1>1, <1>5 DEF Part, GivenBack
<1>10. Reads(CreditLines(x), Part(DocsOf("AR"), Worth, x) - Part(CreditsOf("AR"), Worth, x),
             Part(CreditsOf("AP"), Worth, x) - Part(DocsOf("AP"), Worth, x),
             (stock' - stock) + Part(OnPaper, PaperWorth, x), o, i)
  <2>1. Reads(CreditLines(x), IF Side(x) = "AR" THEN -Worth[x] ELSE 0,
              IF Side(x) = "AR" THEN 0 ELSE Worth[x],
              PaperStock(x), o, i)
    BY <1>1, CreditLinesRead
  <2>2. (IF Side(x) = "AR" THEN -Worth[x] ELSE 0)
          = Part(DocsOf("AR"), Worth, x) - Part(CreditsOf("AR"), Worth, x)
    BY <1>3, <1>6, <1>7
  <2>3. (IF Side(x) = "AR" THEN 0 ELSE Worth[x])
          = Part(CreditsOf("AP"), Worth, x) - Part(DocsOf("AP"), Worth, x)
    BY <1>3, <1>6, <1>7
  <2>4. PaperStock(x) = (stock' - stock) + Part(OnPaper, PaperWorth, x)
    BY <1>2, <1>4, <1>8
  <2> QED BY <2>1, <2>2, <2>3, <2>4
<1>11. o \in Int /\ i \in Int
  BY <1>3, <1>5
<1>12. o + i = Part(GivenBack("AR"), Tax, x) - Part(GivenBack("AP"), Tax, x)
               - Part(DocsOf("AR"), Tax, x) + Part(DocsOf("AP"), Tax, x)
               - Part(Unreclaimed, Tax, x)
  BY <1>3, <1>5, <1>6, <1>9
<1> HIDE DEF o, i
<1>13. BooksHold'
  BY <1>1, <1>2, <1>4, <1>10, <1>11, <1>12, PostedBooks DEF ReportsInvariant
<1>14. /\ CreditLines(x) \in [Accounts -> Int] /\ Sum(CreditLines(x)) = 0
       /\ CreditLines(x) = LinesOf(x)
  BY <1>1, <1>10 DEF Reads, LinesOf
<1> QED BY <1>1, <1>2, <1>4, <1>13, <1>14, PostedInvariant

\* A posting with no line on the accounts the reports read, or on stock alone.
LEMMA OtherStep ==
  ASSUME ReportsAssumption, ReportsInvariant, NEW x \in Things \ (Documents \cup Credits),
         ~Booked(x), NEW d \in PostingDays, NEW lines, stock' \in Nat,
         Reads(lines, 0, 0, stock' - stock, 0, 0), x \in Payments => lines = PaymentLines(x),
         entries' = entries \cup {Entry(x, d, lines)}, UNCHANGED <<plan, cancelled, docs, rows, shipped>>
  PROVE  ReportsInvariant'
<1>1. d \in 1 .. LastDate /\ stock \in Nat
  BY DaysAreDates DEF ReportsInvariant, TypesHold
<1>2. /\ \A K, f : x \notin K => Part(K, f, x) = 0
      /\ \A side : x \notin DocsOf(side) /\ x \notin CreditsOf(side) /\ x \notin GivenBack(side)
      /\ x \notin Unreclaimed /\ x \notin OnPaper
  BY DEF Part, DocsOf, CreditsOf, GivenBack, Unreclaimed, OnPaper
<1>3. /\ \A side : Part(DocsOf(side), Worth, x) = 0 /\ Part(CreditsOf(side), Worth, x) = 0
      /\ \A side : Part(DocsOf(side), Tax, x) = 0 /\ Part(GivenBack(side), Tax, x) = 0
      /\ Part(Unreclaimed, Tax, x) = 0 /\ Part(OnPaper, PaperWorth, x) = 0
  BY <1>2
<1>4. Reads(lines, Part(DocsOf("AR"), Worth, x) - Part(CreditsOf("AR"), Worth, x),
            Part(CreditsOf("AP"), Worth, x) - Part(DocsOf("AP"), Worth, x),
            (stock' - stock) + Part(OnPaper, PaperWorth, x), 0, 0)
  <2>1. (stock' - stock) + Part(OnPaper, PaperWorth, x) = stock' - stock
    BY <1>1, <1>3
  <2>2. Part(DocsOf("AR"), Worth, x) - Part(CreditsOf("AR"), Worth, x) = 0
        /\ Part(CreditsOf("AP"), Worth, x) - Part(DocsOf("AP"), Worth, x) = 0
    BY <1>3
  <2> QED BY <2>1, <2>2
<1>5. 0 + 0 = Part(GivenBack("AR"), Tax, x) - Part(GivenBack("AP"), Tax, x)
              - Part(DocsOf("AR"), Tax, x) + Part(DocsOf("AP"), Tax, x)
              - Part(Unreclaimed, Tax, x)
  BY <1>3
<1>6. BooksHold'
  <2>1. 0 \in Int
    OBVIOUS
  <2> QED BY <1>1, <1>4, <1>5, <2>1, PostedBooks DEF ReportsInvariant
<1>7. lines \in [Accounts -> Int] /\ Sum(lines) = 0
  BY DEF Reads
<1>8. x \in Documents \cup Credits \cup Payments => lines = LinesOf(x)
  BY DEF LinesOf
<1> QED BY <1>1, <1>6, <1>7, <1>8, PostedInvariant

LEMMA PaymentStep ==
  ASSUME ReportsAssumption, ReportsInvariant, NEW x, NEW d \in PostingDays, PostPayment(x, d)
  PROVE  ReportsInvariant'
<1>1. x \in Payments /\ x \in Things \ (Documents \cup Credits) /\ ~Booked(x)
  BY ReadyMeans, KindsApart DEF PostPayment, ReportsInvariant
<1>2. /\ entries' = entries \cup {Entry(x, d, PaymentLines(x))} /\ stock' = stock
      /\ UNCHANGED <<plan, cancelled, docs, rows, shipped>>
  BY DEF PostPayment
<1>3. stock' \in Nat /\ stock' - stock = 0
  BY <1>2 DEF ReportsInvariant, TypesHold
<1>4. Reads(PaymentLines(x), 0, 0, stock' - stock, 0, 0)
  BY <1>1, <1>3, PaymentLinesRead
<1> QED BY <1>1, <1>2, <1>3, <1>4, OtherStep

LEMMA GoodsStep ==
  ASSUME ReportsAssumption, ReportsInvariant, NEW x, NEW d \in PostingDays, PostGoods(x, d)
  PROVE  ReportsInvariant'
<1>1. /\ x \in Goods /\ x \in Things \ (Documents \cup Credits) /\ x \notin Payments
      /\ ~Booked(x)
  BY ReadyMeans, KindsApart DEF PostGoods, ReportsInvariant
<1>2. /\ entries' = entries \cup {Entry(x, d, GoodsLines(x))}
      /\ stock + StockEffect(x) >= 0 /\ stock' = stock + StockEffect(x)
      /\ UNCHANGED <<plan, cancelled, docs, rows, shipped>>
  BY DEF PostGoods
<1>3. stock' \in Nat /\ stock' - stock = StockEffect(x)
  <2>1. StockEffect(x) \in Int
    BY <1>1, WorthIsSplit DEF StockEffect
  <2>2. stock \in Int
    BY DEF ReportsInvariant, TypesHold
  <2> QED BY <1>2, <2>1, <2>2
<1>4. Reads(GoodsLines(x), 0, 0, stock' - stock, 0, 0)
  BY <1>1, <1>3, GoodsLinesRead
<1> QED BY <1>1, <1>2, <1>3, <1>4, OtherStep

\* What is booked on inventory beside the movements.
LEMMA PaperIsPosted ==
  ASSUME ReportsAssumption
  PROVE  OnPaperOnly = PaperPosted /\ PaperPosted \in Int
<1> DEFINE S == OnPaper \cap OnBooks
           f == [x \in S |-> PaperStock(x)]
<1>1. {y \in Documents \cup Credits : Booked(y)} = S
  BY KindsApart DEF OnPaper, OnBooks
<1>2. OnPaperOnly = Sum(f)
  BY <1>1 DEF OnPaperOnly
<1>3. IsFiniteSet(S)
  BY SetsAreFinite, FS_Subset
<1>4. DOMAIN f = S /\ \A x \in S : f[x] = PaperWorth[x] /\ PaperWorth[x] \in Int
  BY PaperIsWhole
<1>5. PaperPosted = SumFunctionOnSet(PaperWorth, S)
  BY DEF PaperPosted
<1> HIDE DEF S, f
<1>6. Sum(f) = SumFunctionOnSet(PaperWorth, S)
  BY <1>3, <1>4, SumWritten
<1>7. SumFunctionOnSet(PaperWorth, S) \in Int
  BY <1>3, <1>4, SumType
<1> QED BY <1>2, <1>5, <1>6, <1>7

\* Goods shipped back leave the stock and stay on the account.
LEMMA ShipStep ==
  ASSUME ReportsAssumption, ReportsInvariant, NEW x, PostPurchaseReturn(x)
  PROVE  ReportsInvariant'
<1>1. TypesHold /\ RowsHold /\ EntriesHold /\ DocsHold /\ BooksHold
  BY DEF ReportsInvariant
<1>2. /\ x \in plan \ shipped /\ x \in Things /\ stock - Worth[x] >= 0
      /\ stock' = stock - Worth[x] /\ shipped' = shipped \cup {x}
      /\ UNCHANGED <<plan, entries, cancelled, docs, rows>>
  BY <1>1 DEF PostPurchaseReturn, ReportsAssumption, TypesHold
<1>3. Worth[x] \in Int /\ stock \in Int /\ ShippedWorth \in Int
  BY <1>1, <1>2, WorthIsSplit, ShippedIsWhole DEF TypesHold
<1>4. stock' \in Nat
  BY <1>2, <1>3
<1>5. ShippedWorth' = ShippedWorth + Worth[x]
  <2>1. /\ IsFiniteSet(shipped) /\ x \notin shipped
        /\ \A y \in shipped \cup {x} : Worth[y] \in Int
    BY <1>1, <1>2, ShippedIsWhole
  <2>2. SumFunctionOnSet(Worth, shipped \cup {x}) = Worth[x] + SumFunctionOnSet(Worth, shipped)
    BY <2>1, SumAdd
  <2> QED BY <1>2, <1>3, <2>2 DEF ShippedWorth
<1>6. /\ \A y : Booked(y)' <=> Booked(y)
      /\ OnBooks' = OnBooks /\ Live(rows)' = Live(rows)
  BY <1>2 DEF Booked, Original, OnBooks
<1>7. /\ \A K : AmountLive(K)' = AmountLive(K)
      /\ \A K : WorthPosted(K)' = WorthPosted(K) /\ TaxPosted(K)' = TaxPosted(K)
      /\ PaperPosted' = PaperPosted
  BY <1>6 DEF AmountLive, WorthPosted, TaxPosted, PaperPosted
<1>8. TypesHold' /\ RowsHold' /\ EntriesHold' /\ DocsHold'
  BY <1>1, <1>2, <1>4, <1>6, <1>7 DEF TypesHold, RowsHold, EntriesHold, DocsHold
<1>9. BooksHold'
  <2>1. stock + PaperPosted + ShippedWorth = stock' + PaperPosted + ShippedWorth'
    BY <1>2, <1>3, <1>5, PaperIsPosted
  <2> QED BY <1>1, <1>2, <1>7, <2>1 DEF BooksHold
<1> QED BY <1>8, <1>9 DEF ReportsInvariant

LEMMA ManualStep ==
  ASSUME ReportsAssumption, ReportsInvariant, NEW x, NEW d \in PostingDays, PostManual(x, d)
  PROVE  ReportsInvariant'
<1>1. x \in Things \ (Documents \cup Credits) /\ x \notin Payments /\ ~Booked(x)
  <2>1. Kind[x] = "MANUAL" /\ x \in Things /\ ~Booked(x)
    BY ReadyMeans DEF PostManual, ReportsInvariant
  <2> QED BY <2>1 DEF Documents, Credits, Notes, Returns, Payments
<1>2. /\ entries' = entries \cup {Entry(x, d, ManualLines(x))} /\ stock' = stock
      /\ UNCHANGED <<plan, cancelled, docs, rows, shipped>>
  BY DEF PostManual
<1>3. stock' \in Nat /\ stock' - stock = 0
  BY <1>2 DEF ReportsInvariant, TypesHold
<1>4. Reads(ManualLines(x), 0, 0, stock' - stock, 0, 0)
  BY <1>1, <1>3, ManualLinesRead
<1> QED BY <1>1, <1>2, <1>3, <1>4, OtherStep

LEMMA CloseStep ==
  ASSUME ReportsAssumption, ReportsInvariant, NEW x, NEW d \in PostingDays, CloseYear(x, d)
  PROVE  ReportsInvariant'
<1>1. x \in Things \ (Documents \cup Credits) /\ x \notin Payments /\ ~Booked(x)
  <2>1. Kind[x] = "CLOSING" /\ x \in Things /\ ~Booked(x)
    BY ReadyMeans DEF CloseYear, ReportsInvariant
  <2> QED BY <2>1 DEF Documents, Credits, Notes, Returns, Payments
<1>2. /\ entries' = entries \cup {Entry(x, d, ClosingLines(d))} /\ stock' = stock
      /\ UNCHANGED <<plan, cancelled, docs, rows, shipped>>
  BY DEF CloseYear
<1>3. stock' \in Nat /\ stock' - stock = 0
  BY <1>2 DEF ReportsInvariant, TypesHold
<1>4. Reads(ClosingLines(d), 0, 0, stock' - stock, 0, 0)
  BY <1>3, DaysAreDates, ClosingLinesRead DEF ReportsInvariant, TypesHold
<1> QED BY <1>1, <1>2, <1>3, <1>4, OtherStep

\* Nothing is settled on what is not posted.
LEMMA NothingSettled ==
  ASSUME TypesHold, RowsHold, NEW x \in Documents, ~Booked(x)
  PROVE  AmountLive(RowsPaying(x)) = 0 /\ AmountLive(RowsCrediting(x)) = 0
<1>1. \A r \in Live(rows) : r.target # x
  BY DEF RowsHold, Live
<1>2. RowsPaying(x) \cap Live(rows) = {} /\ RowsCrediting(x) \cap Live(rows) = {}
  BY <1>1 DEF RowsPaying, RowsCrediting
<1> QED BY <1>2, SumEmpty DEF AmountLive

LEMMA DocumentStep ==
  ASSUME ReportsAssumption, ReportsInvariant, NEW x, NEW d \in PostingDays, PostDocument(x, d)
  PROVE  ReportsInvariant'
<1> DEFINE date == d + Lag[x]
<1>1. x \in Documents /\ x \in Things /\ x \notin Credits /\ ~Booked(x)
  BY ReadyMeans, KindsApart DEF PostDocument, ReportsInvariant
<1>2. /\ entries' = entries \cup {Entry(x, date, DocumentLines(x))} /\ stock' = stock
      /\ UNCHANGED <<plan, cancelled, rows, shipped>>
      /\ docs' = [docs EXCEPT ![x].date = d, ![x].open = Worth[x]]
  BY DEF PostDocument
<1>3. Worth[x] \in Int /\ Tax[x] \in Int /\ Net(x) \in Int /\ Worth[x] > 0
  BY <1>1, WorthIsSplit
<1>4. date \in 1 .. LastDate /\ d \in 1 .. LastDate /\ stock \in Nat
  BY <1>1, DaysAreDates DEF ReportsInvariant, TypesHold
<1> HIDE DEF date
<1> DEFINE o == IF Side(x) = "AR" THEN -Tax[x] ELSE 0
           i == IF Side(x) # "AR" /\ Recoverable[x] THEN Tax[x] ELSE 0
<1>5. Side(x) \in {"AR", "AP"} /\ Recoverable[x] \in BOOLEAN /\ Stocked[x] \in BOOLEAN
  BY <1>1 DEF Side, ReportsAssumption
<1>6. /\ Part(CreditsOf("AR"), Worth, x) = 0 /\ Part(CreditsOf("AP"), Worth, x) = 0
      /\ Part(GivenBack("AR"), Tax, x) = 0 /\ Part(GivenBack("AP"), Tax, x) = 0
  BY <1>1 DEF Part, CreditsOf, GivenBack
<1>7. /\ Part(DocsOf("AR"), Worth, x) = IF Side(x) = "AR" THEN Worth[x] ELSE 0
      /\ Part(DocsOf("AP"), Worth, x) = IF Side(x) = "AR" THEN 0 ELSE Worth[x]
      /\ Part(DocsOf("AR"), Tax, x) = IF Side(x) = "AR" THEN Tax[x] ELSE 0
      /\ Part(DocsOf("AP"), Tax, x) = IF Side(x) = "AR" THEN 0 ELSE Tax[x]
  BY <1>1, <1>5 DEF Part, DocsOf
<1>8. Part(OnPaper, PaperWorth, x) = PaperStock(x) /\ PaperStock(x) \in Int
  BY <1>1, PaperIsWhole DEF Part, OnPaper
<1>9. Part(Unreclaimed, Tax, x) = IF Side(x) # "AR" /\ ~Recoverable[x] THEN Tax[x] ELSE 0
  BY <1>1, <1>5 DEF Part, Unreclaimed
<1>10. Reads(DocumentLines(x), Part(DocsOf("AR"), Worth, x) - Part(CreditsOf("AR"), Worth, x),
             Part(CreditsOf("AP"), Worth, x) - Part(DocsOf("AP"), Worth, x),
             (stock' - stock) + Part(OnPaper, PaperWorth, x), o, i)
  <2>1. Reads(DocumentLines(x), IF Side(x) = "AR" THEN Worth[x] ELSE 0,
              IF Side(x) = "AR" THEN 0 ELSE -Worth[x],
              PaperStock(x), o, i)
    BY <1>1, DocumentLinesRead
  <2>2. (IF Side(x) = "AR" THEN Worth[x] ELSE 0)
          = Part(DocsOf("AR"), Worth, x) - Part(CreditsOf("AR"), Worth, x)
    BY <1>3, <1>6, <1>7
  <2>3. (IF Side(x) = "AR" THEN 0 ELSE -Worth[x])
          = Part(CreditsOf("AP"), Worth, x) - Part(DocsOf("AP"), Worth, x)
    BY <1>3, <1>6, <1>7
  <2>4. PaperStock(x) = (stock' - stock) + Part(OnPaper, PaperWorth, x)
    BY <1>2, <1>4, <1>8
  <2> QED BY <2>1, <2>2, <2>3, <2>4
<1>11. o \in Int /\ i \in Int
  BY <1>3, <1>5
<1>12. o + i = Part(GivenBack("AR"), Tax, x) - Part(GivenBack("AP"), Tax, x)
               - Part(DocsOf("AR"), Tax, x) + Part(DocsOf("AP"), Tax, x)
               - Part(Unreclaimed, Tax, x)
  BY <1>3, <1>5, <1>6, <1>7, <1>9
<1> HIDE DEF o, i
<1>13. BooksHold'
  BY <1>1, <1>2, <1>4, <1>10, <1>11, <1>12, PostedBooks DEF ReportsInvariant
<1>14. /\ DocumentLines(x) \in [Accounts -> Int] /\ Sum(DocumentLines(x)) = 0
       /\ DocumentLines(x) = LinesOf(x)
  BY <1>1, <1>10 DEF Reads, LinesOf
<1>15. /\ docs' \in [Documents -> DocRecords]
       /\ docs'[x].date = d /\ docs'[x].open = Worth[x]
       /\ docs'[x].allocated = docs[x].allocated /\ docs'[x].credited = docs[x].credited
       /\ \A y \in Documents \ {x} : docs'[y] = docs[y]
  <2>1. docs \in [Documents -> DocRecords] /\ docs[x] \in DocRecords
    BY <1>1 DEF ReportsInvariant, TypesHold
  <2>2. docs' = [docs EXCEPT ![x] = [docs[x] EXCEPT !.date = d, !.open = Worth[x]]]
    BY <1>1, <1>2, <2>1
  <2>3. [docs[x] EXCEPT !.date = d, !.open = Worth[x]] \in DocRecords
    BY <1>3, <2>1 DEF DocRecords
  <2>4. /\ [docs[x] EXCEPT !.date = d, !.open = Worth[x]].date = d
        /\ [docs[x] EXCEPT !.date = d, !.open = Worth[x]].open = Worth[x]
        /\ [docs[x] EXCEPT !.date = d, !.open = Worth[x]].allocated = docs[x].allocated
        /\ [docs[x] EXCEPT !.date = d, !.open = Worth[x]].credited = docs[x].credited
    BY <2>1 DEF DocRecords
  <2> QED BY <1>1, <2>1, <2>2, <2>3, <2>4
<1>16. TypesHold'
  <2>1. Journal(entries')
    BY <1>1, <1>2, <1>4, <1>14, PostedJournal DEF ReportsInvariant, TypesHold
  <2> QED BY <1>2, <1>15, <2>1 DEF ReportsInvariant, TypesHold
<1>17. RowsHold' /\ EntriesHold'
  BY <1>1, <1>2, <1>14, PostedRows, PostedEntries DEF ReportsInvariant
<1>18. DocsHold'
  <2>1. \A y : Booked(y)' <=> Booked(y) \/ y = x
    BY <1>1, <1>2, PostedIsMore
  <2>2. \A K : AmountLive(K)' = AmountLive(K)
    BY <1>2 DEF AmountLive
  <2>3. AmountLive(RowsPaying(x)) = 0 /\ AmountLive(RowsCrediting(x)) = 0
    BY <1>1, NothingSettled DEF ReportsInvariant
  <2>4. \A y \in Documents : /\ docs[y].date # 0 <=> Booked(y)
                             /\ docs[y].allocated = AmountLive(RowsPaying(y))
                             /\ docs[y].credited = AmountLive(RowsCrediting(y))
                             /\ docs[y].open = IF Booked(y)
                                  THEN Worth[y] - docs[y].allocated - docs[y].credited ELSE 0
                             /\ docs[y].open >= 0
    BY DEF ReportsInvariant, DocsHold
  <2> SUFFICES ASSUME NEW y \in Documents
               PROVE  /\ docs'[y].date # 0 <=> Booked(y)'
                      /\ docs'[y].allocated = AmountLive(RowsPaying(y))
                      /\ docs'[y].credited = AmountLive(RowsCrediting(y))
                      /\ docs'[y].open = IF Booked(y)'
                           THEN Worth[y] - docs'[y].allocated - docs'[y].credited ELSE 0
                      /\ docs'[y].open >= 0
    BY <2>2 DEF DocsHold
  <2>5. CASE y = x
    <3>1. docs'[x].date # 0 /\ Booked(x)'
      BY <1>4, <1>15, <2>1
    <3>2. docs'[x].allocated = 0 /\ docs'[x].credited = 0
      BY <1>1, <1>15, <2>3, <2>4
    <3>3. docs'[x].open = Worth[x] - docs'[x].allocated - docs'[x].credited
          /\ docs'[x].open >= 0
      BY <1>3, <1>15, <3>2
    <3> QED BY <2>3, <2>5, <3>1, <3>2, <3>3
  <2>6. CASE y # x
    BY <1>15, <2>1, <2>4, <2>6
  <2> QED BY <2>5, <2>6
<1> QED BY <1>13, <1>16, <1>17, <1>18 DEF ReportsInvariant

----------------------------------------------------------------------------
(* Allocating, and taking it back. *)
LEMMA LiveGrows ==
  ASSUME TypesHold, NEW r \in RowRecords, r \notin Live(rows),
         Live(rows)' = Live(rows) \cup {r}, NEW K \in SUBSET RowRecords
  PROVE  AmountLive(K)' = AmountLive(K) + IF r \in K THEN r.amount ELSE 0
<1>1. \A q \in K : AmountIn[q] \in Int
  BY AmountsAreWhole
<1>2. IsFiniteSet(Live(rows))
  BY LiveIsFinite
<1>3. SumFunctionOnSet(AmountIn, K \cap (Live(rows) \cup {r}))
        = SumFunctionOnSet(AmountIn, K \cap Live(rows)) + IF r \in K THEN AmountIn[r] ELSE 0
  BY <1>1, <1>2, SumJoins
<1>4. AmountIn[r] = r.amount
  BY AmountsAreWhole
<1> QED BY <1>3, <1>4 DEF AmountLive

LEMMA LiveShrinks ==
  ASSUME TypesHold, NEW r \in Live(rows), Live(rows)' = Live(rows) \ {r},
         NEW K \in SUBSET RowRecords
  PROVE  AmountLive(K)' = AmountLive(K) + IF r \in K THEN -r.amount ELSE 0
<1> DEFINE L == Live(rows) \ {r}
           rest == SumFunctionOnSet(AmountIn, K \cap L)
           all == SumFunctionOnSet(AmountIn, K \cap Live(rows))
<1>1. \A q \in K : AmountIn[q] \in Int
  BY AmountsAreWhole
<1>2. IsFiniteSet(L) /\ r \notin L /\ L \cup {r} = Live(rows) /\ r \in RowRecords
  BY LiveIsFinite, FS_Subset
<1>3. IsFiniteSet(K \cap L)
  BY <1>2, FS_Subset
<1> HIDE DEF L
<1>4. SumFunctionOnSet(AmountIn, K \cap (L \cup {r})) = rest + IF r \in K THEN AmountIn[r] ELSE 0
  BY <1>1, <1>2, SumJoins
<1>5. rest \in Int
  BY <1>1, <1>3, SumType
<1>6. AmountIn[r] = r.amount /\ AmountIn[r] \in Int
  BY <1>2, AmountsAreWhole
<1>7. AmountLive(K)' = rest /\ AmountLive(K) = all
  BY DEF AmountLive, L
<1>8. all = rest + IF r \in K THEN r.amount ELSE 0
  BY <1>2, <1>4, <1>6
<1> HIDE DEF rest, all
<1>9. rest = all + IF r \in K THEN -r.amount ELSE 0
  BY <1>5, <1>6, <1>8
<1> QED BY <1>7, <1>9

LEMMA DocMoved ==
  ASSUME TypesHold, ReportsAssumption, NEW x \in Documents, NEW s, NEW n \in Int,
         docs' = Moved(x, s, n)
  PROVE  /\ docs' \in [Documents -> DocRecords]
         /\ docs'[x].date = docs[x].date
         /\ docs'[x].allocated = docs[x].allocated + IF s \in Payments THEN n ELSE 0
         /\ docs'[x].credited = docs[x].credited + IF s \in Payments THEN 0 ELSE n
         /\ docs'[x].open = Worth[x] - docs'[x].allocated - docs'[x].credited
         /\ \A y \in Documents \ {x} : docs'[y] = docs[y]
<1> DEFINE old == docs[x]
           new == IF s \in Payments THEN [old EXCEPT !.allocated = old.allocated + n]
                                    ELSE [old EXCEPT !.credited = old.credited + n]
           doc == Settled(new, x)
<1>1. docs \in [Documents -> DocRecords] /\ old \in DocRecords
  BY DEF TypesHold
<1>2. Worth[x] \in Int
  BY KindsApart, WorthIsSplit
<1>3. /\ old.date \in PostingDays \cup {0} /\ old.allocated \in Int /\ old.credited \in Int
      /\ old.open \in Int
  BY <1>1 DEF DocRecords
<1>4. docs' = [docs EXCEPT ![x] = doc]
  BY DEF Moved
<1>5. /\ new.date = old.date
      /\ new.allocated = old.allocated + IF s \in Payments THEN n ELSE 0
      /\ new.credited = old.credited + IF s \in Payments THEN 0 ELSE n
      /\ new \in DocRecords
  <2>1. CASE s \in Payments
    BY <1>1, <1>3, <2>1 DEF DocRecords
  <2>2. CASE s \notin Payments
    BY <1>1, <1>3, <2>2 DEF DocRecords
  <2> QED BY <2>1, <2>2
<1> HIDE DEF new
<1>6. /\ doc.date = new.date /\ doc.allocated = new.allocated /\ doc.credited = new.credited
      /\ doc.open = Worth[x] - new.allocated - new.credited
      /\ doc \in DocRecords
  <2>1. new.allocated \in Int /\ new.credited \in Int
    BY <1>5 DEF DocRecords
  <2>2. Worth[x] - new.allocated - new.credited \in Int
    BY <1>2, <2>1
  <2> QED BY <1>5, <2>2 DEF Settled, DocRecords
<1> HIDE DEF doc, old
<1>7. docs'[x] = doc /\ \A y \in Documents \ {x} : docs'[y] = docs[y]
  BY <1>1, <1>4
<1>8. docs' \in [Documents -> DocRecords]
  BY <1>1, <1>4, <1>6
<1> QED BY <1>5, <1>6, <1>7, <1>8 DEF old

\* What the live rows sum to has changed by n for the row r alone.
Settles(r, n) ==
  \A K \in SUBSET RowRecords : AmountLive(K)' = AmountLive(K) + IF r \in K THEN n ELSE 0

LEMMA SettledDocs ==
  ASSUME ReportsAssumption, TypesHold, DocsHold, NEW r \in RowRecords, NEW n \in Int,
         Booked(r.target), \A y \in Documents : Booked(y)' <=> Booked(y),
         docs' = Moved(r.target, r.source, n), Settles(r, n), n <= docs[r.target].open
  PROVE  DocsHold' /\ docs' \in [Documents -> DocRecords]
<1> DEFINE t == r.target
<1>1. t \in Documents /\ Worth[t] \in Int
  BY KindsApart, WorthIsSplit DEF RowRecords
<1>2. /\ docs' \in [Documents -> DocRecords]
      /\ docs'[t].date = docs[t].date
      /\ docs'[t].allocated = docs[t].allocated + IF r.source \in Payments THEN n ELSE 0
      /\ docs'[t].credited = docs[t].credited + IF r.source \in Payments THEN 0 ELSE n
      /\ docs'[t].open = Worth[t] - docs'[t].allocated - docs'[t].credited
      /\ \A y \in Documents \ {t} : docs'[y] = docs[y]
  BY <1>1, DocMoved
<1>3. ASSUME NEW y \in Documents
      PROVE  /\ AmountLive(RowsPaying(y))' = AmountLive(RowsPaying(y))
                  + IF y = t /\ r.source \in Payments THEN n ELSE 0
             /\ AmountLive(RowsCrediting(y))' = AmountLive(RowsCrediting(y))
                  + IF y = t /\ r.source \notin Payments THEN n ELSE 0
             /\ AmountLive(RowsPaying(y)) \in Int /\ AmountLive(RowsCrediting(y)) \in Int
  <2>1. RowsPaying(y) \in SUBSET RowRecords /\ RowsCrediting(y) \in SUBSET RowRecords
    BY DEF RowsPaying, RowsCrediting
  <2>2. /\ r \in RowsPaying(y) <=> y = t /\ r.source \in Payments
        /\ r \in RowsCrediting(y) <=> y = t /\ r.source \notin Payments
    BY DEF RowsPaying, RowsCrediting
  <2>3. AmountLive(RowsPaying(y)) \in Int /\ AmountLive(RowsCrediting(y)) \in Int
    BY <2>1, LiveAmountType
  <2> QED BY <2>1, <2>2, <2>3 DEF Settles
<1>4. \A y \in Documents : /\ docs[y].date # 0 <=> Booked(y)
                           /\ docs[y].allocated = AmountLive(RowsPaying(y))
                           /\ docs[y].credited = AmountLive(RowsCrediting(y))
                           /\ docs[y].open = IF Booked(y)
                                THEN Worth[y] - docs[y].allocated - docs[y].credited ELSE 0
                           /\ docs[y].open >= 0
  BY DEF DocsHold
<1>5. Booked(t) /\ n <= docs[t].open
  OBVIOUS
<1> HIDE DEF t
<1> SUFFICES ASSUME NEW y \in Documents
             PROVE  /\ docs'[y].date # 0 <=> Booked(y)'
                    /\ docs'[y].allocated = AmountLive(RowsPaying(y))'
                    /\ docs'[y].credited = AmountLive(RowsCrediting(y))'
                    /\ docs'[y].open = IF Booked(y)'
                         THEN Worth[y] - docs'[y].allocated - docs'[y].credited ELSE 0
                    /\ docs'[y].open >= 0
  BY <1>2 DEF DocsHold
<1>6. CASE y = t
  <2>1. docs'[t].date # 0 <=> Booked(t)'
    BY <1>1, <1>2, <1>4
  <2>2. docs'[t].allocated = AmountLive(RowsPaying(t))'
    BY <1>1, <1>2, <1>3, <1>4
  <2>3. docs'[t].credited = AmountLive(RowsCrediting(t))'
    BY <1>1, <1>2, <1>3, <1>4
  <2>4. docs'[t].open >= 0
    <3>1. docs[t].allocated \in Int /\ docs[t].credited \in Int
      BY <1>1, <1>3, <1>4
    <3>2. docs[t].open = Worth[t] - docs[t].allocated - docs[t].credited
      BY <1>1, <1>4, <1>5
    <3>3. docs'[t].open = docs[t].open - n
      BY <1>1, <1>2, <3>1, <3>2
    <3> QED BY <1>1, <1>5, <3>1, <3>2, <3>3
  <2>5. Booked(t)'
    BY <1>1, <1>5
  <2> QED BY <1>2, <1>6, <2>1, <2>2, <2>3, <2>4, <2>5
<1>7. CASE y # t
  <2>1. /\ AmountLive(RowsPaying(y))' = AmountLive(RowsPaying(y))
        /\ AmountLive(RowsCrediting(y))' = AmountLive(RowsCrediting(y))
    BY <1>3, <1>7
  <2> QED BY <1>2, <1>4, <1>7, <2>1
<1> QED BY <1>6, <1>7

LEMMA SettledBooks ==
  ASSUME ReportsAssumption, TypesHold, BooksHold, NEW r \in RowRecords, NEW n \in Int,
         Settles(r, n), OnBooks' = OnBooks, stock' = stock, shipped' = shipped, NEW lines,
         IF r.source \in Payments
         THEN /\ Reads(lines, IF Side(r.source) = "AR" THEN -n ELSE 0,
                       IF Side(r.source) = "AR" THEN 0 ELSE n, 0, 0, 0)
              /\ \A a \in Accounts : /\ Movement(entries', a) = Movement(entries, a) + lines[a]
                                     /\ Movement(entries, a) \in Int
         ELSE entries' = entries
  PROVE  BooksHold'
<1>1. \A K : /\ WorthPosted(K)' = WorthPosted(K) /\ TaxPosted(K)' = TaxPosted(K)
             /\ PaperPosted' = PaperPosted /\ ShippedWorth' = ShippedWorth
  BY DEF WorthPosted, TaxPosted, PaperPosted, ShippedWorth
<1>2. \A side \in {"AR", "AP"} :
        /\ AmountLive(PaidRows(side))' = AmountLive(PaidRows(side))
             + IF r.source \in Payments /\ Side(r.source) = side THEN n ELSE 0
        /\ AmountLive(PaidRows(side)) \in Int
  <2> SUFFICES ASSUME NEW side \in {"AR", "AP"}
               PROVE  /\ AmountLive(PaidRows(side))' = AmountLive(PaidRows(side))
                           + IF r.source \in Payments /\ Side(r.source) = side THEN n ELSE 0
                      /\ AmountLive(PaidRows(side)) \in Int
    OBVIOUS
  <2>1. PaidRows(side) \in SUBSET RowRecords /\ AmountLive(PaidRows(side)) \in Int
    BY PaidRowsAre, LiveAmountType
  <2>2. r \in PaidRows(side) <=> r.source \in Payments /\ Side(r.source) = side
    BY DEF PaidRows
  <2> QED BY <2>1, <2>2 DEF Settles
<1>3. Side(r.source) \in {"AR", "AP"}
  BY DEF Side
<1> DEFINE receivable == Movement(entries, "receivable")
           payable == Movement(entries, "payable")
           ar == WorthPosted(DocsOf("AR")) - WorthPosted(CreditsOf("AR"))
           ap == WorthPosted(CreditsOf("AP")) - WorthPosted(DocsOf("AP"))
           paidAR == AmountLive(PaidRows("AR"))
           paidAP == AmountLive(PaidRows("AP"))
<1>4. receivable = ar - paidAR /\ payable = ap + paidAP
  BY DEF BooksHold
<1>5. ar \in Int /\ ap \in Int
  <2>1. \A K \in SUBSET Things : WorthPosted(K) \in Int
    <3> SUFFICES ASSUME NEW K \in SUBSET Things PROVE WorthPosted(K) \in Int
      OBVIOUS
    <3>1. IsFiniteSet(K \cap OnBooks)
      BY SetsAreFinite, FS_Subset
    <3>2. \A y \in K \cap OnBooks : Worth[y] \in Int
      BY WorthIsSplit
    <3> QED BY <3>1, <3>2, SumType DEF WorthPosted
  <2> QED BY <2>1, SetsOfThings
<1>6. ar' = ar /\ ap' = ap
  BY <1>1
<1>7. /\ paidAR \in Int /\ paidAP \in Int
      /\ paidAR' = paidAR + IF r.source \in Payments /\ Side(r.source) = "AR" THEN n ELSE 0
      /\ paidAP' = paidAP + IF r.source \in Payments /\ Side(r.source) = "AP" THEN n ELSE 0
  BY <1>2
<1>8. CASE r.source \in Payments
  <2>1. /\ receivable' = receivable + IF Side(r.source) = "AR" THEN -n ELSE 0
        /\ payable' = payable + IF Side(r.source) = "AR" THEN 0 ELSE n
        /\ Movement(entries, "inventory")' = Movement(entries, "inventory") + 0
        /\ Movement(entries, "outputTax")' = Movement(entries, "outputTax") + 0
        /\ Movement(entries, "inputTax")' = Movement(entries, "inputTax") + 0
        /\ Movement(entries, "inventory") \in Int
        /\ Movement(entries, "outputTax") \in Int /\ Movement(entries, "inputTax") \in Int
    BY <1>8, NamesAreAccounts DEF Reads
  <2> HIDE DEF receivable, payable, ar, ap, paidAR, paidAP
  <2>2. receivable' = ar' - paidAR'
    BY <1>3, <1>4, <1>5, <1>6, <1>7, <1>8, <2>1
  <2>3. payable' = ap' + paidAP'
    BY <1>3, <1>4, <1>5, <1>6, <1>7, <1>8, <2>1
  <2>4. /\ Movement(entries, "inventory")' = Movement(entries, "inventory")
        /\ Movement(entries, "outputTax")' = Movement(entries, "outputTax")
        /\ Movement(entries, "inputTax")' = Movement(entries, "inputTax")
    BY <2>1
  <2> QED BY <1>1, <2>2, <2>3, <2>4 DEF BooksHold, receivable, payable, ar, ap, paidAR, paidAP
<1>9. CASE r.source \notin Payments
  <2>1. receivable' = receivable /\ payable' = payable /\ entries' = entries
    BY <1>9
  <2>2. paidAR' = paidAR /\ paidAP' = paidAP
    <3> HIDE DEF paidAR, paidAP
    <3> QED BY <1>7, <1>9
  <2> HIDE DEF receivable, payable, ar, ap, paidAR, paidAP
  <2>3. receivable' = ar' - paidAR' /\ payable' = ap' + paidAP'
    BY <1>4, <1>6, <2>1, <2>2
  <2> QED BY <1>1, <2>1, <2>3 DEF BooksHold, receivable, payable, ar, ap, paidAR, paidAP
<1> QED BY <1>8, <1>9

LEMMA AllocateStep ==
  ASSUME ReportsAssumption, ReportsInvariant, NEW d \in PostingDays, NEW id \in RowIds,
         NEW s \in plan \cap (Payments \cup Credits), NEW t \in plan \cap Documents,
         NEW amount \in Amounts, Allocate(id, s, t, amount, d)
  PROVE  ReportsInvariant'
<1> DEFINE r == [id |-> id, source |-> s, target |-> t, amount |-> amount, date |-> d,
                 reversed |-> FALSE]
           e == Entry(id, d, AllocationLines(s, amount))
<1>1. d \in 1 .. LastDate /\ amount \in Nat \ {0} /\ id \notin Things
  BY DaysAreDates DEF ReportsAssumption
<1>2. /\ r \in RowRecords /\ r.id = id /\ r.source = s /\ r.target = t /\ r.amount = amount
      /\ ~r.reversed
  BY <1>1 DEF RowRecords
<1>3. /\ Booked(s) /\ Booked(t) /\ Side(s) = Side(t)
      /\ \A q \in rows : q.id # id
      /\ amount <= docs[t].open
      /\ rows' = rows \cup {r} /\ docs' = Moved(t, s, amount)
      /\ entries' = IF s \in Payments THEN entries \cup {e} ELSE entries
      /\ UNCHANGED <<plan, cancelled, stock, shipped>>
  BY DEF Allocate
<1>4. e.of = id /\ ~e.reverses /\ e.date = d /\ e.lines = AllocationLines(s, amount)
  BY DEF Entry
<1> HIDE DEF r
<1>5. /\ Reads(AllocationLines(s, amount), IF Side(s) = "AR" THEN -amount ELSE 0,
               IF Side(s) = "AR" THEN 0 ELSE amount, 0, 0, 0)
      /\ AllocationLines(s, amount) \in [Accounts -> Int] /\ Sum(AllocationLines(s, amount)) = 0
  BY <1>1, AllocationLinesRead DEF Reads
<1>6. e \in EntryRecords /\ Sum(e.lines) = 0
  BY <1>1, <1>4, <1>5 DEF Entry, EntryRecords
<1> HIDE DEF e
<1>7. e \notin entries
  <2> SUFFICES ASSUME e \in entries PROVE FALSE
    OBVIOUS
  <2>1. \E q \in rows : q.id = id
    BY <1>4 DEF ReportsInvariant, EntriesHold
  <2> QED BY <1>3, <2>1
<1>8. Journal(entries) /\ Journal(entries')
  BY <1>3, <1>6, JournalGrows DEF ReportsInvariant, TypesHold
<1>9. \A y : Booked(y)' <=> Booked(y) \/ (s \in Payments /\ y = id)
  BY <1>3, <1>4 DEF Booked, Original
<1>10. OnBooks' = OnBooks
  BY <1>1, <1>9 DEF OnBooks
<1>11. r \notin rows /\ r \notin Live(rows) /\ Live(rows)' = Live(rows) \cup {r}
  BY <1>2, <1>3 DEF Live
<1>12. TypesHold /\ RowsHold /\ EntriesHold /\ DocsHold /\ BooksHold
  BY DEF ReportsInvariant
<1>13. Settles(r, amount)
  BY <1>2, <1>11, <1>12, LiveGrows DEF Settles
<1>14. DocsHold' /\ docs' \in [Documents -> DocRecords]
  <2>1. \A y \in Documents : Booked(y)' <=> Booked(y)
    BY <1>1, <1>9, KindsApart
  <2> QED BY <1>1, <1>2, <1>3, <1>12, <1>13, <2>1, SettledDocs
<1>15. TypesHold'
  <2>1. IsFiniteSet(rows')
    BY <1>3, <1>12, FS_AddElement DEF TypesHold
  <2> QED BY <1>2, <1>3, <1>8, <1>12, <1>14, <2>1 DEF TypesHold
<1>16. RowsHold'
  <2>1. \A q \in rows : q.id # id
    BY <1>3
  <2>2. id \notin cancelled
    BY <1>1, <2>1, <1>12, KindsApart DEF RowsHold
  <2>3. \A p, q \in rows' : p.id = q.id => p = q
    BY <1>2, <1>3, <1>12, <2>1 DEF RowsHold
  <2>4. \A q \in rows' : /\ Side(q.source) = Side(q.target)
                         /\ Booked(q.source)' /\ Booked(q.target)'
                         /\ q.source \in Payments => Booked(q.id)'
    <3> SUFFICES ASSUME NEW q \in rows'
                 PROVE  /\ Side(q.source) = Side(q.target)
                        /\ Booked(q.source)' /\ Booked(q.target)'
                        /\ q.source \in Payments => Booked(q.id)'
      OBVIOUS
    <3>1. CASE q \in rows
      BY <1>9, <1>12, <3>1 DEF RowsHold
    <3>2. CASE q = r
      BY <1>2, <1>3, <1>9, <3>2
    <3> QED BY <1>3, <3>1, <3>2
  <2>5. \A q \in Live(rows') : q.id \notin cancelled'
    BY <1>2, <1>3, <1>11, <1>12, <2>2 DEF RowsHold
  <2>6. \A i \in cancelled' : i \in Payments \/ \E q \in rows' : q.id = i
    BY <1>3, <1>12 DEF RowsHold
  <2> QED BY <2>3, <2>4, <2>5, <2>6 DEF RowsHold
<1>17. EntriesHold'
  <2> SUFFICES ASSUME NEW f \in entries'
               PROVE  /\ f.reverses => f.of \in cancelled'
                      /\ ~f.reverses /\ f.of \in Documents \cup Credits \cup Payments
                           => f.lines = LinesOf(f.of)
                      /\ ~f.reverses /\ f.of \in RowIds =>
                           \E q \in rows' : q.id = f.of /\ q.source \in Payments
                                           /\ f.lines = AllocationLines(q.source, q.amount)
    BY DEF EntriesHold
  <2>1. CASE f \in entries
    <3>1. /\ f.reverses => f.of \in cancelled
          /\ ~f.reverses /\ f.of \in Documents \cup Credits \cup Payments
               => f.lines = LinesOf(f.of)
          /\ ~f.reverses /\ f.of \in RowIds =>
               \E q \in rows : q.id = f.of /\ q.source \in Payments
                               /\ f.lines = AllocationLines(q.source, q.amount)
      BY <1>12, <2>1 DEF EntriesHold
    <3> QED BY <1>3, <3>1
  <2>2. CASE f = e /\ s \in Payments
    <3>1. f.of = id /\ ~f.reverses /\ f.lines = AllocationLines(s, amount)
      BY <1>4, <2>2
    <3>2. f.of \notin Documents \cup Credits \cup Payments
      BY <1>1, <3>1, KindsApart
    <3>3. r \in rows' /\ r.id = f.of /\ r.source \in Payments
          /\ f.lines = AllocationLines(r.source, r.amount)
      BY <1>2, <1>3, <2>2, <3>1
    <3> QED BY <3>1, <3>2, <3>3
  <2> QED BY <1>3, <2>1, <2>2
<1>18. BooksHold'
  <2> DEFINE lines == AllocationLines(s, amount)
  <2>1. IF r.source \in Payments
        THEN /\ Reads(lines, IF Side(r.source) = "AR" THEN -amount ELSE 0,
                      IF Side(r.source) = "AR" THEN 0 ELSE amount, 0, 0, 0)
             /\ \A a \in Accounts : /\ Movement(entries', a) = Movement(entries, a) + lines[a]
                                    /\ Movement(entries, a) \in Int
        ELSE entries' = entries
    <3>1. CASE s \in Payments
      <4>1. entries' = entries \cup {e}
        BY <1>3, <3>1
      <4>2. \A a \in Accounts : /\ Movement(entries \cup {e}, a) = Movement(entries, a) + e.lines[a]
                                /\ Movement(entries, a) \in Int
        <5>1. Journal(entries) /\ Journal(entries \cup {e}) /\ e \notin entries
          BY <1>7, <1>8, <4>1
        <5>2. ASSUME NEW a \in Accounts
              PROVE  Movement(entries \cup {e}, a) = Movement(entries, a) + e.lines[a]
          <6>1. a \in Accounts
            OBVIOUS
          <6> QED BY ONLY <5>1, <6>1, MovementGrows
        <5> QED BY <5>1, <5>2, MovementType
      <4> QED BY <1>2, <1>4, <1>5, <3>1, <4>1, <4>2
    <3>2. CASE s \notin Payments
      BY <1>2, <1>3, <3>2
    <3> QED BY <3>1, <3>2
  <2> HIDE DEF lines
  <2>2. r \in RowRecords /\ amount \in Int /\ stock' = stock /\ shipped' = shipped
    BY <1>1, <1>2, <1>3
  <2>3. TypesHold /\ BooksHold
    BY <1>12
  <2> QED BY <1>10, <1>13, <2>1, <2>2, <2>3, SettledBooks
<1> QED BY <1>14, <1>15, <1>16, <1>17, <1>18 DEF ReportsInvariant

----------------------------------------------------------------------------
(* Cancelling an entry. *)
LEMMA MirrorReads ==
  ASSUME NEW f, NEW receivable \in Int, NEW payable \in Int,
         Reads(f, receivable, payable, 0, 0, 0)
  PROVE  Reads([a \in Accounts |-> -f[a]], 0 - receivable, 0 - payable, 0, 0, 0)
<1> DEFINE g == [a \in Accounts |-> -f[a]]
<1>1. f \in [Accounts -> Int] /\ Sum(f) = 0
  BY DEF Reads
<1>2. /\ g \in [Accounts -> Int]
      /\ \A a \in Accounts : f[a] \in Int /\ g[a] = (-1) * f[a] /\ g[a] = -f[a]
  BY <1>1
<1> HIDE DEF g
<1>3. SumFunctionOnSet(g, Accounts) = (-1) * SumFunctionOnSet(f, Accounts)
  BY <1>2, AccountsAreFinite, SumScale
<1>4. Sum(g) = 0
  BY <1>1, <1>2, <1>3 DEF Sum
<1>5. /\ g["receivable"] = 0 - receivable /\ g["payable"] = 0 - payable /\ g["inventory"] = 0
      /\ g["outputTax"] = 0 /\ g["inputTax"] = 0
  BY <1>2, NamesAreAccounts DEF Reads
<1> QED BY <1>2, <1>4, <1>5 DEF Reads, g

\* What cancelling the entry of x does to the journal.
LEMMA CancelledJournal ==
  ASSUME ReportsAssumption, TypesHold, EntriesHold, NEW x \in Things \cup RowIds,
         NEW d \in PostingDays, Booked(x), x \notin cancelled, Cancel(x, d),
         NEW receivable \in Int, NEW payable \in Int,
         \A e \in Original(x) : Reads(e.lines, receivable, payable, 0, 0, 0)
  PROVE  LET f == Mirror(x, d).lines
         IN  /\ Journal(entries')
             /\ Reads(f, 0 - receivable, 0 - payable, 0, 0, 0)
             /\ \A a \in Accounts : /\ Movement(entries', a) = Movement(entries, a) + f[a]
                                    /\ Movement(entries, a) \in Int
             /\ \A y : Booked(y)' <=> Booked(y)
             /\ OnBooks' = OnBooks
             /\ \A e \in entries' : e \in entries \/ (e.reverses /\ e.of = x)
<1> DEFINE m == Mirror(x, d)
<1>1. EntryOf(x) \in Original(x)
  BY DEF EntryOf, Booked
<1>2. Reads(EntryOf(x).lines, receivable, payable, 0, 0, 0)
  BY <1>1
<1>3. /\ m.of = x /\ m.reverses /\ m.date = d
      /\ m.lines = [a \in Accounts |-> -EntryOf(x).lines[a]]
  BY DEF Mirror
<1>4. Reads(m.lines, 0 - receivable, 0 - payable, 0, 0, 0)
  BY <1>2, <1>3, MirrorReads
<1>5. m \in EntryRecords /\ Sum(m.lines) = 0
  <2>1. d \in 1 .. LastDate
    BY DaysAreDates
  <2>2. m.lines \in [Accounts -> Int] /\ Sum(m.lines) = 0
    BY <1>4 DEF Reads
  <2> QED BY <1>3, <2>1, <2>2 DEF EntryRecords, Mirror
<1>6. m \notin entries
  BY <1>3 DEF EntriesHold
<1>7. entries' = entries \cup {m}
  BY DEF Cancel
<1> HIDE DEF m
<1>8. Journal(entries \cup {m})
  BY <1>5, JournalGrows DEF TypesHold
<1>9. \A a \in Accounts : /\ Movement(entries \cup {m}, a) = Movement(entries, a) + m.lines[a]
                          /\ Movement(entries, a) \in Int
  BY <1>6, <1>8, MovementGrows, MovementType DEF TypesHold
<1>10. \A y : Booked(y)' <=> Booked(y)
  BY <1>3, <1>7 DEF Booked, Original
<1>11. OnBooks' = OnBooks
  BY <1>10 DEF OnBooks
<1>12. \A e \in entries' : e \in entries \/ (e.reverses /\ e.of = x)
  BY <1>3, <1>7
<1> QED BY <1>4, <1>7, <1>8, <1>9, <1>10, <1>11, <1>12 DEF m

LEMMA ReverseStep ==
  ASSUME ReportsAssumption, ReportsInvariant, NEW x \in Things, NEW d \in PostingDays,
         ReversePayment(x, d)
  PROVE  ReportsInvariant'
<1> DEFINE f == Mirror(x, d).lines
<1>1. /\ x \in Payments /\ x \in Things /\ x \notin RowIds /\ Booked(x) /\ x \notin cancelled
      /\ Cancel(x, d) /\ UNCHANGED <<plan, docs, rows, stock, shipped>>
  BY KindsApart DEF ReversePayment, ReportsAssumption
<1>2. TypesHold /\ RowsHold /\ EntriesHold /\ DocsHold /\ BooksHold
  BY DEF ReportsInvariant
<1>3. \A e \in Original(x) : Reads(e.lines, 0, 0, 0, 0, 0)
  <2> SUFFICES ASSUME NEW e \in Original(x) PROVE Reads(e.lines, 0, 0, 0, 0, 0)
    OBVIOUS
  <2>1. e.lines = PaymentLines(x)
    BY <1>1, <1>2, KindsApart DEF Original, EntriesHold, LinesOf
  <2> QED BY <1>1, <2>1, PaymentLinesRead
<1>4. 0 \in Int /\ 0 - 0 = 0
  OBVIOUS
<1>5. /\ Journal(entries')
      /\ Reads(f, 0 - 0, 0 - 0, 0, 0, 0)
      /\ \A a \in Accounts : /\ Movement(entries', a) = Movement(entries, a) + f[a]
                             /\ Movement(entries, a) \in Int
      /\ \A y : Booked(y)' <=> Booked(y)
      /\ OnBooks' = OnBooks
      /\ \A e \in entries' : e \in entries \/ (e.reverses /\ e.of = x)
  BY <1>1, <1>2, <1>3, <1>4, CancelledJournal
<1> HIDE DEF f
<1>6. Reads(f, 0, 0, 0, 0, 0)
  BY <1>4, <1>5
<1>7. cancelled' = cancelled \cup {x}
  BY <1>1 DEF Cancel
<1>8. TypesHold'
  BY <1>1, <1>2, <1>5 DEF TypesHold
<1>9. Live(rows)' = Live(rows)
  BY <1>1
<1>10. RowsHold'
  <2>1. \A q \in Live(rows) : q.id \in RowIds
    BY <1>2, LiveIsFinite DEF RowRecords
  <2> QED BY <1>1, <1>2, <1>5, <1>7, <1>9, <2>1 DEF RowsHold
<1>11. EntriesHold'
  <2> SUFFICES ASSUME NEW e \in entries'
               PROVE  /\ e.reverses => e.of \in cancelled'
                      /\ ~e.reverses /\ e.of \in Documents \cup Credits \cup Payments
                           => e.lines = LinesOf(e.of)
                      /\ ~e.reverses /\ e.of \in RowIds =>
                           \E q \in rows' : q.id = e.of /\ q.source \in Payments
                                           /\ e.lines = AllocationLines(q.source, q.amount)
    BY DEF EntriesHold
  <2>1. CASE e \in entries
    BY <1>1, <1>2, <1>7, <2>1 DEF EntriesHold
  <2>2. CASE e.reverses /\ e.of = x
    BY <1>7, <2>2
  <2> QED BY <1>5, <2>1, <2>2
<1>12. \A K : AmountLive(K)' = AmountLive(K)
  BY <1>9 DEF AmountLive
<1>13. DocsHold'
  BY <1>1, <1>2, <1>5, <1>12 DEF DocsHold
<1>14. BooksHold'
  <2>1. \A a \in {"receivable", "payable", "inventory", "outputTax", "inputTax"} :
          Movement(entries', a) = Movement(entries, a)
    BY <1>5, <1>6, NamesAreAccounts DEF Reads
  <2>2. \A K : WorthPosted(K)' = WorthPosted(K) /\ TaxPosted(K)' = TaxPosted(K)
               /\ PaperPosted' = PaperPosted /\ ShippedWorth' = ShippedWorth
    BY <1>1, <1>5 DEF WorthPosted, TaxPosted, PaperPosted, ShippedWorth
  <2> QED BY <1>1, <1>2, <1>12, <2>1, <2>2 DEF BooksHold
<1> QED BY <1>8, <1>10, <1>11, <1>13, <1>14 DEF ReportsInvariant

LEMMA UnallocateStep ==
  ASSUME ReportsAssumption, ReportsInvariant, NEW r \in rows, NEW d \in PostingDays,
         Unallocate(r, d)
  PROVE  ReportsInvariant'
<1> DEFINE back == [r EXCEPT !.reversed = TRUE]
           n == 0 - r.amount
           f == Mirror(r.id, d).lines
           ar == IF Side(r.source) = "AR" THEN 0 - r.amount ELSE 0
           ap == IF Side(r.source) = "AR" THEN 0 ELSE r.amount
<1>1. TypesHold /\ RowsHold /\ EntriesHold /\ DocsHold /\ BooksHold
  BY DEF ReportsInvariant
<1>2. r \in RowRecords /\ r \in Live(rows)
  BY <1>1 DEF TypesHold, Unallocate
<1>3. /\ r.id \in RowIds /\ r.source \in Payments \cup Credits /\ r.target \in Documents
      /\ r.amount \in Nat \ {0} /\ n \in Int
  BY <1>2 DEF RowRecords
<1>4. /\ rows' = (rows \ {r}) \cup {back} /\ docs' = Moved(r.target, r.source, -r.amount)
      /\ UNCHANGED <<plan, stock, shipped>>
      /\ IF r.source \in Payments THEN Cancel(r.id, d) ELSE UNCHANGED <<entries, cancelled>>
  BY DEF Unallocate
<1>5. /\ back \in RowRecords /\ back.reversed /\ back.id = r.id /\ back.source = r.source
      /\ back.target = r.target /\ back.amount = r.amount
  BY <1>2 DEF RowRecords
<1>6. -r.amount = n
  BY <1>3
<1> HIDE DEF back
<1>7. Live(rows)' = Live(rows) \ {r}
  BY <1>4, <1>5 DEF Live
<1>8. Settles(r, n)
  <2> SUFFICES ASSUME NEW K \in SUBSET RowRecords
               PROVE  AmountLive(K)' = AmountLive(K) + IF r \in K THEN n ELSE 0
    BY DEF Settles
  <2>1. AmountLive(K)' = AmountLive(K) + IF r \in K THEN -r.amount ELSE 0
    BY <1>1, <1>2, <1>7, LiveShrinks
  <2> QED BY <1>6, <2>1
<1>9. ASSUME r.source \in Payments
  PROVE  /\ Journal(entries') /\ BooksHold' /\ \A y : Booked(y)' <=> Booked(y)
         /\ cancelled \subseteq cancelled' /\ cancelled' \subseteq cancelled \cup {r.id}
         /\ \A e \in entries' : e \in entries \/ (e.reverses /\ e.of \in cancelled')
  <2>1. r.id \notin cancelled /\ Booked(r.id) /\ Cancel(r.id, d)
    BY <1>1, <1>2, <1>4, <1>9 DEF RowsHold
  <2>2. \A e \in Original(r.id) : Reads(e.lines, ar, ap, 0, 0, 0)
    <3> SUFFICES ASSUME NEW e \in Original(r.id) PROVE Reads(e.lines, ar, ap, 0, 0, 0)
      OBVIOUS
    <3>1. PICK q \in rows : q.id = r.id /\ e.lines = AllocationLines(q.source, q.amount)
      BY <1>1, <1>3 DEF Original, EntriesHold
    <3>2. q = r
      BY <1>1, <3>1 DEF RowsHold
    <3>3. Reads(AllocationLines(r.source, r.amount),
                IF Side(r.source) = "AR" THEN -r.amount ELSE 0,
                IF Side(r.source) = "AR" THEN 0 ELSE r.amount, 0, 0, 0)
      BY <1>3, AllocationLinesRead
    <3> QED BY <1>6, <3>1, <3>2, <3>3
  <2>3. ar \in Int /\ ap \in Int
    BY <1>3
  <2>4. /\ (0 - ar) = IF Side(r.source) = "AR" THEN -n ELSE 0
        /\ (0 - ap) = IF Side(r.source) = "AR" THEN 0 ELSE n
    BY <1>3
  <2> HIDE DEF ar, ap, n
  <2>5. /\ Journal(entries')
        /\ Reads(f, 0 - ar, 0 - ap, 0, 0, 0)
        /\ \A a \in Accounts : /\ Movement(entries', a) = Movement(entries, a) + f[a]
                               /\ Movement(entries, a) \in Int
        /\ \A y : Booked(y)' <=> Booked(y)
        /\ OnBooks' = OnBooks
        /\ \A e \in entries' : e \in entries \/ (e.reverses /\ e.of = r.id)
    BY <1>1, <1>3, <2>1, <2>2, <2>3, CancelledJournal
  <2> HIDE DEF f
  <2>6. BooksHold'
    <3>1. IF r.source \in Payments
          THEN /\ Reads(f, IF Side(r.source) = "AR" THEN -n ELSE 0,
                        IF Side(r.source) = "AR" THEN 0 ELSE n, 0, 0, 0)
               /\ \A a \in Accounts : /\ Movement(entries', a) = Movement(entries, a) + f[a]
                                      /\ Movement(entries, a) \in Int
          ELSE entries' = entries
      BY <1>9, <2>4, <2>5
    <3> QED BY <1>1, <1>2, <1>3, <1>4, <1>8, <2>5, <3>1, SettledBooks
  <2>7. cancelled' = cancelled \cup {r.id}
    BY <2>1 DEF Cancel
  <2>8. /\ cancelled \subseteq cancelled' /\ cancelled' \subseteq cancelled \cup {r.id}
        /\ \A e \in entries' : e \in entries \/ (e.reverses /\ e.of \in cancelled')
    BY <2>5, <2>7
  <2> QED BY <2>5, <2>6, <2>8
<1>10. ASSUME r.source \notin Payments
  PROVE  /\ Journal(entries') /\ BooksHold' /\ \A y : Booked(y)' <=> Booked(y)
         /\ cancelled \subseteq cancelled' /\ cancelled' \subseteq cancelled \cup {r.id}
         /\ \A e \in entries' : e \in entries \/ (e.reverses /\ e.of \in cancelled')
  <2>1. entries' = entries /\ cancelled' = cancelled
    BY <1>4, <1>10
  <2>2. (\A y : Booked(y)' <=> Booked(y)) /\ OnBooks' = OnBooks
    BY <2>1 DEF Booked, Original, OnBooks
  <2>3. Journal(entries')
    BY <1>1, <2>1 DEF TypesHold
  <2> DEFINE lines == NoLines
  <2>4. IF r.source \in Payments
        THEN /\ Reads(lines, IF Side(r.source) = "AR" THEN -n ELSE 0,
                      IF Side(r.source) = "AR" THEN 0 ELSE n, 0, 0, 0)
             /\ \A a \in Accounts : /\ Movement(entries', a) = Movement(entries, a) + lines[a]
                                    /\ Movement(entries, a) \in Int
        ELSE entries' = entries
    BY <1>10, <2>1
  <2> HIDE DEF lines, n
  <2>5. BooksHold'
    BY <1>1, <1>2, <1>3, <1>4, <1>8, <2>2, <2>4, SettledBooks
  <2> QED BY <2>1, <2>2, <2>3, <2>5
<1>11. /\ Journal(entries') /\ BooksHold' /\ \A y : Booked(y)' <=> Booked(y)
       /\ cancelled \subseteq cancelled' /\ cancelled' \subseteq cancelled \cup {r.id}
       /\ \A e \in entries' : e \in entries \/ (e.reverses /\ e.of \in cancelled')
  BY <1>9, <1>10
<1>12. DocsHold' /\ docs' \in [Documents -> DocRecords]
  <2>1. Booked(r.target) /\ \A y \in Documents : Booked(y)' <=> Booked(y)
    BY <1>1, <1>11 DEF RowsHold
  <2>2. n <= docs[r.target].open
    <3>1. docs[r.target].open >= 0 /\ docs[r.target].open \in Int
      BY <1>1, <1>3 DEF DocsHold, TypesHold, DocRecords
    <3> QED BY <1>3, <3>1
  <2>3. docs' = Moved(r.target, r.source, n)
    BY <1>4, <1>6
  <2> HIDE DEF n
  <2>4. TypesHold /\ DocsHold /\ r \in RowRecords /\ n \in Int
    BY <1>1, <1>2, <1>3
  <2> QED BY <1>8, <2>1, <2>2, <2>3, <2>4, SettledDocs
<1>13. TypesHold'
  <2>1. IsFiniteSet(rows \ {r})
    BY <1>1, FS_Subset DEF TypesHold
  <2>2. IsFiniteSet(rows')
    BY <1>4, <2>1, FS_AddElement
  <2> QED BY <1>1, <1>4, <1>5, <1>11, <1>12, <2>2 DEF TypesHold
<1>14. RowsHold'
  <2>1. \A p, q \in rows' : p.id = q.id => p = q
    BY <1>1, <1>4, <1>5 DEF RowsHold
  <2>2. \A q \in rows' : /\ Side(q.source) = Side(q.target)
                         /\ Booked(q.source)' /\ Booked(q.target)'
                         /\ q.source \in Payments => Booked(q.id)'
    <3> SUFFICES ASSUME NEW q \in rows'
                 PROVE  /\ Side(q.source) = Side(q.target)
                        /\ Booked(q.source)' /\ Booked(q.target)'
                        /\ q.source \in Payments => Booked(q.id)'
      OBVIOUS
    <3>1. CASE q \in rows
      BY <1>1, <1>11, <3>1 DEF RowsHold
    <3>2. CASE q = back
      BY <1>1, <1>5, <1>11, <3>2 DEF RowsHold
    <3> QED BY <1>4, <3>1, <3>2
  <2>3. \A q \in Live(rows)' : q.id \notin cancelled'
    <3> SUFFICES ASSUME NEW q \in Live(rows)' PROVE q.id \notin cancelled'
      OBVIOUS
    <3>1. q \in Live(rows) /\ q # r /\ q \in rows
      BY <1>7 DEF Live
    <3>2. q.id \notin cancelled /\ q.id # r.id
      BY <1>1, <3>1 DEF RowsHold
    <3> QED BY <1>11, <3>2
  <2>4. \A i \in cancelled' : i \in Payments \/ \E q \in rows' : q.id = i
    <3> SUFFICES ASSUME NEW i \in cancelled'
                 PROVE  i \in Payments \/ \E q \in rows' : q.id = i
      OBVIOUS
    <3>1. i = r.id \/ i \in Payments \/ \E q \in rows : q.id = i
      BY <1>1, <1>11 DEF RowsHold
    <3> QED BY <1>4, <1>5, <3>1
  <2> QED BY <2>1, <2>2, <2>3, <2>4 DEF RowsHold
<1>15. EntriesHold'
  <2> SUFFICES ASSUME NEW e \in entries'
               PROVE  /\ e.reverses => e.of \in cancelled'
                      /\ ~e.reverses /\ e.of \in Documents \cup Credits \cup Payments
                           => e.lines = LinesOf(e.of)
                      /\ ~e.reverses /\ e.of \in RowIds =>
                           \E q \in rows' : q.id = e.of /\ q.source \in Payments
                                           /\ e.lines = AllocationLines(q.source, q.amount)
    BY DEF EntriesHold
  <2>1. CASE e \in entries
    <3>1. /\ e.reverses => e.of \in cancelled
          /\ ~e.reverses /\ e.of \in Documents \cup Credits \cup Payments
               => e.lines = LinesOf(e.of)
          /\ ~e.reverses /\ e.of \in RowIds =>
               \E q \in rows : q.id = e.of /\ q.source \in Payments
                               /\ e.lines = AllocationLines(q.source, q.amount)
      BY <1>1, <2>1 DEF EntriesHold
    <3>2. \A q \in rows : \E p \in rows' : p.id = q.id /\ p.source = q.source
                                           /\ p.amount = q.amount
      BY <1>4, <1>5
    <3> QED BY <1>11, <3>1, <3>2
  <2>2. CASE e.reverses /\ e.of \in cancelled'
    BY <2>2
  <2> QED BY <1>11, <2>1, <2>2
<1> QED BY <1>11, <1>12, <1>13, <1>14, <1>15 DEF ReportsInvariant

----------------------------------------------------------------------------
(* The invariant holds. *)
LEMMA InitInvariant == ReportsAssumption /\ ReportsInit => ReportsInvariant
<1> SUFFICES ASSUME ReportsAssumption, ReportsInit PROVE ReportsInvariant
  OBVIOUS
<1>1. /\ plan \in Plans /\ entries = {} /\ cancelled = {} /\ rows = {} /\ stock = 0 /\ shipped = {}
      /\ docs = [x \in Documents |-> [date |-> 0, allocated |-> 0, credited |-> 0, open |-> 0]]
  BY DEF ReportsInit
<1>2. TypesHold
  <2>1. Journal({})
    BY FS_EmptySet DEF Journal
  <2> QED BY <1>1, <2>1, FS_EmptySet DEF TypesHold, DocRecords
<1>3. RowsHold /\ EntriesHold
  BY <1>1 DEF RowsHold, EntriesHold, Live
<1>4. \A x : ~Booked(x)
  BY <1>1 DEF Booked, Original
<1>5. \A K : AmountLive(K) = 0
  <2>1. \A K : K \cap Live(rows) = {}
    BY <1>1 DEF Live
  <2> QED BY <2>1, SumEmpty DEF AmountLive
<1>6. DocsHold
  BY <1>1, <1>4, <1>5 DEF DocsHold
<1>7. /\ \A K : WorthPosted(K) = 0 /\ TaxPosted(K) = 0
      /\ PaperPosted = 0 /\ ShippedWorth = 0
  <2>1. OnBooks = {}
    BY <1>4 DEF OnBooks
  <2>2. \A K : K \cap OnBooks = {}
    BY <2>1
  <2> QED BY <1>1, <2>2, SumEmpty DEF WorthPosted, TaxPosted, PaperPosted, ShippedWorth
<1>8. \A a : Movement(entries, a) = 0
  BY <1>1, SumEmpty DEF Movement, Sum
<1>9. BooksHold
  BY <1>1, <1>5, <1>7, <1>8 DEF BooksHold
<1> QED BY <1>2, <1>3, <1>6, <1>9 DEF ReportsInvariant

LEMMA StutterKeeps ==
  ASSUME ReportsInvariant, UNCHANGED reportVars
  PROVE  ReportsInvariant'
<1>1. UNCHANGED <<plan, entries, cancelled, docs, rows, stock, shipped>>
  BY DEF reportVars
<1>2. TypesHold' /\ RowsHold' /\ EntriesHold'
  <2>1. \A y : Booked(y)' <=> Booked(y)
    BY <1>1 DEF Booked, Original
  <2>2. Live(rows)' = Live(rows)
    BY <1>1
  <2> QED BY <1>1, <2>1, <2>2 DEF ReportsInvariant, TypesHold, RowsHold, EntriesHold
<1>3. DocsHold' /\ BooksHold'
  <2>1. (\A y : Booked(y)' <=> Booked(y)) /\ OnBooks' = OnBooks
    BY <1>1 DEF Booked, Original, OnBooks
  <2>2. \A K : AmountLive(K)' = AmountLive(K)
    BY <1>1 DEF AmountLive
  <2>3. \A K : WorthPosted(K)' = WorthPosted(K) /\ TaxPosted(K)' = TaxPosted(K)
               /\ PaperPosted' = PaperPosted /\ ShippedWorth' = ShippedWorth
    BY <1>1, <2>1 DEF WorthPosted, TaxPosted, PaperPosted, ShippedWorth
  <2> QED BY <1>1, <2>1, <2>2, <2>3 DEF ReportsInvariant, DocsHold, BooksHold
<1> QED BY <1>2, <1>3 DEF ReportsInvariant

LEMMA StepInvariant ==
  ASSUME ReportsAssumption, ReportsInvariant, [ReportsNext]_reportVars
  PROVE  ReportsInvariant'
<1>1. CASE UNCHANGED reportVars
  BY <1>1, StutterKeeps
<1>2. CASE ReportsNext
  <2>1. PICK d \in PostingDays :
          \/ \E x \in Things :
               PostDocument(x, d) \/ PostCredit(x, d) \/ PostReturn(x, d)
               \/ PostPayment(x, d) \/ PostGoods(x, d) \/ PostPurchaseReturn(x)
               \/ PostManual(x, d) \/ ReversePayment(x, d) \/ CloseYear(x, d)
          \/ \E id \in RowIds, s \in plan \cap (Payments \cup Notes),
                t \in plan \cap Documents :
               \E amount \in Amounts : Allocate(id, s, t, amount, d)
          \/ \E r \in rows : Unallocate(r, d)
    BY <1>2 DEF ReportsNext
  <2>2. ASSUME NEW x \in Things, PostDocument(x, d) PROVE ReportsInvariant'
    BY <2>2, DocumentStep
  <2>3. ASSUME NEW x \in Things, PostCredit(x, d) \/ PostReturn(x, d) PROVE ReportsInvariant'
    BY <2>3, CreditStep
  <2>4. ASSUME NEW x \in Things, PostPayment(x, d) PROVE ReportsInvariant'
    BY <2>4, PaymentStep
  <2>5. ASSUME NEW x \in Things, PostGoods(x, d) PROVE ReportsInvariant'
    BY <2>5, GoodsStep
  <2>6. ASSUME NEW x \in Things, PostManual(x, d) PROVE ReportsInvariant'
    BY <2>6, ManualStep
  <2>7. ASSUME NEW x \in Things, ReversePayment(x, d) PROVE ReportsInvariant'
    BY <2>7, ReverseStep
  <2>8. ASSUME NEW x \in Things, CloseYear(x, d) PROVE ReportsInvariant'
    BY <2>8, CloseStep
  <2>9. ASSUME NEW id \in RowIds, NEW s \in plan \cap (Payments \cup Notes),
               NEW t \in plan \cap Documents, NEW amount \in Amounts,
               Allocate(id, s, t, amount, d)
        PROVE  ReportsInvariant'
    <3>1. s \in plan \cap (Payments \cup Credits)
      BY KindsApart
    <3> QED BY <2>9, <3>1, AllocateStep
  <2>10. ASSUME NEW r \in rows, Unallocate(r, d) PROVE ReportsInvariant'
    BY <2>10, UnallocateStep
  <2>11. ASSUME NEW x \in Things, PostPurchaseReturn(x) PROVE ReportsInvariant'
    BY <2>11, ShipStep
  <2> QED BY <2>1, <2>2, <2>3, <2>4, <2>5, <2>6, <2>7, <2>8, <2>9, <2>10, <2>11
<1> QED BY <1>1, <1>2

LEMMA ReportsInvariantHolds == ReportsSpec => []ReportsInvariant
<1>1. ReportsInit => ReportsInvariant
  BY ReportsAssumption, InitInvariant
<1>2. ReportsInvariant /\ [ReportsNext]_reportVars => ReportsInvariant'
  BY ReportsAssumption, StepInvariant
<1> QED BY <1>1, <1>2, PTL DEF ReportsSpec

----------------------------------------------------------------------------
(* Sums by the parts of a set. *)
LEMMA SumOfOne ==
  ASSUME NEW x, NEW f, f[x] \in Int
  PROVE  SumFunctionOnSet(f, {x}) = f[x]
<1>1. IsFiniteSet({}) /\ x \notin {} /\ (\A y \in {} \cup {x} : f[y] \in Int)
  BY FS_EmptySet
<1>2. SumFunctionOnSet(f, {} \cup {x}) = f[x] + SumFunctionOnSet(f, {})
  BY <1>1, SumAdd
<1>3. {} \cup {x} = {x}
  OBVIOUS
<1> QED BY <1>2, <1>3, SumEmpty

\* The members of one key.
Fibre(X, key, y) == {x \in X : key[x] = y}

\* A sum is the sum, over the keys its members have, of the sums over the
\* members of each key.
LEMMA SumFibres ==
  ASSUME NEW X, IsFiniteSet(X), NEW Y, IsFiniteSet(Y),
         NEW key, \A x \in X : key[x] \in Y,
         NEW f, \A x \in X : f[x] \in Int,
         NEW parts, \A y \in Y : parts[y] = SumFunctionOnSet(f, Fibre(X, key, y))
  PROVE  SumFunctionOnSet(f, X) = SumFunctionOnSet(parts, Y)
<1> DEFINE m == [x \in X |-> [y \in Y |-> IF key[x] = y THEN f[x] ELSE 0]]
           n == [y \in Y |-> [x \in X |-> IF key[x] = y THEN f[x] ELSE 0]]
<1>1. \A x \in X, y \in Y : /\ m[x][y] = IF key[x] = y THEN f[x] ELSE 0
                            /\ n[y][x] = m[x][y] /\ m[x][y] \in Int
  OBVIOUS
<1> HIDE DEF m, n
<1>2. ASSUME NEW x \in X
      PROVE  f[x] = SumFunctionOnSet(m[x], Y)
  <2> DEFINE g == m[x]
             k == key[x]
  <2>1. k \in Y /\ g[k] = f[x] /\ g[k] \in Int /\ \A y \in Y \ {k} : g[y] = 0
    BY <1>1
  <2>2. {k} \in SUBSET Y /\ \A y \in {k} : g[y] \in Int /\ g[y] = g[y]
    BY <2>1
  <2> HIDE DEF g, k
  <2>3. SumFunctionOnSet(g, Y) = SumFunctionOnSet(g, {k})
    BY <2>1, <2>2, SumSupport
  <2>4. SumFunctionOnSet(g, {k}) = g[k]
    BY <2>1, SumOfOne
  <2> QED BY <2>1, <2>3, <2>4 DEF g
<1>3. ASSUME NEW y \in Y
      PROVE  parts[y] = SumFunctionOnSet(n[y], X)
  <2> DEFINE g == n[y]
             R == {x \in X : key[x] = y}
  <2>1. R \in SUBSET X /\ (\A x \in R : f[x] \in Int /\ g[x] = f[x]) /\ (\A x \in X \ R : g[x] = 0)
    BY <1>1
  <2>2. parts[y] = SumFunctionOnSet(f, R)
    BY DEF Fibre
  <2> HIDE DEF g, R
  <2>3. SumFunctionOnSet(g, X) = SumFunctionOnSet(f, R)
    BY <2>1, SumSupport
  <2> QED BY <2>2, <2>3 DEF g
<1>4. Tallied(X, Y, m, n, f, parts)
  BY <1>1, <1>2, <1>3 DEF Tallied
<1> QED BY <1>4, SumExchange

\* A finite set has as many members as ones add up to over it.
LEMMA SumOfOnes ==
  ASSUME NEW S, IsFiniteSet(S), NEW one, \A x \in S : one[x] = 1
  PROVE  Cardinality(S) = SumFunctionOnSet(one, S)
<1> DEFINE T == {A \in SUBSET S : Cardinality(A) = SumFunctionOnSet(one, A)}
<1>1. ASSUME NEW A \in SUBSET S, \A B \in SUBSET A : B # A => B \in T
      PROVE  A \in T
  <2>1. CASE A = {}
    BY <2>1, SumEmpty, FS_EmptySet
  <2>2. CASE A # {}
    <3> DEFINE R == Rest(A)
               c == Chosen(A)
    <3>1. R \in T /\ c \in S /\ c \in A /\ R = A \ {c} /\ R \in SUBSET S
      BY <1>1, <2>2, ChosenIsMember DEF Rest
    <3>2. IsFiniteSet(A) /\ IsFiniteSet(R)
      BY <3>1, FS_Subset
    <3>3. SumFunctionOnSet(one, A) = one[c] + SumFunctionOnSet(one, R)
      BY <2>2, <3>2, SumUnfolds
    <3>4. Cardinality(A) = Cardinality(R) + 1
      <4> HIDE DEF R, c
      <4>1. Cardinality(R \cup {c}) = Cardinality(R) + 1
        BY <3>1, <3>2, FS_AddElement
      <4>2. R \cup {c} = A
        BY <3>1
      <4> QED BY <4>1, <4>2
    <3>5. Cardinality(R) = SumFunctionOnSet(one, R) /\ one[c] = 1
      BY <3>1
    <3> HIDE DEF R, c
    <3>6. Cardinality(R) \in Int
      BY <3>2, FS_CardinalityType
    <3>7. Cardinality(A) = SumFunctionOnSet(one, A)
      BY <3>3, <3>4, <3>5, <3>6
    <3> QED BY <3>7
  <2> QED BY <2>1, <2>2
<1> HIDE DEF T
<1>2. S \in T
  BY <1>1, AllSubsets
<1> QED BY <1>2 DEF T

----------------------------------------------------------------------------
(* The statements, from the invariant. *)
LEMMA TypesFollow ==
  ASSUME ReportsAssumption, ReportsInvariant
  PROVE  ReportsTypeOK
<1>1. TypesHold /\ DocsHold
  BY DEF ReportsInvariant
<1>2. ASSUME NEW x \in Documents
      PROVE  /\ docs[x].date \in PostingDays \cup {0} /\ docs[x].open \in 0 .. Worth[x]
             /\ docs[x].allocated \in Nat /\ docs[x].credited \in Nat
  <2>1. docs[x] \in DocRecords
    BY <1>1 DEF TypesHold
  <2>2. AmountLive(RowsPaying(x)) \in Nat /\ AmountLive(RowsCrediting(x)) \in Nat
    <3>1. RowsPaying(x) \in SUBSET RowRecords /\ RowsCrediting(x) \in SUBSET RowRecords
      BY DEF RowsPaying, RowsCrediting
    <3> QED BY <1>1, <3>1, LiveAmountType
  <2>3. docs[x].allocated \in Nat /\ docs[x].credited \in Nat
    BY <1>1, <2>2 DEF DocsHold
  <2>4. Worth[x] \in Int /\ Worth[x] > 0
    BY KindsApart, WorthIsSplit
  <2>5. docs[x].open \in 0 .. Worth[x]
    <3>1. docs[x].open = IF Booked(x) THEN Worth[x] - docs[x].allocated - docs[x].credited ELSE 0
      BY <1>1 DEF DocsHold
    <3>2. docs[x].open >= 0
      BY <1>1 DEF DocsHold
    <3> QED BY <2>3, <2>4, <3>1, <3>2
  <2> QED BY <2>1, <2>3, <2>5 DEF DocRecords
<1>3. ASSUME NEW r \in rows
      PROVE  r.id \in RowIds /\ r.amount > 0 /\ r.target \in Documents
  BY <1>1 DEF TypesHold, RowRecords
<1>4. ASSUME NEW e \in entries
      PROVE  e.lines \in [Accounts -> Int] /\ Sum(e.lines) = 0
  BY <1>1 DEF TypesHold, Journal, EntryRecords
<1>5. plan \in Plans /\ stock \in Nat /\ shipped \subseteq plan
  BY <1>1 DEF TypesHold
<1> QED BY <1>2, <1>3, <1>4, <1>5 DEF ReportsTypeOK

\* Trial balances balance and join, the balance sheet balances, and the profit
\* explains the result, whatever is posted and for every window.
THEOREM StatementsAlwaysAgree == ReportsSpec => []StatementsAgree
<1>1. ReportsInvariant => StatementsAgree
  <2> SUFFICES ASSUME ReportsInvariant PROVE StatementsAgree
    OBVIOUS
  <2>1. Journal(entries)
    BY DEF ReportsInvariant, TypesHold
  <2>2. TrialBalancesJoin /\ BalanceSheetBalances /\ ProfitExplainsResult
    BY <2>1, ReportsAssumption, StatementsOfJournal
  <2>3. ReportsTypeOK
    BY ReportsAssumption, TypesFollow
  <2> QED BY <2>2, <2>3 DEF StatementsAgree
<1> QED BY <1>1, ReportsInvariantHolds, PTL

----------------------------------------------------------------------------
(* What is posted later. *)

\* A step leaves every entry, and dates a document only when it is posted.
LEMMA EntriesStay ==
  ASSUME ReportsInvariant, [ReportsNext]_reportVars
  PROVE  /\ entries \subseteq entries'
         /\ \A x \in Documents : docs'[x].date = docs[x].date \/ docs[x].date = 0
<1>1. DocsHold /\ TypesHold
  BY DEF ReportsInvariant
<1>2. ASSUME UNCHANGED docs
      PROVE  \A x \in Documents : docs'[x].date = docs[x].date
  BY <1>2
<1>3. ASSUME NEW t \in Documents, NEW s, NEW n, docs' = Moved(t, s, n)
      PROVE  \A x \in Documents : docs'[x].date = docs[x].date
  <2>1. \A x \in Documents : DOMAIN docs[x] = {"date", "allocated", "credited", "open"}
    BY <1>1 DEF TypesHold, DocRecords
  <2>2. DOMAIN docs = Documents
    BY <1>1 DEF TypesHold
  <2> DEFINE paid == [docs[t] EXCEPT !.allocated = docs[t].allocated + n]
             given == [docs[t] EXCEPT !.credited = docs[t].credited + n]
             one == IF s \in Payments THEN paid ELSE given
             new == Settled(one, t)
  <2>3. docs' = [docs EXCEPT ![t] = new]
    BY <1>3 DEF Moved
  <2>4. one.date = docs[t].date /\ "date" \in DOMAIN one
    BY <2>1
  <2> HIDE DEF one
  <2>5. new.date = docs[t].date
    BY <2>4 DEF Settled
  <2> HIDE DEF new
  <2> QED BY <2>2, <2>3, <2>5
<1>4. CASE UNCHANGED reportVars
  BY <1>4 DEF reportVars
<1>5. CASE ReportsNext
  <2>1. PICK d \in PostingDays :
          \/ \E x \in Things :
               PostDocument(x, d) \/ PostCredit(x, d) \/ PostReturn(x, d)
               \/ PostPayment(x, d) \/ PostGoods(x, d) \/ PostPurchaseReturn(x)
               \/ PostManual(x, d) \/ ReversePayment(x, d) \/ CloseYear(x, d)
          \/ \E id \in RowIds, s \in plan \cap (Payments \cup Notes),
                t \in plan \cap Documents :
               \E amount \in Amounts : Allocate(id, s, t, amount, d)
          \/ \E r \in rows : Unallocate(r, d)
    BY <1>5 DEF ReportsNext
  <2>2. ASSUME NEW x \in Things, PostDocument(x, d)
        PROVE  /\ entries \subseteq entries'
               /\ \A y \in Documents : docs'[y].date = docs[y].date \/ docs[y].date = 0
    <3>1. entries \subseteq entries' /\ ~Booked(x) /\ x \in Documents
      BY <2>2 DEF PostDocument, Ready
    <3>2. docs[x].date = 0
      BY <1>1, <3>1 DEF DocsHold
    <3>3. docs' = [docs EXCEPT ![x].date = d, ![x].open = Worth[x]]
      BY <2>2 DEF PostDocument
    <3>4. DOMAIN docs = Documents
      BY <1>1 DEF TypesHold
    <3>5. \A y \in Documents : y # x => docs'[y] = docs[y]
      BY <3>3, <3>4
    <3> QED BY <3>1, <3>2, <3>5
  <2>3. ASSUME NEW x \in Things,
               PostCredit(x, d) \/ PostReturn(x, d) \/ PostPayment(x, d) \/ PostGoods(x, d)
               \/ PostPurchaseReturn(x) \/ PostManual(x, d) \/ ReversePayment(x, d)
               \/ CloseYear(x, d)
        PROVE  entries \subseteq entries' /\ UNCHANGED docs
    BY <2>3 DEF PostCredit, PostReturn, PostPayment, PostGoods, PostPurchaseReturn, PostManual,
                ReversePayment, CloseYear, Cancel
  <2>4. ASSUME NEW id \in RowIds, NEW s \in plan \cap (Payments \cup Notes),
               NEW t \in plan \cap Documents, NEW amount \in Amounts,
               Allocate(id, s, t, amount, d)
        PROVE  entries \subseteq entries' /\ docs' = Moved(t, s, amount) /\ t \in Documents
    BY <2>4 DEF Allocate
  <2>5. ASSUME NEW r \in rows, Unallocate(r, d)
        PROVE  /\ entries \subseteq entries' /\ docs' = Moved(r.target, r.source, -r.amount)
               /\ r.target \in Documents
    BY <1>1, <2>5 DEF Unallocate, Cancel, TypesHold, RowRecords
  <2> QED BY <1>2, <1>3, <2>1, <2>2, <2>3, <2>4, <2>5
<1> QED BY <1>4, <1>5

\* The trial balance of a window reads the entries up to its end only.
LEMMA LedgerStepStands ==
  ASSUME ReportsAssumption, ReportsInvariant, ReportsInvariant', [ReportsNext]_reportVars,
         NEW w \in Windows, \A e \in New : e.date > w[2]
  PROVE  fn_trial_balance(w[1], w[2])' = fn_trial_balance(w[1], w[2])
<1> DEFINE from == w[1]
           to == w[2]
<1>1. w \in (Inception .. LastDate) \X (Inception .. LastDate) /\ LastDate \in Nat
      /\ Inception = 0
  BY DEF Windows, ReportsAssumption, Inception
<1>2. from \in Int /\ to \in Int
  BY <1>1
<1>3. \A e \in entries' : e.date \in Int
  BY DEF ReportsInvariant, TypesHold, Journal, EntryRecords
<1> HIDE DEF from, to
<1>4. Upto(to)' = Upto(to)
  <2>1. entries \subseteq entries'
    BY EntriesStay
  <2>2. \A e \in entries' \ entries : e.date > to
    BY DEF New, to
  <2> QED BY <1>2, <1>3, <2>1, <2>2 DEF Upto
<1>5. Within(from, to)' = Within(from, to) /\ Earlier(from, to)' = Earlier(from, to)
  BY <1>4 DEF Within, Earlier
<1>6. fn_trial_balance(from, to)' = fn_trial_balance(from, to)
  BY <1>4, <1>5 DEF fn_trial_balance, Touched, Movement, Debits, Credited
<1> QED BY <1>6 DEF from, to

\* An ageing reads the rows and the documents up to its day only.
LEMMA AgeingStepStands ==
  ASSUME ReportsAssumption, ReportsInvariant, ReportsInvariant', [ReportsNext]_reportVars,
         NEW d \in Inception .. LastDate, NEW side, NothingTakenBack, LaterThan(d)
  PROVE  {<<x, OpenAt(x, d)>> : x \in fn_ageing(side, d)}'
           = {<<x, OpenAt(x, d)>> : x \in fn_ageing(side, d)}
<1>1. d \in Int
  BY DEF ReportsAssumption, Inception
<1>2. rows \subseteq RowRecords /\ rows' \subseteq RowRecords
  BY DEF ReportsInvariant, TypesHold
<1>3. \A r \in rows \cup rows' : r.date \in Int
  BY <1>2 DEF RowRecords
<1>4. Live(rows) \subseteq rows' /\ \A r \in rows' \ rows : r.date > d
  BY DEF NothingTakenBack, LaterThan
<1>5. \A x : {r \in Live(rows') : r.target = x /\ r.date <= d}
               = {r \in Live(rows) : r.target = x /\ r.date <= d}
  BY <1>1, <1>3, <1>4 DEF Live
<1>6. \A x : OpenAt(x, d)' = OpenAt(x, d)
  BY <1>5 DEF OpenAt, SettledAt
<1>7. \A x \in Documents : docs'[x].date \in 1 .. d <=> docs[x].date \in 1 .. d
  <2> SUFFICES ASSUME NEW x \in Documents, docs'[x].date # docs[x].date
               PROVE  docs'[x].date \notin 1 .. d /\ docs[x].date \notin 1 .. d
    OBVIOUS
  <2>1. docs[x].date = 0
    BY EntriesStay
  <2>2. docs'[x].date > d
    BY DEF LaterThan
  <2>3. docs'[x].date \in Int
    <3>1. docs' \in [Documents -> DocRecords]
      BY DEF ReportsInvariant, TypesHold
    <3>2. PostingDays \subseteq Int
      BY DEF ReportsAssumption
    <3>3. docs'[x] \in DocRecords
      BY <3>1
    <3>4. docs'[x].date \in PostingDays \cup {0}
      BY <3>3 DEF DocRecords
    <3>5. 0 \in Int
      OBVIOUS
    <3> QED BY ONLY <3>2, <3>4, <3>5
  <2> QED BY <1>1, <2>1, <2>2, <2>3
<1>8. fn_ageing(side, d)' = fn_ageing(side, d)
  BY <1>6, <1>7 DEF fn_ageing
<1> QED BY <1>6, <1>8

\* What is posted on later days changes no trial balance of a window that
\* ended before, and no ageing but by an allocation taken back.
THEOREM PastAlwaysStands == ReportsSpec => PastStands
<1>1. ReportsInvariant /\ ReportsInvariant' /\ [ReportsNext]_reportVars =>
        [\A w \in Windows : (\A e \in New : e.date > w[2]) =>
           fn_trial_balance(w[1], w[2])' = fn_trial_balance(w[1], w[2])]_reportVars
  BY ReportsAssumption, LedgerStepStands
<1>2. ReportsInvariant /\ ReportsInvariant' /\ [ReportsNext]_reportVars =>
        [\A d \in Inception .. LastDate, side \in Sides :
           NothingTakenBack /\ LaterThan(d) =>
             {<<x, OpenAt(x, d)>> : x \in fn_ageing(side, d)}'
               = {<<x, OpenAt(x, d)>> : x \in fn_ageing(side, d)}]_reportVars
  BY ReportsAssumption, AgeingStepStands
<1> QED BY <1>1, <1>2, ReportsInvariantHolds, PTL
        DEF ReportsSpec, PastStands, LedgerPastStands, AgeingPastStands

----------------------------------------------------------------------------
(* The register and the tax report. *)
LEMMA RegisterAgrees ==
  ASSUME ReportsAssumption, Journal(entries)
  PROVE  RegisterMatchesLedger
<1> SUFFICES ASSUME NEW w \in Windows
             PROVE  LET r == money_register(w[1], w[2])
                        tb == fn_trial_balance(w[1], w[2])
                    IN  IF "cash" \in DOMAIN tb
                        THEN /\ ClosingBalance(r) = ClosingNet(tb, "cash")
                             /\ r.opening = tb["cash"].openingDebit - tb["cash"].openingCredit
                        ELSE ClosingBalance(r) = 0
  BY DEF RegisterMatchesLedger
<1> DEFINE from == w[1]
           to == w[2]
           r == money_register(from, to)
           tb == fn_trial_balance(from, to)
           opening == Movement(Earlier(from, to), "cash")
           moved == Movement(Within(from, to), "cash")
           closing == Movement(Upto(to), "cash")
           debits == Debits(Within(from, to), "cash")
           credits == Credited(Within(from, to), "cash")
<1>1. w \in (Inception .. LastDate) \X (Inception .. LastDate) /\ LastDate \in Nat
      /\ Inception = 0 /\ w[1] <= w[2]
  BY DEF Windows, ReportsAssumption, Inception
<1>2. from \in Int /\ to \in Int /\ from <= to /\ from <= to + 1
  BY <1>1
<1>3. "cash" \in Accounts /\ Sign("cash") = 1
  <2>1. "cash" \in Accounts
    BY AccountsAre
  <2>2. SubtypeOf["cash"] = "CURRENT_ASSET"
    BY DEF SubtypeOf
  <2>3. TypeOf("cash") = "ASSET"
    BY <2>1, <2>2, TypeIsOfSubtype
  <2> QED BY <2>1, <2>3 DEF Sign
<1> HIDE DEF from, to
<1>4. /\ Journal(Upto(to)) /\ Journal(Within(from, to)) /\ Journal(Earlier(from, to))
      /\ Upto(to) = Earlier(from, to) \cup Within(from, to)
      /\ Earlier(from, to) \cap Within(from, to) = {}
  BY <1>2, WindowParts
<1>5. {e \in entries : e.date < from} = Earlier(from, to)
  <2>1. \A e \in entries : e.date \in Int
    BY DEF Journal, EntryRecords
  <2> QED BY <1>2, <2>1 DEF Earlier, Upto
<1>6. r.opening = opening /\ r.in = debits /\ r.out = credits
  BY <1>5 DEF money_register
<1>7. opening \in Int /\ moved \in Int /\ closing \in Int
  BY <1>3, <1>4, MovementType
<1>8. closing = opening + moved
  BY <1>3, <1>4, MovementParts
<1>9. debits \in Int /\ credits \in Int /\ debits = moved + credits
  BY <1>3, <1>4, SidesMakeMovement
<1>10. ClosingBalance(r) = closing
  <2> HIDE DEF opening, moved, closing, debits, credits, r
  <2> QED BY <1>6, <1>7, <1>8, <1>9 DEF ClosingBalance
<1>11. DOMAIN tb = Touched(Upto(to))
  BY AccountsOfTrialBalance
<1>12. ASSUME "cash" \in Touched(Upto(to))
       PROVE  /\ ClosingNet(tb, "cash") = closing
              /\ tb["cash"].openingDebit - tb["cash"].openingCredit = opening
  <2>1. ClosingNet(tb, "cash") = Sign("cash") * closing
    BY <1>2, <1>12, RowsAreSigned
  <2>2. /\ tb["cash"].openingDebit = Larger(opening)
        /\ tb["cash"].openingCredit = Larger(-opening)
    BY <1>12, RowsOfTrialBalance
  <2>3. opening = Larger(opening) - Larger(-opening)
    BY <1>7, LargerSplits
  <2>4. Sign("cash") * closing = closing
    BY <1>3, <1>7
  <2> QED BY <2>1, <2>2, <2>3, <2>4
<1>13. "cash" \notin Touched(Upto(to)) => closing = 0
  BY <1>3, <1>4, UntouchedIsStill
<1>14. /\ "cash" \in DOMAIN tb =>
            /\ ClosingBalance(r) = ClosingNet(tb, "cash")
            /\ r.opening = tb["cash"].openingDebit - tb["cash"].openingCredit
       /\ "cash" \notin DOMAIN tb => ClosingBalance(r) = 0
  BY <1>6, <1>10, <1>11, <1>12, <1>13
<1> QED BY <1>14 DEF from, to

LEMMA TaxOfIs ==
  ASSUME ReportsAssumption, NEW K \in SUBSET Things
  PROVE  /\ TaxOf(K \cap OnBooks) = TaxPosted(K)
         /\ TaxPosted(K) \in Int
<1> DEFINE S == K \cap OnBooks
           f == [x \in S |-> Tax[x]]
<1>1. IsFiniteSet(S)
  BY SetsAreFinite, FS_Subset
<1>2. DOMAIN f = S /\ \A x \in S : f[x] = Tax[x] /\ Tax[x] \in Int
  BY WorthIsSplit
<1>3. TaxOf(S) = Sum(f) /\ TaxPosted(K) = SumFunctionOnSet(Tax, S)
  BY DEF TaxOf, TaxPosted
<1> HIDE DEF f, S
<1>4. Sum(f) = SumFunctionOnSet(Tax, S)
  BY <1>1, <1>2, SumWritten
<1>5. SumFunctionOnSet(Tax, S) \in Int
  BY <1>1, <1>2, SumType
<1> QED BY <1>3, <1>4, <1>5 DEF S

LEMMA AllIsUptoLast ==
  ASSUME ReportsAssumption, Journal(entries)
  PROVE  Upto(LastDate) = entries
<1>1. LastDate \in Nat /\ \A e \in entries : e.date \in 1 .. LastDate
  BY DEF ReportsAssumption, Journal, EntryRecords
<1> QED BY <1>1 DEF Upto

LEMMA TaxAgrees ==
  ASSUME ReportsAssumption, ReportsInvariant
  PROVE  TaxReportIsOfDocuments
<1>1. TypesHold /\ DocsHold /\ BooksHold
  BY DEF ReportsInvariant
<1>2. PostingDays \subseteq 1 .. LastDate /\ LastDate \in Nat /\ Inception = 0
  BY DEF ReportsAssumption, Inception
<1>3. \A side : v_tax_transaction(side, Inception, LastDate) = DocsOf(side) \cap OnBooks
  <2> SUFFICES ASSUME NEW x \in Documents
               PROVE  (docs[x].date > 0 /\ docs[x].date \in Inception .. LastDate) <=> x \in OnBooks
    BY DEF v_tax_transaction, DocsOf
  <2>1. docs[x] \in DocRecords
    BY <1>1 DEF TypesHold
  <2>2. docs[x].date \in PostingDays \cup {0}
    BY <2>1 DEF DocRecords
  <2>3. docs[x].date # 0 <=> x \in OnBooks
    BY <1>1, KindsApart DEF DocsHold, OnBooks
  <2> DEFINE date == docs[x].date
  <2>4. (date \in 1 .. LastDate \/ date = 0) /\ (date # 0 <=> x \in OnBooks)
    BY <1>2, <2>2, <2>3
  <2> HIDE DEF date
  <2>5. (date > 0 /\ date \in Inception .. LastDate) <=> x \in OnBooks
    BY <1>2, <2>4
  <2> QED BY <2>5 DEF date
<1> DEFINE sales == TaxPosted(DocsOf("AR"))
           bought == TaxPosted(DocsOf("AP"))
           lost == TaxPosted(Unreclaimed)
           toCustomers == TaxPosted(GivenBack("AR"))
           byVendors == TaxPosted(GivenBack("AP"))
           out == Movement(entries, "outputTax")
           in == Movement(entries, "inputTax")
<1>4. /\ TaxOf(DocsOf("AR") \cap OnBooks) = sales /\ TaxOf(DocsOf("AP") \cap OnBooks) = bought
      /\ TaxOf(Unreclaimed \cap OnBooks) = lost
      /\ TaxOf(GivenBack("AR") \cap OnBooks) = toCustomers
      /\ TaxOf(GivenBack("AP") \cap OnBooks) = byVendors
      /\ sales \in Int /\ bought \in Int /\ lost \in Int
      /\ toCustomers \in Int /\ byVendors \in Int
  BY SetsOfThings, TaxOfIs
<1>5. tax_report(Inception, LastDate).netPayable = sales - (bought - lost)
  <2>1. {x \in v_tax_transaction("AP", Inception, LastDate) : ~Recoverable[x]}
          = Unreclaimed \cap OnBooks
    BY <1>3 DEF Unreclaimed, DocsOf
  <2>2. tax_report(Inception, LastDate).netPayable
          = TaxOf(v_tax_transaction("AR", Inception, LastDate))
            - (TaxOf(v_tax_transaction("AP", Inception, LastDate))
               - TaxOf({x \in v_tax_transaction("AP", Inception, LastDate) : ~Recoverable[x]}))
    BY DEF tax_report
  <2> QED BY <1>3, <1>4, <2>1, <2>2
<1>6. TaxGivenBack("AR") = toCustomers /\ TaxGivenBack("AP") = byVendors
  <2>1. \A side : {x \in Credits : Side(x) = side /\ Booked(x) /\ (side = "AR" \/ Recoverable[x])}
                    = GivenBack(side) \cap OnBooks
    BY KindsApart DEF GivenBack, OnBooks
  <2> QED BY <1>4, <2>1 DEF TaxGivenBack
<1>7. TaxHeld = -(out + in) /\ out \in Int /\ in \in Int
  <2>1. Journal(entries) /\ Upto(LastDate) = entries
    BY <1>1, AllIsUptoLast DEF TypesHold
  <2>2. "outputTax" \in Accounts /\ "inputTax" \in Accounts
    BY AccountsAre
  <2>3. out \in Int /\ in \in Int
    BY <2>1, <2>2, MovementType
  <2> QED BY <2>1, <2>3 DEF TaxHeld, Balance
<1>8. out + in = toCustomers - byVendors - sales + bought - lost
  BY <1>1 DEF BooksHold
<1> HIDE DEF sales, bought, lost, toCustomers, byVendors, out, in
<1>9. sales - (bought - lost) = -(out + in) + toCustomers - byVendors
  BY <1>4, <1>7, <1>8
<1> QED BY <1>5, <1>6, <1>7, <1>9 DEF TaxReportIsOfDocuments

----------------------------------------------------------------------------
(* Open documents, and what is settled of them. *)

\* The live rows of a set add up to what AmountOf finds in them.
LEMMA AmountOfIs ==
  ASSUME TypesHold, NEW K, K \subseteq RowRecords
  PROVE  AmountOf(K \cap Live(rows)) = AmountLive(K)
<1> DEFINE S == K \cap Live(rows)
           f == [r \in S |-> r.amount]
<1>1. IsFiniteSet(S)
  BY LiveIsFinite, FS_Subset
<1>2. DOMAIN f = S /\ \A r \in S : f[r] = AmountIn[r]
  BY AmountsAreWhole
<1>3. AmountOf(S) = Sum(f)
  BY DEF AmountOf
<1> HIDE DEF f, S
<1>4. Sum(f) = SumFunctionOnSet(AmountIn, S)
  BY <1>1, <1>2, SumWritten
<1> QED BY <1>3, <1>4 DEF AmountLive, S

\* Sets of rows apart.
LEMMA AmountsJoin ==
  ASSUME TypesHold, NEW K, NEW J, K \subseteq RowRecords, J \subseteq RowRecords, K \cap J = {}
  PROVE  AmountLive(K \cup J) = AmountLive(K) + AmountLive(J)
<1> DEFINE A == K \cap Live(rows)
           B == J \cap Live(rows)
<1>1. IsFiniteSet(A) /\ IsFiniteSet(B) /\ A \cap B = {}
  BY LiveIsFinite, FS_Subset
<1>2. \A r \in A \cup B : AmountIn[r] \in Int
  BY AmountsAreWhole
<1>3. (K \cup J) \cap Live(rows) = A \cup B
  OBVIOUS
<1> HIDE DEF A, B
<1>4. SumFunctionOnSet(AmountIn, A \cup B)
        = SumFunctionOnSet(AmountIn, A) + SumFunctionOnSet(AmountIn, B)
  BY <1>1, <1>2, SumParts
<1> QED BY <1>3, <1>4 DEF AmountLive, A, B

\* What rows settle of a document.
RowsInto(x) == {r \in RowRecords : r.target = x}

LEMMA SettledOfDocument ==
  ASSUME ReportsAssumption, ReportsInvariant, NEW x \in Documents
  PROVE  /\ AmountLive(RowsInto(x)) = docs[x].allocated + docs[x].credited
         /\ AmountLive(RowsInto(x)) \in Nat /\ docs[x].open \in Nat
         /\ docs[x].open + AmountLive(RowsInto(x)) = IF Booked(x) THEN Worth[x] ELSE 0
<1>1. TypesHold /\ DocsHold /\ RowsHold
  BY DEF ReportsInvariant
<1>2. RowsPaying(x) \subseteq RowRecords /\ RowsCrediting(x) \subseteq RowRecords
      /\ RowsPaying(x) \cap RowsCrediting(x) = {}
      /\ RowsInto(x) = RowsPaying(x) \cup RowsCrediting(x)
  BY DEF RowsPaying, RowsCrediting, RowsInto
<1>3. AmountLive(RowsInto(x)) = AmountLive(RowsPaying(x)) + AmountLive(RowsCrediting(x))
  BY <1>1, <1>2, AmountsJoin
<1>4. docs[x].allocated = AmountLive(RowsPaying(x))
      /\ docs[x].credited = AmountLive(RowsCrediting(x))
      /\ docs[x].open = IF Booked(x) THEN Worth[x] - docs[x].allocated - docs[x].credited ELSE 0
  BY <1>1 DEF DocsHold
<1>5. AmountLive(RowsInto(x)) \in Nat /\ AmountLive(RowsPaying(x)) \in Nat
      /\ AmountLive(RowsCrediting(x)) \in Nat
  BY <1>1, LiveAmountType DEF RowsInto, RowsPaying, RowsCrediting
<1>6. Worth[x] \in Int
  BY KindsApart, WorthIsSplit
<1>7. docs[x].open \in 0 .. Worth[x]
  BY TypesFollow DEF ReportsTypeOK
<1>8. ~Booked(x) => AmountLive(RowsInto(x)) = 0
  <2> SUFFICES ASSUME ~Booked(x) PROVE AmountLive(RowsInto(x)) = 0
    OBVIOUS
  <2>1. RowsInto(x) \cap Live(rows) = {}
    BY <1>1 DEF RowsInto, Live, RowsHold
  <2> QED BY <2>1, SumEmpty DEF AmountLive
<1> DEFINE settled == AmountLive(RowsInto(x))
           paid == AmountLive(RowsPaying(x))
           given == AmountLive(RowsCrediting(x))
           open == docs[x].open
<1>9. settled = paid + given /\ settled \in Nat /\ paid \in Nat /\ given \in Nat
      /\ open = (IF Booked(x) THEN Worth[x] - paid - given ELSE 0)
      /\ open \in 0 .. Worth[x] /\ (~Booked(x) => settled = 0)
  BY <1>3, <1>4, <1>5, <1>7, <1>8
<1> HIDE DEF settled, paid, given, open
<1>10. open + settled = IF Booked(x) THEN Worth[x] ELSE 0
  BY <1>6, <1>9
<1>11. open \in Nat
  BY <1>6, <1>9
<1> QED BY <1>3, <1>4, <1>5, <1>10, <1>11 DEF settled, open

\* Asked for a day after everything, the ageing finds the open documents and
\* their remainders.
LEMMA AgeingFinds ==
  ASSUME ReportsAssumption, ReportsInvariant, NEW d \in LastDate .. Horizon, NEW side
  PROVE  /\ fn_ageing(side, d) = {x \in Documents : Side(x) = side /\ docs[x].open > 0}
         /\ \A x \in fn_ageing(side, d) : OpenAt(x, d) = docs[x].open
<1>1. TypesHold /\ DocsHold
  BY DEF ReportsInvariant
<1>2. LastDate \in Nat /\ d \in Int /\ LastDate <= d /\ PostingDays \subseteq 1 .. LastDate
  BY DEF ReportsAssumption
<1>3. ASSUME NEW x \in Documents
      PROVE  /\ docs[x].date \in 1 .. d <=> Booked(x)
             /\ Booked(x) => OpenAt(x, d) = docs[x].open
             /\ ~Booked(x) => docs[x].open = 0
             /\ docs[x].open \in Nat
  <2>1. docs[x] \in DocRecords
    BY <1>1 DEF TypesHold
  <2>2. docs[x].date \in PostingDays \cup {0} /\ (docs[x].date # 0 <=> Booked(x))
    BY <1>1, <2>1 DEF DocRecords, DocsHold
  <2> DEFINE date == docs[x].date
             settled == AmountLive(RowsInto(x))
             open == docs[x].open
  <2>3. (date \in 1 .. LastDate \/ date = 0) /\ (date # 0 <=> Booked(x))
    BY <1>2, <2>2
  <2>4. SettledAt(x, d) = settled
    <3>1. \A r \in rows : r.date \in 1 .. LastDate /\ r \in RowRecords
      BY <1>1 DEF TypesHold, RowRecords
    <3>2. \A r \in Live(rows) : r.date <= d /\ r \in RowRecords
      BY <1>2, <3>1 DEF Live
    <3>3. {r \in Live(rows) : r.target = x /\ r.date <= d} = RowsInto(x) \cap Live(rows)
      BY <3>2 DEF RowsInto
    <3>4. RowsInto(x) \subseteq RowRecords
      BY DEF RowsInto
    <3> QED BY <1>1, <3>3, <3>4, AmountOfIs DEF SettledAt
  <2>5. /\ settled \in Nat /\ open \in Nat
        /\ open + settled = IF Booked(x) THEN Worth[x] ELSE 0
    BY SettledOfDocument
  <2>6. Worth[x] \in Int
    BY KindsApart, WorthIsSplit
  <2>7. OpenAt(x, d) = Worth[x] - settled
    BY <2>4 DEF OpenAt
  <2> HIDE DEF date, settled, open
  <2>8. date \in 1 .. d <=> Booked(x)
    BY <1>2, <2>3
  <2>9. (Booked(x) => Worth[x] - settled = open) /\ (~Booked(x) => open = 0)
    BY <2>5, <2>6
  <2> QED BY <2>5, <2>7, <2>8, <2>9 DEF date, open
<1>4. ASSUME NEW x \in Documents
      PROVE  (docs[x].date \in 1 .. d /\ OpenAt(x, d) > 0) <=> docs[x].open > 0
  BY <1>3
<1> QED BY <1>3, <1>4 DEF fn_ageing

\* The remainders of documents are whole, and OpenOf sums them.
Remainder == [x \in Documents |-> docs[x].open]
LEMMA OpenOfIs ==
  ASSUME ReportsAssumption, ReportsInvariant, NEW K \in SUBSET Documents
  PROVE  /\ IsFiniteSet(K) /\ OpenOf(K) = SumFunctionOnSet(Remainder, K)
         /\ \A x \in K : Remainder[x] = docs[x].open /\ Remainder[x] \in Int
<1> DEFINE f == [x \in K |-> docs[x].open]
<1>1. IsFiniteSet(K)
  BY SetsAreFinite, FS_Subset
<1>2. \A x \in K : Remainder[x] = docs[x].open /\ Remainder[x] \in Int
  BY SettledOfDocument DEF Remainder
<1>3. DOMAIN f = K /\ \A x \in K : f[x] = Remainder[x]
  BY <1>2
<1>4. OpenOf(K) = Sum(f)
  BY DEF OpenOf
<1> HIDE DEF f
<1>5. Sum(f) = SumFunctionOnSet(Remainder, K)
  BY <1>1, <1>3, SumWritten
<1> QED BY <1>1, <1>2, <1>4, <1>5

\* What a bucket shows of some documents, and those some buckets take.
BucketSum(K, d, b) == Sum([x \in {y \in K : BucketOf(y, d) = b} |-> OpenAt(x, d)])
InBuckets(K, d, B) == {x \in K : BucketOf(x, d) \in B}

\* Some buckets hold, together, the remainders of the documents they take.
LEMMA BucketsHold ==
  ASSUME ReportsAssumption, ReportsInvariant, NEW d, NEW K \in SUBSET Documents,
         \A x \in K : OpenAt(x, d) = docs[x].open,
         NEW B \in SUBSET Buckets,
         NEW parts, \A b \in B : parts[b] = BucketSum(K, d, b)
  PROVE  SumFunctionOnSet(parts, B) = OpenOf(InBuckets(K, d, B))
<1> DEFINE X == {x \in K : BucketOf(x, d) \in B}
           key == [x \in X |-> BucketOf(x, d)]
<1>1. IsFiniteSet(Buckets) /\ IsFiniteSet(B)
  <2>1. IsFiniteSet(Buckets)
    BY FiveAreFinite DEF Buckets
  <2> QED BY <2>1, FS_Subset
<1>2. X \in SUBSET Documents /\ X \in SUBSET K
  OBVIOUS
<1>3. /\ IsFiniteSet(X) /\ OpenOf(X) = SumFunctionOnSet(Remainder, X)
      /\ \A x \in X : Remainder[x] = docs[x].open /\ Remainder[x] \in Int
  <2> HIDE DEF X
  <2> QED BY <1>2, OpenOfIs
<1>4. \A x \in X : key[x] = BucketOf(x, d) /\ key[x] \in B
  OBVIOUS
<1>5. ASSUME NEW b \in B
      PROVE  parts[b] = SumFunctionOnSet(Remainder, Fibre(X, key, b))
  <2> DEFINE F == {y \in K : BucketOf(y, d) = b}
             f == [x \in F |-> OpenAt(x, d)]
  <2>1. F = {x \in X : key[x] = b} /\ F \in SUBSET X
    OBVIOUS
  <2>2. IsFiniteSet(F)
    BY <1>3, <2>1, FS_Subset
  <2>3. DOMAIN f = F /\ \A x \in F : f[x] = Remainder[x]
    BY <1>3, <2>1
  <2>4. parts[b] = Sum(f)
    BY DEF BucketSum
  <2> HIDE DEF F, f, X, key
  <2>5. Sum(f) = SumFunctionOnSet(Remainder, F)
    BY <2>2, <2>3, SumWritten
  <2>6. F = Fibre(X, key, b)
    BY <2>1 DEF Fibre
  <2> QED BY <2>4, <2>5, <2>6
<1> HIDE DEF X, key
<1>6. SumFunctionOnSet(Remainder, X) = SumFunctionOnSet(parts, B)
  BY <1>1, <1>3, <1>4, <1>5, SumFibres
<1> QED BY <1>3, <1>6 DEF X, InBuckets

\* Documents are counted once under the currency they are in.
LEMMA CurrenciesCount ==
  ASSUME NEW K, IsFiniteSet(K)
  PROVE  Sum([c \in {CurrencyOf[x] : x \in K} |-> Cardinality({x \in K : CurrencyOf[x] = c})])
           = Cardinality(K)
<1> DEFINE Y == {CurrencyOf[x] : x \in K}
           key == [x \in K |-> CurrencyOf[x]]
           one == [x \in K |-> 1]
           parts == [c \in Y |-> Cardinality({x \in K : CurrencyOf[x] = c})]
<1>1. IsFiniteSet(Y)
  <2>1. key \in Surjection(K, Y)
    BY DEF Surjection
  <2> HIDE DEF key, Y
  <2> QED BY <2>1, FS_Surjection
<1>2. (\A x \in K : key[x] \in Y /\ key[x] = CurrencyOf[x]) /\ (\A x \in K : one[x] = 1)
  OBVIOUS
<1>3. DOMAIN parts = Y /\ \A c \in Y : parts[c] = Cardinality({x \in K : key[x] = c})
  OBVIOUS
<1> HIDE DEF Y, key, one, parts
<1>4. ASSUME NEW c \in Y
      PROVE  parts[c] = SumFunctionOnSet(one, Fibre(K, key, c))
  <2> DEFINE F == {x \in K : key[x] = c}
  <2>1. IsFiniteSet(F) /\ (\A x \in F : one[x] = 1) /\ parts[c] = Cardinality(F)
    BY <1>2, <1>3, FS_Subset
  <2> HIDE DEF F
  <2>2. Cardinality(F) = SumFunctionOnSet(one, F)
    BY <2>1, SumOfOnes
  <2>3. F = Fibre(K, key, c)
    BY DEF F, Fibre
  <2> QED BY <2>1, <2>2, <2>3
<1>5. \A x \in K : one[x] \in Int
  BY <1>2
<1>6. SumFunctionOnSet(one, K) = SumFunctionOnSet(parts, Y)
  BY <1>1, <1>2, <1>4, <1>5, SumFibres
<1>7. Cardinality(K) = SumFunctionOnSet(one, K)
  BY <1>2, SumOfOnes
<1>8. Sum(parts) = SumFunctionOnSet(parts, Y)
  BY <1>3 DEF Sum
<1> QED BY <1>6, <1>7, <1>8 DEF parts, Y

LEMMA BucketsAre ==
  ASSUME NEW x, NEW d \in Int, Due(x) \in Int, ReportsAssumption
  PROVE  BucketOf(x, d) \in Buckets /\ (BucketOf(x, d) # "CURRENT" <=> d > Due(x))
<1> DEFINE late == d - Due(x)
<1>1. late \in Int /\ Month \in Int /\ (late <= 0 <=> ~(d > Due(x)))
  BY DEF ReportsAssumption
<1>2. BucketOf(x, d) = CASE late <= 0 -> "CURRENT"
                         [] late \in 1 .. Month -> "1-30"
                         [] late \in Month + 1 .. 2 * Month -> "31-60"
                         [] late \in 2 * Month + 1 .. 3 * Month -> "61-90"
                         [] OTHER -> "90+"
  BY DEF BucketOf
<1> HIDE DEF late
<1>3. CASE late <= 0
  <2>1. late \notin 1 .. Month /\ late \notin Month + 1 .. 2 * Month
        /\ late \notin 2 * Month + 1 .. 3 * Month
    BY <1>1, <1>3 DEF ReportsAssumption
  <2>2. BucketOf(x, d) = "CURRENT"
    BY <1>2, <1>3, <2>1
  <2> QED BY <1>1, <1>3, <2>2 DEF Buckets
<1>4. CASE ~(late <= 0)
  <2>1. BucketOf(x, d) \in {"1-30", "31-60", "61-90", "90+"}
    <3> DEFINE first == late \in 1 .. Month
               second == late \in Month + 1 .. 2 * Month
               third == late \in 2 * Month + 1 .. 3 * Month
    <3>1. first => ~second /\ ~third
      BY <1>1 DEF ReportsAssumption
    <3>2. second => ~third
      BY <1>1 DEF ReportsAssumption
    <3>3. BucketOf(x, d) = CASE late <= 0 -> "CURRENT" [] first -> "1-30" [] second -> "31-60"
                             [] third -> "61-90" [] OTHER -> "90+"
      BY <1>2
    <3> HIDE DEF first, second, third
    <3> QED BY <1>4, <3>1, <3>2, <3>3
  <2> QED BY <1>1, <1>4, <2>1 DEF Buckets
<1> QED BY <1>3, <1>4

LEMMA AgeingAgrees ==
  ASSUME ReportsAssumption, ReportsInvariant
  PROVE  AgeingMatchesOpenItems
<1> SUFFICES ASSUME NEW side \in Sides, NEW d \in LastDate .. Horizon
             PROVE  LET mine == {x \in Documents : Side(x) = side /\ docs[x].open > 0}
                    IN  /\ fn_ageing(side, d) = mine
                        /\ \A c \in {CurrencyOf[x] : x \in Documents} :
                             LET report == ageing(side, d, c)
                                 shown == {x \in mine : CurrencyOf[x] = c}
                             IN  /\ Sum(report.buckets) = OpenOf(shown)
                                 /\ Overdue(report) = OpenOf({x \in shown : d > Due(x)})
                                 /\ Sum(report.others) = Cardinality(mine \ shown)
  BY DEF AgeingMatchesOpenItems
<1> DEFINE mine == {x \in Documents : Side(x) = side /\ docs[x].open > 0}
<1>1. fn_ageing(side, d) = mine /\ \A x \in mine : OpenAt(x, d) = docs[x].open
  BY AgeingFinds
<1>2. mine \in SUBSET Documents
  OBVIOUS
<1>3. d \in Int /\ \A x \in mine : Due(x) \in Int
  <2>1. LastDate \in Nat /\ Horizon \in Nat /\ PostingDays \subseteq Int /\ d \in Int
    BY DEF ReportsAssumption
  <2>2. \A x \in Documents : docs[x] \in DocRecords /\ Terms[x] \in Nat
    BY KindsApart DEF ReportsInvariant, TypesHold, ReportsAssumption
  <2>3. \A x \in Documents : docs[x].date \in PostingDays \cup {0}
    BY <2>2 DEF DocRecords
  <2>4. \A x \in Documents : docs[x].date \in Int /\ Terms[x] \in Int
    <3>1. \A n \in PostingDays \cup {0} : n \in Int
      BY <2>1
    <3>2. \A x \in Documents : docs[x].date \in Int
      BY <2>3, <3>1
    <3> QED BY <2>2, <3>2
  <2> QED BY <2>1, <2>4, <1>2 DEF Due
<1> HIDE DEF mine
<1>4. ASSUME NEW c
      PROVE  LET report == ageing(side, d, c)
                 shown == {x \in mine : CurrencyOf[x] = c}
             IN  /\ Sum(report.buckets) = OpenOf(shown)
                 /\ Overdue(report) = OpenOf({x \in shown : d > Due(x)})
                 /\ Sum(report.others) = Cardinality(mine \ shown)
  <2> DEFINE shown == {x \in mine : CurrencyOf[x] = c}
             rest == mine \ shown
             report == ageing(side, d, c)
             late == [b \in Buckets \ {"CURRENT"} |-> report.buckets[b]]
  <2>1. /\ report.buckets = [b \in Buckets |->
             Sum([x \in {y \in shown : BucketOf(y, d) = b} |-> OpenAt(x, d)])]
        /\ report.others = [k \in {CurrencyOf[x] : x \in rest} |->
             Cardinality({x \in rest : CurrencyOf[x] = k})]
        /\ Overdue(report) = Sum(late)
    BY <1>1 DEF ageing, Overdue
  <2>2. shown \in SUBSET Documents /\ shown \in SUBSET mine /\ rest \in SUBSET Documents
    BY <1>2
  <2>3. \A x \in shown : /\ OpenAt(x, d) = docs[x].open /\ BucketOf(x, d) \in Buckets
                         /\ BucketOf(x, d) \in Buckets \ {"CURRENT"} <=> d > Due(x)
    BY <1>1, <1>3, <2>2, BucketsAre
  <2> DEFINE buckets == report.buckets
  <2>4. /\ DOMAIN buckets = Buckets /\ DOMAIN late = Buckets \ {"CURRENT"}
        /\ \A b \in Buckets : buckets[b] = BucketSum(shown, d, b)
        /\ \A b \in Buckets \ {"CURRENT"} : late[b] = BucketSum(shown, d, b)
    BY <2>1 DEF BucketSum
  <2>5. /\ InBuckets(shown, d, Buckets) = shown
        /\ InBuckets(shown, d, Buckets \ {"CURRENT"}) = {x \in shown : d > Due(x)}
    BY <2>3 DEF InBuckets
  <2>6. IsFiniteSet(rest)
    BY <2>2, SetsAreFinite, FS_Subset
  <2>7. Sum(report.others) = Cardinality(rest)
    <3> HIDE DEF rest, report
    <3> QED BY <2>1, <2>6, CurrenciesCount
  <2> HIDE DEF shown, buckets, late
  <2>8. SumFunctionOnSet(buckets, Buckets) = OpenOf(InBuckets(shown, d, Buckets))
    BY <2>2, <2>3, <2>4, BucketsHold
  <2>9. SumFunctionOnSet(late, Buckets \ {"CURRENT"})
          = OpenOf(InBuckets(shown, d, Buckets \ {"CURRENT"}))
    <3> DEFINE B == Buckets \ {"CURRENT"}
    <3>1. B \in SUBSET Buckets
      OBVIOUS
    <3>2. \A b \in B : late[b] = BucketSum(shown, d, b)
      BY <2>4
    <3> HIDE DEF B
    <3>3. \A x \in shown : OpenAt(x, d) = docs[x].open
      BY <2>3
    <3>4. SumFunctionOnSet(late, B) = OpenOf(InBuckets(shown, d, B))
      BY ONLY ReportsAssumption, ReportsInvariant, <2>2, <3>1, <3>2, <3>3, BucketsHold, SMTT(60)
    <3> QED BY <3>4 DEF B
  <2>10. Sum(buckets) = OpenOf(shown)
    BY <2>4, <2>5, <2>8 DEF Sum
  <2>11. Sum(late) = OpenOf({x \in shown : d > Due(x)})
    BY <2>4, <2>5, <2>9 DEF Sum
  <2> QED BY <2>1, <2>7, <2>10, <2>11 DEF shown, buckets
<1> QED BY <1>1, <1>4, ZenonT(60) DEF mine

----------------------------------------------------------------------------
(* The reconciliation. *)

\* What is open on a side is what is posted there less what live rows settle.
Into(side) == {r \in RowRecords : Side(r.target) = side}

LEMMA OpenIsWorthLessSettled ==
  ASSUME ReportsAssumption, ReportsInvariant, NEW side
  PROVE  /\ OpenOf(DocsOf(side)) = WorthPosted(DocsOf(side)) - AmountLive(Into(side))
         /\ OpenOf(DocsOf(side)) \in Int /\ WorthPosted(DocsOf(side)) \in Int
         /\ AmountLive(Into(side)) \in Int
<1> DEFINE D == DocsOf(side)
           X == Into(side) \cap Live(rows)
           key == [r \in X |-> r.target]
           settled == [x \in D |-> AmountLive(RowsInto(x))]
           worth == [x \in D |-> IF Booked(x) THEN Worth[x] ELSE 0]
<1>1. TypesHold
  BY DEF ReportsInvariant
<1>2. D \in SUBSET Documents /\ D \in SUBSET Things
  BY KindsApart DEF DocsOf
<1>3. IsFiniteSet(X) /\ \A r \in X : key[r] \in D /\ key[r] = r.target
                                     /\ AmountIn[r] \in Int
  <2>1. IsFiniteSet(X)
    BY <1>1, LiveIsFinite, FS_Subset
  <2>2. \A r \in X : r \in RowRecords /\ r.target \in Documents /\ Side(r.target) = side
    BY DEF Into, RowRecords
  <2> QED BY <2>1, <2>2, AmountsAreWhole DEF DocsOf
<1>4. ASSUME NEW x \in D
      PROVE  settled[x] = SumFunctionOnSet(AmountIn, Fibre(X, key, x))
  <2>1. Fibre(X, key, x) = RowsInto(x) \cap Live(rows)
    BY <1>3 DEF Fibre, RowsInto, Into, DocsOf
  <2> QED BY <2>1 DEF AmountLive
<1>5. \A x \in D : /\ Remainder[x] \in Int /\ settled[x] \in Int
                   /\ worth[x] = Remainder[x] + settled[x]
  <2> SUFFICES ASSUME NEW x \in D
               PROVE  /\ Remainder[x] \in Int /\ settled[x] \in Int
                      /\ worth[x] = Remainder[x] + settled[x]
    OBVIOUS
  <2>1. x \in Documents
    BY <1>2
  <2>2. Remainder[x] = docs[x].open
    BY <2>1 DEF Remainder
  <2>3. /\ AmountLive(RowsInto(x)) \in Nat /\ docs[x].open \in Nat
        /\ docs[x].open + AmountLive(RowsInto(x)) = IF Booked(x) THEN Worth[x] ELSE 0
    BY <2>1, SettledOfDocument
  <2> QED BY <2>2, <2>3
<1>6. IsFiniteSet(D) /\ OpenOf(D) = SumFunctionOnSet(Remainder, D)
  <2> HIDE DEF D
  <2> QED BY <1>2, OpenOfIs
<1>7. /\ \A x \in D \cap OnBooks : Worth[x] \in Int /\ worth[x] = Worth[x]
      /\ \A x \in D \ (D \cap OnBooks) : worth[x] = 0
  BY <1>2, WorthIsSplit DEF OnBooks
<1>8. WorthPosted(D) = SumFunctionOnSet(Worth, D \cap OnBooks)
      /\ AmountLive(Into(side)) = SumFunctionOnSet(AmountIn, X)
      /\ D \cap OnBooks \in SUBSET D
  BY DEF WorthPosted, AmountLive
<1> HIDE DEF D, X, key, settled, worth
<1>9. SumFunctionOnSet(AmountIn, X) = SumFunctionOnSet(settled, D)
  <2>1. \A r \in X : key[r] \in D
    BY <1>3
  <2>2. \A r \in X : AmountIn[r] \in Int
    BY <1>3
  <2>3. \A x \in D : settled[x] = SumFunctionOnSet(AmountIn, Fibre(X, key, x))
    BY <1>4
  <2>4. IsFiniteSet(X) /\ IsFiniteSet(D)
    BY <1>3, <1>6
  <2> QED BY <2>1, <2>2, <2>3, <2>4, SumFibres
<1>10. SumFunctionOnSet(worth, D) = SumFunctionOnSet(Remainder, D) + SumFunctionOnSet(settled, D)
  BY <1>5, <1>6, SumPlus
<1>11. SumFunctionOnSet(worth, D) = SumFunctionOnSet(Worth, D \cap OnBooks)
  BY <1>6, <1>7, <1>8, SumSupport
<1>12. SumFunctionOnSet(Remainder, D) \in Int /\ SumFunctionOnSet(settled, D) \in Int
  BY <1>5, <1>6, SumType
<1>13. /\ OpenOf(D) = WorthPosted(D) - AmountLive(Into(side))
       /\ OpenOf(D) \in Int /\ WorthPosted(D) \in Int /\ AmountLive(Into(side)) \in Int
  BY <1>6, <1>8, <1>9, <1>10, <1>11, <1>12
<1> QED BY <1>13 DEF D

\* What is left of the credits of a side is what is posted there less what
\* they settle.
CreditRows(side) == {r \in RowRecords : r.source \notin Payments /\ Side(r.source) = side}

LEMMA UnappliedIsWorthLessSpent ==
  ASSUME ReportsAssumption, ReportsInvariant, NEW side
  PROVE  /\ UnappliedCredit(side) = WorthPosted(CreditsOf(side)) - AmountLive(CreditRows(side))
         /\ WorthPosted(CreditsOf(side)) \in Int /\ AmountLive(CreditRows(side)) \in Int
<1> DEFINE C == CreditsOf(side) \cap OnBooks
           X == CreditRows(side) \cap Live(rows)
           key == [r \in X |-> r.source]
           spent == [x \in C |-> Spent(x)]
           left == [x \in C |-> Worth[x] - Spent(x)]
<1>1. TypesHold /\ RowsHold
  BY DEF ReportsInvariant
<1>2. C \in SUBSET Things /\ IsFiniteSet(C)
  BY SetsAreFinite, SetsOfThings, FS_Subset
<1>3. IsFiniteSet(X) /\ \A r \in X : key[r] \in C /\ key[r] = r.source
                                     /\ AmountIn[r] \in Int
  <2>1. IsFiniteSet(X)
    BY <1>1, LiveIsFinite, FS_Subset
  <2>2. \A r \in X : r \in RowRecords /\ r.source \in Credits /\ Side(r.source) = side
    BY DEF CreditRows, RowRecords
  <2>3. \A r \in X : Booked(r.source)
    BY <1>1 DEF Live, RowsHold
  <2>4. \A r \in X : r.source \in C
    BY <2>2, <2>3, KindsApart DEF CreditsOf, OnBooks
  <2> QED BY <2>1, <2>2, <2>4, AmountsAreWhole
<1>4. ASSUME NEW x \in C
      PROVE  /\ spent[x] = SumFunctionOnSet(AmountIn, Fibre(X, key, x))
             /\ spent[x] \in Int
  <2>1. x \in Credits /\ x \notin Payments /\ Side(x) = side
    BY KindsApart DEF CreditsOf
  <2>2. Fibre(X, key, x) = RowsFrom(x) \cap Live(rows)
    BY <1>3, <2>1 DEF Fibre, RowsFrom, CreditRows
  <2>3. {r \in Live(rows) : r.source = x} = RowsFrom(x) \cap Live(rows)
    BY <1>1, LiveIsFinite DEF RowsFrom
  <2>4. RowsFrom(x) \subseteq RowRecords
    BY DEF RowsFrom
  <2>5. spent[x] = AmountLive(RowsFrom(x))
    BY <1>1, <2>3, <2>4, AmountOfIs DEF Spent
  <2>6. AmountLive(RowsFrom(x)) \in Nat
    BY <1>1, <2>4, LiveAmountType
  <2>7. spent[x] = SumFunctionOnSet(AmountIn, RowsFrom(x) \cap Live(rows)) /\ spent[x] \in Int
    <3> HIDE DEF spent
    <3> QED BY <2>5, <2>6 DEF AmountLive
  <2> HIDE DEF spent, X, key
  <2> QED BY <2>2, <2>7
<1>5. \A x \in C : /\ left[x] \in Int /\ spent[x] \in Int
                   /\ Worth[x] = left[x] + spent[x]
  <2> SUFFICES ASSUME NEW x \in C
               PROVE  left[x] \in Int /\ spent[x] \in Int /\ Worth[x] = left[x] + spent[x]
    OBVIOUS
  <2>1. Worth[x] \in Int /\ left[x] = Worth[x] - spent[x]
    BY <1>2, WorthIsSplit
  <2> DEFINE w == Worth[x]
             l == left[x]
             s == spent[x]
  <2>2. w \in Int /\ l = w - s /\ s \in Int
    BY <1>4, <2>1
  <2> HIDE DEF w, l, s
  <2>3. l \in Int /\ s \in Int /\ w = l + s
    BY <2>2
  <2> QED BY <2>3 DEF w, l, s
<1>6. UnappliedCredit(side) = SumFunctionOnSet(left, C)
  <2>1. {y \in Credits : Side(y) = side /\ Booked(y)} = C
    BY KindsApart DEF CreditsOf, OnBooks
  <2>2. UnappliedCredit(side) = Sum(left)
    BY <2>1 DEF UnappliedCredit
  <2>3. DOMAIN left = C
    OBVIOUS
  <2> QED BY <2>2, <2>3 DEF Sum
<1>7. WorthPosted(CreditsOf(side)) = SumFunctionOnSet(Worth, C)
      /\ AmountLive(CreditRows(side)) = SumFunctionOnSet(AmountIn, X)
  BY DEF WorthPosted, AmountLive
<1> HIDE DEF C, X, key, spent, left
<1>8. SumFunctionOnSet(AmountIn, X) = SumFunctionOnSet(spent, C)
  BY <1>2, <1>3, <1>4, SumFibres
<1>9. SumFunctionOnSet(Worth, C) = SumFunctionOnSet(left, C) + SumFunctionOnSet(spent, C)
  BY <1>2, <1>5, SumPlus
<1>10. SumFunctionOnSet(left, C) \in Int /\ SumFunctionOnSet(spent, C) \in Int
  BY <1>2, <1>5, SumType
<1> QED BY <1>6, <1>7, <1>8, <1>9, <1>10

\* What settles a side is paid on it or credited on it.
LEMMA IntoIsPaidAndCredited ==
  ASSUME ReportsAssumption, ReportsInvariant, NEW side
  PROVE  /\ AmountLive(Into(side)) = AmountLive(PaidRows(side)) + AmountLive(CreditRows(side))
         /\ AmountLive(PaidRows(side)) \in Int
<1>1. TypesHold /\ RowsHold
  BY DEF ReportsInvariant
<1>2. /\ PaidRows(side) \subseteq RowRecords /\ CreditRows(side) \subseteq RowRecords
      /\ PaidRows(side) \cap CreditRows(side) = {}
  BY DEF PaidRows, CreditRows
<1>3. AmountLive(PaidRows(side) \cup CreditRows(side))
        = AmountLive(PaidRows(side)) + AmountLive(CreditRows(side))
  BY <1>1, <1>2, AmountsJoin
<1>4. Into(side) \cap Live(rows) = (PaidRows(side) \cup CreditRows(side)) \cap Live(rows)
  BY <1>1 DEF Into, PaidRows, CreditRows, Live, RowsHold, TypesHold
<1>5. AmountLive(Into(side)) = AmountLive(PaidRows(side) \cup CreditRows(side))
  BY <1>4 DEF AmountLive
<1>6. AmountLive(PaidRows(side)) \in Nat
  BY <1>1, <1>2, LiveAmountType
<1> QED BY <1>3, <1>5, <1>6

\* A control account nothing has touched has no documents.
LEMMA PostedTouch ==
  ASSUME ReportsAssumption, ReportsInvariant, NEW x \in Documents \cup Credits, Booked(x),
         NEW a \in Accounts, LinesOf(x)[a] # 0
  PROVE  a \in Touched(entries)
<1>1. PICK e \in Original(x) : TRUE
  BY DEF Booked
<1>2. e \in entries /\ e.of = x /\ ~e.reverses
  BY <1>1 DEF Original
<1>3. e.lines = LinesOf(x)
  BY <1>2 DEF ReportsInvariant, EntriesHold
<1> QED BY <1>2, <1>3 DEF Touched

LEMMA UnexaminedIsEmpty ==
  ASSUME ReportsAssumption, ReportsInvariant, NEW control \in DOMAIN ControlOf, ~Examined(control)
  PROVE  Subledger(control) = 0
<1>1. TypesHold /\ DocsHold /\ BooksHold /\ Journal(entries)
  BY DEF ReportsInvariant, TypesHold
<1>2. /\ "receivable" \in Accounts /\ "payable" \in Accounts /\ "inventory" \in Accounts
      /\ control \in {"AR", "AP", "INVENTORY"}
      /\ ControlOf["AR"] = "receivable" /\ ControlOf["AP"] = "payable"
      /\ ControlOf["INVENTORY"] = "inventory"
  BY AccountsAre DEF ControlOf
<1>3. ASSUME NEW side \in Sides, \A x \in DocsOf(side) : ~Booked(x)
      PROVE  OpenOf(DocsOf(side)) = 0
  <2> DEFINE D == DocsOf(side)
  <2>1. D \in SUBSET Documents
    BY DEF DocsOf
  <2>2. \A x \in D : docs[x].open = 0
    BY <1>1, <1>3, <2>1 DEF DocsHold
  <2> HIDE DEF D
  <2>3. /\ IsFiniteSet(D) /\ OpenOf(D) = SumFunctionOnSet(Remainder, D)
        /\ \A x \in D : Remainder[x] = docs[x].open
    BY <2>1, OpenOfIs
  <2>4. \A x \in D : Remainder[x] = 0
    BY <2>2, <2>3
  <2>5. SumFunctionOnSet(Remainder, D) = 0
    BY <2>3, <2>4, SumOfZeros
  <2> QED BY <2>3, <2>5 DEF D
<1>4. ASSUME NEW x \in Documents
      PROVE  /\ LinesOf(x) = DocumentLines(x)
             /\ Side(x) = "AR" => DocumentLines(x)["receivable"] # 0
             /\ Side(x) = "AP" => DocumentLines(x)["payable"] # 0
             /\ DocumentLines(x)["inventory"] = PaperStock(x)
  <2>1. Worth[x] \in Int /\ Worth[x] > 0 /\ Net(x) \in Int /\ Net(x) > 0
    BY KindsApart, WorthIsSplit
  <2>2. /\ DocumentLines(x)["receivable"] = IF Side(x) = "AR" THEN Worth[x] ELSE 0
        /\ DocumentLines(x)["payable"] = IF Side(x) = "AR" THEN 0 ELSE -Worth[x]
        /\ DocumentLines(x)["inventory"] = PaperStock(x)
    BY DocumentLinesRead DEF Reads
  <2>3. -Worth[x] # 0
    BY <2>1
  <2> QED BY <2>1, <2>2, <2>3 DEF LinesOf
<1>5. ASSUME NEW x \in Credits
      PROVE  /\ LinesOf(x) = CreditLines(x)
             /\ CreditLines(x)["inventory"] = PaperStock(x)
  <2>1. CreditLines(x)["inventory"] = PaperStock(x)
    BY CreditLinesRead DEF Reads
  <2> QED BY <2>1, KindsApart DEF LinesOf
<1>6. CASE control = "AR"
  <2>1. \A x \in DocsOf("AR") : ~Booked(x)
    BY <1>2, <1>4, <1>6, PostedTouch DEF Examined, DocsOf
  <2>2. OpenOf(DocsOf("AR")) = 0
    BY <1>3, <2>1 DEF Sides
  <2> QED BY <1>6, <2>2 DEF Subledger, DocsOf
<1>7. CASE control = "AP"
  <2>1. \A x \in DocsOf("AP") : ~Booked(x)
    BY <1>2, <1>4, <1>7, PostedTouch DEF Examined, DocsOf
  <2>2. OpenOf(DocsOf("AP")) = 0
    BY <1>3, <2>1 DEF Sides
  <2>3. Subledger(control) = -OpenOf(DocsOf("AP"))
    BY <1>7 DEF Subledger, DocsOf
  <2> QED BY <2>2, <2>3
<1>8. CASE control = "INVENTORY"
  <2>1. \A x \in OnPaper \cap OnBooks : PaperWorth[x] = 0
    <3> SUFFICES ASSUME NEW x \in OnPaper \cap OnBooks PROVE PaperWorth[x] = 0
      OBVIOUS
    <3>1. x \in Documents \cup Credits /\ Booked(x)
      BY DEF OnPaper, OnBooks
    <3>2. "inventory" \notin Touched(entries)
      BY <1>2, <1>8 DEF Examined
    <3>3. LinesOf(x)["inventory"] = 0
      BY <1>2, <3>1, <3>2, PostedTouch
    <3>4. LinesOf(x)["inventory"] = PaperStock(x)
      BY <1>4, <1>5, <3>1
    <3> QED BY <3>3, <3>4, PaperIsWhole
  <2>2. IsFiniteSet(OnPaper \cap OnBooks)
    BY SetsAreFinite, FS_Subset
  <2>3. PaperPosted = 0
    BY <2>1, <2>2, SumOfZeros DEF PaperPosted
  <2>4. "inventory" \in Accounts \ Touched(entries)
    BY <1>2, <1>8 DEF Examined
  <2>5. Movement(entries, "inventory") = 0
    BY <1>1, <2>4, UntouchedIsStill
  <2>6. stock \in Nat /\ ShippedWorth \in Nat
    BY <1>1, ShippedIsWhole DEF TypesHold
  <2>7. 0 = stock + 0 + ShippedWorth
    BY <1>1, <2>3, <2>5 DEF BooksHold
  <2>8. Subledger(control) = stock
    BY <1>8 DEF Subledger
  <2> QED BY <2>6, <2>7, <2>8
<1> QED BY <1>2, <1>6, <1>7, <1>8

LEMMA DifferencesAreExplained ==
  ASSUME ReportsAssumption, ReportsInvariant
  PROVE  DifferenceIsExplained
<1>1. BooksHold /\ TypesHold
  BY DEF ReportsInvariant
<1> DEFINE openAR == OpenOf(DocsOf("AR"))
           openAP == OpenOf(DocsOf("AP"))
           billedAR == WorthPosted(DocsOf("AR"))
           billedAP == WorthPosted(DocsOf("AP"))
           creditAR == WorthPosted(CreditsOf("AR"))
           creditAP == WorthPosted(CreditsOf("AP"))
           paidAR == AmountLive(PaidRows("AR"))
           paidAP == AmountLive(PaidRows("AP"))
           givenAR == AmountLive(CreditRows("AR"))
           givenAP == AmountLive(CreditRows("AP"))
           r == Movement(entries, "receivable")
           p == Movement(entries, "payable")
           i == Movement(entries, "inventory")
<1>2. /\ openAR = billedAR - (paidAR + givenAR) /\ openAP = billedAP - (paidAP + givenAP)
      /\ billedAR \in Int /\ billedAP \in Int /\ paidAR \in Int /\ paidAP \in Int
  <2>1. \A side : /\ OpenOf(DocsOf(side)) = WorthPosted(DocsOf(side)) - AmountLive(Into(side))
                  /\ WorthPosted(DocsOf(side)) \in Int
    BY OpenIsWorthLessSettled
  <2>2. \A side : /\ AmountLive(Into(side))
                       = AmountLive(PaidRows(side)) + AmountLive(CreditRows(side))
                  /\ AmountLive(PaidRows(side)) \in Int
    BY IntoIsPaidAndCredited
  <2> QED BY <2>1, <2>2
<1>3. /\ UnappliedCredit("AR") = creditAR - givenAR /\ UnappliedCredit("AP") = creditAP - givenAP
      /\ creditAR \in Int /\ creditAP \in Int /\ givenAR \in Int /\ givenAP \in Int
  BY UnappliedIsWorthLessSpent
<1>4. /\ r = billedAR - creditAR - paidAR /\ p = creditAP - billedAP + paidAP
      /\ i = stock + PaperPosted + ShippedWorth
  BY <1>1 DEF BooksHold
<1>5. /\ GlBalance("AR") = r /\ GlBalance("AP") = p /\ GlBalance("INVENTORY") = i
  BY DEF GlBalance, ControlOf
<1>6. /\ Subledger("AR") = openAR /\ Subledger("AP") = -openAP /\ Subledger("INVENTORY") = stock
  BY DEF Subledger, DocsOf
<1>7. /\ OnPaperOnly = PaperPosted /\ PaperPosted \in Int /\ stock \in Int
      /\ ShippedOnly = ShippedWorth /\ ShippedWorth \in Int
  <2>1. stock \in Nat
    BY <1>1 DEF TypesHold
  <2>2. stock \in Int
    BY ONLY <2>1
  <2>3. ShippedWorth \in Nat /\ IsFiniteSet(shipped)
    BY <1>1, ShippedIsWhole
  <2>4. ShippedWorth \in Int
    BY ONLY <2>3
  <2>5. ShippedOnly = ShippedWorth
    <3> DEFINE f == [x \in shipped |-> Worth[x]]
    <3>1. DOMAIN f = shipped /\ \A x \in shipped : f[x] = Worth[x]
      OBVIOUS
    <3>2. ShippedOnly = Sum(f)
      BY DEF ShippedOnly
    <3> HIDE DEF f
    <3>3. Sum(f) = SumFunctionOnSet(Worth, shipped)
      BY <2>3, <3>1, SumWritten
    <3> QED BY <3>2, <3>3 DEF ShippedWorth
  <2> QED BY <2>2, <2>4, <2>5, PaperIsPosted
<1>8. \A control \in DOMAIN ControlOf : ~Examined(control) => Subledger(control) = 0
  BY UnexaminedIsEmpty
<1> HIDE DEF openAR, openAP, billedAR, billedAP, creditAR, creditAP, paidAR, paidAP,
             givenAR, givenAP, r, p, i
<1>9. r - openAR = -(creditAR - givenAR)
  BY <1>2, <1>3, <1>4
<1>10. p - (-openAP) = creditAP - givenAP
  BY <1>2, <1>3, <1>4
<1>11. i - stock = PaperPosted + ShippedWorth
  BY <1>4, <1>7
<1>12. /\ Difference("AR") = r - openAR /\ Difference("AP") = p - (-openAP)
       /\ Difference("INVENTORY") = i - stock
  BY <1>5, <1>6 DEF Difference
<1> QED BY <1>3, <1>7, <1>8, <1>9, <1>10, <1>11, <1>12 DEF DifferenceIsExplained

\* The register, the ageing, the reconciliation and the tax report show what
\* the ledger and the open documents hold, whatever is posted and settled, and
\* the differences they have are the ones named.
THEOREM ReportsAlwaysAgreeWithBooks == ReportsSpec => []ReportsAgreeWithBooks
<1>1. ReportsInvariant => ReportsAgreeWithBooks
  <2> SUFFICES ASSUME ReportsInvariant PROVE ReportsAgreeWithBooks
    OBVIOUS
  <2>1. Journal(entries)
    BY DEF ReportsInvariant, TypesHold
  <2>2. RegisterMatchesLedger
    BY <2>1, ReportsAssumption, RegisterAgrees
  <2> QED BY <2>2, ReportsAssumption, AgeingAgrees, DifferencesAreExplained, TaxAgrees
          DEF ReportsAgreeWithBooks
<1> QED BY <1>1, ReportsInvariantHolds, PTL
=============================================================================
