----------------------------- MODULE StartDate -----------------------------
(***************************************************************************)
(* The start date of a room, from the date picker of the form to the row   *)
(* of the lists, where CalculateAboutTime turns it, and the moment the     *)
(* room was made, into words.                                              *)
(*                                                                         *)
(* A picker of dates keeps the time of day it was made with, so a date is  *)
(* a number of seconds like any other.  The form shows the day it was      *)
(* opened on until a date is set, but the model that is posted keeps an    *)
(* empty date, or the one an earlier form left.                            *)
(*                                                                         *)
(* The backend is taken to keep a date and give it back in the form the    *)
(* app reads, to refuse an empty one, and to run on the clock of the phone.*)
(* Requests are module MakeMatching's; here a room is made in one step.    *)
(***************************************************************************)
EXTENDS Integers

CONSTANT Moments \* bound: the seconds at which anything may happen

Day == 24 * 60 * 60
DayOf(second) == second \div Day
NoDate == -1

ASSUME StartDateAssumption == Moments \subseteq Nat

VARIABLES
  now,           \* the clock
  opened,        \* the form: since when it is open, or NoDate
  picker,        \* the date its picker stands on
  set,           \* history: a date was set on this form
  stored,        \* MakeMatchingModel.startGameDate
  room           \* the room made last: its dates and, as history, its form

dateVars == <<now, opened, picker, set, stored, room>>

NotMade == [start |-> NoDate, created |-> NoDate, opened |-> NoDate]

DateInit ==
  /\ now \in Moments
  /\ opened = NoDate
  /\ picker = NoDate
  /\ set = FALSE
  /\ stored = NoDate
  /\ room = NotMade

-----------------------------------------------------------------------------
(* CalculateAboutTime.                                                     *)

(* What a start label says: over, nothing, today, tomorrow or in n days.   *)
Over == -2
Nothing == -1
Today == 0
Tomorrow == 1

(* Variant: the second of the start counts as nothing.                     *)
StartIntervalFromZero(second) ==
  CASE second \in 60 .. (Day - 1)      -> Today
    [] second \in Day .. (2 * Day - 1) -> Tomorrow
    [] second >= 2 * Day               -> second \div Day
    [] second < 0                      -> Over
    [] OTHER                           -> Nothing
(* The last minute has no words.                                           *)
StartInterval(second) ==
  CASE second \in 60 .. (Day - 1)      -> Today
    [] second \in Day .. (2 * Day - 1) -> Tomorrow
    [] second >= 2 * Day               -> second \div Day
    [] second <= 0                     -> Over
    [] OTHER                           -> Nothing

(* Seconds on the day itself, whole days before it, none after it.         *)
StartTime(start, time) ==
  LET days == DayOf(start) - DayOf(time)
  IN StartInterval(CASE days = 0 -> start - time
                     [] days > 0 -> days * Day
                     [] OTHER    -> 0)

(* What a created label says, in the order of its words: nothing, just     *)
(* now, minutes, hours, yesterday, days.                                   *)
Minutes(n) == n
Hours(n) == 60 + n
Days(n) == 60 + 24 + n

(* Variant: days are counted from yesterday.                               *)
CreatedIntervalLate(second) ==
  CASE second = 0                    -> Minutes(0)
    [] second \in 60 .. 3599         -> Minutes(second \div 60)
    [] second \in 3600 .. (Day - 1)  -> Hours(second \div 3600)
    [] second \in Day .. (2*Day - 1) -> Days(1)
    [] second >= 2 * Day             -> Days((second - 2 * Day) \div Day)
    [] OTHER                         -> Nothing
(* The first minute, after the first second, has no words.                 *)
CreatedInterval(second) ==
  CASE second = 0                    -> Minutes(0)
    [] second \in 60 .. 3599         -> Minutes(second \div 60)
    [] second \in 3600 .. (Day - 1)  -> Hours(second \div 3600)
    [] second \in Day .. (2*Day - 1) -> Days(1)
    [] second >= 2 * Day             -> Days(second \div Day)
    [] OTHER                         -> Nothing

CreatedTime(created, time) == CreatedInterval(time - created)

(* The row of the list wears the "new" badge for its first words.          *)
NewLabelShown(created, time) ==
  CreatedTime(created, time) \in {Minutes(n) : n \in 0 .. 5}

-----------------------------------------------------------------------------
Tick(time) ==
  /\ time > now
  /\ now' = time
  /\ UNCHANGED <<opened, picker, set, stored, room>>

MakePicker ==
  /\ opened = NoDate
  /\ opened' = now
  /\ picker' = now
  /\ set' = FALSE
  /\ UNCHANGED <<now, stored, room>>

(* Variant: a picked day starts at its end.                                *)
TurnPickerToNight(day) ==
  /\ opened # NoDate
  /\ picker' = day * Day + Day - 1
  /\ UNCHANGED <<now, opened, set, stored, room>>

(* Another day of the picker, which knows no earliest one.                 *)
TurnPicker(day) ==
  /\ opened # NoDate
  /\ picker' = day * Day + (picker % Day)
  /\ UNCHANGED <<now, opened, set, stored, room>>

DidTapSetGameStartDate ==
  /\ opened # NoDate
  /\ stored' = picker
  /\ set' = TRUE
  /\ UNCHANGED <<now, opened, picker, room>>

CloseForm ==
  /\ opened' = NoDate
  /\ picker' = NoDate
  /\ set' = FALSE

(* The x button: the model keeps its date.                                 *)
PopForm ==
  /\ opened # NoDate
  /\ CloseForm
  /\ UNCHANGED <<now, stored, room>>

(* The room is made with the date of the model, and the model emptied.     *)
MakeRoom ==
  /\ opened # NoDate
  /\ stored # NoDate
  /\ room' = [start |-> stored, created |-> now,
              opened |-> IF set THEN opened ELSE NoDate]
  /\ stored' = NoDate
  /\ CloseForm
  /\ UNCHANGED now

DateNext ==
  \/ \E time \in Moments : Tick(time)
  \/ MakePicker
  \/ \E day \in {DayOf(m) : m \in Moments} : TurnPicker(day)
  \/ DidTapSetGameStartDate
  \/ PopForm
  \/ MakeRoom

DateSpec == DateInit /\ [][DateNext]_dateVars

-----------------------------------------------------------------------------
Seconds == {day * Day + (second % Day) :
              day \in {DayOf(m) : m \in Moments}, second \in Moments}

(* Type invariant of the dates, and of the words of the room's row.        *)
DateTypeOK ==
  /\ now \in Moments
  /\ opened \in Moments \cup {NoDate}
  /\ {picker, stored} \subseteq Seconds \cup {NoDate}
  /\ set \in BOOLEAN
  /\ room # NotMade => /\ room.start \in Seconds
                      /\ room.created \in Moments
                      /\ room.opened \in Moments \cup {NoDate}
                      /\ StartTime(room.start, now) \in Int
                      /\ StartTime(room.start, now) >= Over

(* The row says "over", and its join button is disabled, from the second   *)
(* of the start on and not one earlier, though the label is computed from  *)
(* days before that day and from seconds on it.                            *)
OverFromStart ==
  room # NotMade => (StartTime(room.start, now) = Over <=> room.start <= now)

(* Each time a row is drawn its labels have only moved on: a list that was *)
(* not reloaded never promises less time than is left, and the age of a    *)
(* room, where it has words, never jumps back, nor does its badge return.  *)
LabelsMoveOn ==
  [][ room # NotMade /\ room' = room =>
        /\ StartTime(room.start, now') <= StartTime(room.start, now)
        /\ LET before == CreatedTime(room.created, now)
               after == CreatedTime(room.created, now')
           IN before # Nothing /\ after # Nothing =>
                /\ before <= after
                /\ NewLabelShown(room.created, now')
                     => NewLabelShown(room.created, now)
    ]_dateVars

(* A date set to the day the form was opened on is over when the room is   *)
(* made, because the picker keeps the time of day it was made with: no one *)
(* can ever join a room that was made for today.                           *)
TodaysRoomIsOver ==
  room.opened # NoDate /\ DayOf(room.start) = DayOf(room.opened)
    => StartTime(room.start, now) = Over
=============================================================================
