-------------------------- MODULE PracticeSchedule --------------------------
(***************************************************************************)
(* What a display shows of a practice board at a moment: the period that   *)
(* runs or a page of the schedule.                                         *)
(*                                                                         *)
(* The kiosk (apps/pi-kiosk/src/modes/PracticeBoardMode.tsx) and the       *)
(* preview of the dashboard (PracticeBoardPreview.tsx) compute it from the *)
(* board and the clock alone; the page that edits the board (page.tsx)     *)
(* holds a third copy of some of the functions.  Time is counted in        *)
(* schedule pages: one unit is SCHEDULE_PREVIEW_DURATION_MS.  A time that  *)
(* is not set is 0.                                                        *)
(***************************************************************************)
EXTENDS Integers, Sequences, FiniteSets, SequencesExt

CONSTANTS
  PageSize,         \* SCHEDULE_PREVIEW_PAGE_SIZE
  PreviewInterval   \* SCHEDULE_PREVIEW_INTERVAL_MS, in pages

ASSUME ScheduleAssumption == {PageSize, PreviewInterval} \subseteq Nat \ {0}

Units == {"offense", "defense"}
NoTime == 0
NoDrill == 0
NoPage == -1

-----------------------------------------------------------------------------
(* The clock.                                                              *)

AtLeastZero(n) == IF n < 0 THEN 0 ELSE n
AtMost(n, m) == IF n < m THEN n ELSE m

\* projectRemainingSeconds: a start in the future has not used up anything.
Remaining(b, now) ==
  IF b.status # "running" \/ b.startedAt = NoTime THEN b.left
  ELSE AtLeastZero(b.left - AtLeastZero(now - b.startedAt))

-----------------------------------------------------------------------------
(* The pages of the schedule: offense first, then defense.                 *)

\* The periods of a unit among the first n, for every n.
UnitPrefixes(drills, u) ==
  LET upTo[n \in 0..Len(drills)] ==
        IF n = 0 THEN <<>>
        ELSE IF drills[n].unit = u THEN Append(upTo[n - 1], drills[n]) ELSE upTo[n - 1]
  IN upTo

OfUnit(drills, u) == UnitPrefixes(drills, u)[Len(drills)]
PagesFor(n) == (n + PageSize - 1) \div PageSize

\* Mutant: the periods of both units fill the pages together.
PageCountTogether(drills) == IF drills = <<>> THEN 1 ELSE PagesFor(Len(drills))

\* getPreviewPageCount.
PageCount(drills) ==
  LET pages == PagesFor(Len(OfUnit(drills, "offense"))) + PagesFor(Len(OfUnit(drills, "defense")))
  IN IF pages = 0 THEN 1 ELSE pages

\* ScheduleOverview and ScheduleCardGrid: the periods on a page.
CardsOn(drills, page) ==
  LET offensePages == PagesFor(Len(OfUnit(drills, "offense")))
      shown == IF page < offensePages THEN OfUnit(drills, "offense") ELSE OfUnit(drills, "defense")
      first == PageSize * (IF page < offensePages THEN page ELSE page - offensePages)
  IN SubSeq(shown, first + 1, AtMost(first + PageSize, Len(shown)))

-----------------------------------------------------------------------------
(* Which of them is shown.                                                 *)

ActiveDrills(b) == {i \in DOMAIN b.drills : b.drills[i].id = b.active}

NoPreview == [until |-> NoTime, page |-> NoPage]

\* getManualPreviewState.
ManualPreview(b, now) ==
  LET pages == PageCount(b.drills)
      elapsed == AtLeastZero(now - (b.overviewUntil - pages))
  IN IF b.overviewUntil <= now THEN NoPreview
     ELSE [until |-> b.overviewUntil, page |-> AtMost(pages - 1, elapsed)]

\* getAutomaticPreviewState: while a period runs the schedule comes back.
AutomaticPreview(b, now) ==
  LET pages == PageCount(b.drills)
      left == b.left - AtLeastZero(now - b.startedAt)
      length == b.drills[CHOOSE i \in ActiveDrills(b) : TRUE].length
      elapsed == AtLeastZero(length - left)
      cycle == IF PreviewInterval > pages + 1 THEN PreviewInterval ELSE pages + 1
      position == (elapsed - PreviewInterval) % cycle
  IN IF \/ ActiveDrills(b) = {} \/ b.status # "running" \/ b.startedAt = NoTime
        \/ left <= 0 \/ elapsed < PreviewInterval \/ position >= pages
     THEN NoPreview
     ELSE [until |-> now + pages - position, page |-> AtMost(pages - 1, position)]

\* The page of the schedule that is shown, or NoPage when it is the period.
PageShown(b, now) ==
  LET manual == ManualPreview(b, now)
      automatic == AutomaticPreview(b, now)
      preview == IF manual.until >= automatic.until THEN manual ELSE automatic
  IN IF preview # NoPreview THEN preview.page
     ELSE IF ActiveDrills(b) # {} THEN NoPage
     ELSE now % PageCount(b.drills)

=============================================================================
