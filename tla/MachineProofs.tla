-------------------------- MODULE MachineProofs ----------------------------
(***************************************************************************)
(* The properties of VirtMem, Console and TimeOfDay as MCMachine states    *)
(* them, in the specification that runs one of them or PhysMem: every      *)
(* behaviour of it is one of each, so that the theorems of VirtMemProofs,  *)
(* ConsoleProofs and TimeOfDayProofs hold of it.  There VirtMem has the    *)
(* name VP, in MCMachine Virt, Console CP and Screen, TimeOfDay TP and     *)
(* Time: the lemmas named Same say that the definitions of the two are the *)
(* same.                                                                   *)
(***************************************************************************)
EXTENDS MCMachine, TLAPS

VP == INSTANCE VirtMemProofs WITH pc <- step, frame <- phys, Threads <- Callers

LEMMA SameConstants == VP!SizeAssumption
<1>1. Virt!SizeAssumption
  BY MachineAssumption
<1>2. /\ Virt!Index = VP!Index /\ Virt!NoFrame = VP!NoFrame
      /\ \A v : Virt!virt_mem_get_page_table_index(v) = VP!virt_mem_get_page_table_index(v)
      /\ \A v : Virt!virt_mem_get_page_index(v) = VP!virt_mem_get_page_index(v)
  BY DEF Virt!Index, VP!Index, Virt!NoFrame, VP!NoFrame,
     Virt!virt_mem_get_page_table_index, VP!virt_mem_get_page_table_index,
     Virt!virt_mem_get_page_index, VP!virt_mem_get_page_index
<1>3. Virt!FirstPage = VP!FirstPage
  BY DEF Virt!FirstPage, VP!FirstPage, Virt!ceil_division, VP!ceil_division
<1>4. Virt!KernelFrames = VP!KernelFrames
  BY <1>2 DEF Virt!KernelFrames, VP!KernelFrames
<1> QED BY <1>1, <1>2, <1>3, <1>4 DEF Virt!SizeAssumption, VP!SizeAssumption

LEMMA SameInit == Virt!Init => VP!Init
BY DEF
     Virt!Init, VP!Init, Virt!Index, VP!Index, Virt!JunkEntry, VP!JunkEntry,
     Virt!Entry, VP!Entry, Virt!NoFrame, VP!NoFrame, Virt!Junk, VP!Junk

LEMMA SameNext == Virt!Next => VP!Next
BY Zenon DEF
     Virt!Next, VP!Next, Virt!virt_mem_init, VP!virt_mem_init, Virt!FirstFree,
     VP!FirstFree, Virt!Index, VP!Index, Virt!Entry, VP!Entry, Virt!NoEntry,
     VP!NoEntry, Virt!NoFrame, VP!NoFrame, Virt!Goto, VP!Goto, Virt!locals,
     VP!locals, Virt!shared, VP!shared, Virt!virt_mem_create_address_space,
     VP!virt_mem_create_address_space, Virt!BspAlone, VP!BspAlone,
     Virt!virt_mem_set_recursive_table, VP!virt_mem_set_recursive_table,
     Virt!virt_mem_get_directory, VP!virt_mem_get_directory,
     Virt!virt_mem_get_page_table, VP!virt_mem_get_page_table,
     Virt!virt_mem_free_page, VP!virt_mem_free_page, Virt!Pages, VP!Pages,
     Virt!TableOf, VP!TableOf, Virt!virt_mem_get_page_table_index,
     VP!virt_mem_get_page_table_index, Virt!virt_mem_get_page_index,
     VP!virt_mem_get_page_index, Virt!Start, VP!Start, Virt!alloc_perm,
     VP!alloc_perm, Virt!ReadCursor, VP!ReadCursor, Virt!FirstPage,
     VP!FirstPage, Virt!ceil_division, VP!ceil_division, Virt!InCall, VP!InCall,
     Virt!LoadCursor, VP!LoadCursor, Virt!StoreCursor, VP!StoreCursor,
     Virt!AllocFrame, VP!AllocFrame, Virt!FindTable, VP!FindTable,
     Virt!DirEntry, VP!DirEntry, Virt!AllocTable, VP!AllocTable,
     Virt!InstallTable, VP!InstallTable, Virt!MarkPresent, VP!MarkPresent,
     Virt!ClearTable, VP!ClearTable, Virt!WriteEntry, VP!WriteEntry

LEMMA SameStates ==
  /\ VP!TypeOK => Virt!TypeOK
  /\ VP!FrameHasOneUse => Virt!FrameHasOneUse
  /\ VP!NoStrayEntries => Virt!NoStrayEntries
  /\ VP!NoFrameLost => Virt!NoFrameLost
  /\ VP!SpacesShareKernel => Virt!SpacesShareKernel
<1>1. VP!TypeOK => Virt!TypeOK
  <2>1. Virt!Index = VP!Index /\ Virt!NoFrame = VP!NoFrame /\ Virt!Junk = VP!Junk
        /\ Virt!Steps = VP!Steps
    BY DEF Virt!Index, VP!Index, Virt!NoFrame, VP!NoFrame, Virt!Junk, VP!Junk, Virt!Steps, VP!Steps
  <2>2. Virt!KernelFrames = VP!KernelFrames
    BY <2>1 DEF Virt!KernelFrames, VP!KernelFrames
  <2>3. Virt!EntryType = VP!EntryType
    BY <2>1, <2>2 DEF Virt!EntryType, VP!EntryType
  <2> QED BY <2>1, <2>3 DEF Virt!TypeOK, VP!TypeOK
<1>2. /\ VP!FrameHasOneUse => Virt!FrameHasOneUse
      /\ VP!NoFrameLost => Virt!NoFrameLost
  <2>1. Virt!Index = VP!Index /\ Virt!NoFrame = VP!NoFrame
    BY DEF Virt!Index, VP!Index, Virt!NoFrame, VP!NoFrame
  <2>2. Virt!TableSlots = VP!TableSlots
    BY <2>1, Zenon DEF Virt!TableSlots, VP!TableSlots
  <2>3. \A f : Virt!Uses(f) = VP!Uses(f)
    BY <2>1, <2>2 DEF Virt!Uses, VP!Uses
  <2>4. \A S : Virt!Cardinality(S) = VP!Cardinality(S)
    BY Zenon DEF Virt!Cardinality, VP!Cardinality
  <2>5. VP!FrameHasOneUse => Virt!FrameHasOneUse
    BY <2>1, <2>3, <2>4, Zenon DEF Virt!FrameHasOneUse, VP!FrameHasOneUse
  <2>6. VP!NoFrameLost => Virt!NoFrameLost
    BY <2>1, <2>3, Zenon DEF Virt!NoFrameLost, VP!NoFrameLost
  <2> QED BY <2>5, <2>6
<1>3. VP!NoStrayEntries => Virt!NoStrayEntries
  BY Zenon DEF
     Virt!NoStrayEntries, VP!NoStrayEntries, Virt!TableSlots, VP!TableSlots,
     Virt!Index, VP!Index, Virt!NoFrame, VP!NoFrame, Virt!Junk, VP!Junk,
     Virt!virt_mem_get_page_table_index, VP!virt_mem_get_page_table_index
<1>4. VP!SpacesShareKernel => Virt!SpacesShareKernel
  BY Zenon DEF
     Virt!SpacesShareKernel, VP!SpacesShareKernel, Virt!Index, VP!Index,
     Virt!Entry, VP!Entry
<1> QED BY <1>1, <1>2, <1>3, <1>4

LEMMA SamePromise == VP!KeepsPromise => Virt!KeepsPromise
<1>1. VP!Promise!Init => Virt!Promise!Init
  BY Zenon DEF
     Virt!Promise!Init, VP!Promise!Init, Virt!Pages, VP!Pages, Virt!Translation,
     VP!Translation, Virt!AllOwned, VP!AllOwned, Virt!NoFrame, VP!NoFrame,
     Virt!virt_mem_get_page_table_index, VP!virt_mem_get_page_table_index,
     Virt!virt_mem_get_page_index, VP!virt_mem_get_page_index
<1>2. [overlapped' \/ VP!Promise!Next]_(VP!Promise!vars)
         => [overlapped' \/ Virt!Promise!Next]_(Virt!Promise!vars)
  BY Zenon DEF
     Virt!Promise!Next, VP!Promise!Next, Virt!Promise!vars, VP!Promise!vars,
     Virt!Promise!Give, VP!Promise!Give, Virt!Promise!Free, VP!Promise!Free,
     Virt!Promise!InUse, VP!Promise!InUse, Virt!Pages, VP!Pages,
     Virt!Translation, VP!Translation, Virt!AllOwned, VP!AllOwned, Virt!NoFrame,
     VP!NoFrame, Virt!virt_mem_get_page_table_index,
     VP!virt_mem_get_page_table_index, Virt!virt_mem_get_page_index,
     VP!virt_mem_get_page_index
<1> QED BY <1>1, <1>2, PTL DEF Virt!KeepsPromise, VP!KeepsPromise

\* A step of another part changes nothing of VirtMem.
LEMMA MemoryIsVirtual == MachineSpec => VP!Spec
<1>1. MachineInit => VP!Init
  BY SameInit, Zenon DEF MachineInit
<1>2. [MachineNext]_all_vars => [VP!Next]_(VP!vars)
  BY SameNext, Zenon DEF MachineNext, all_vars, virt_vars, VP!vars, VP!shared, VP!locals
<1> QED BY <1>1, <1>2, PTL DEF MachineSpec, VP!Spec

-----------------------------------------------------------------------------
\* virt_mem_map_page and virt_mem_create_table: no frame stands behind two pages,
\* tables or directories, and a directory names frames only.
THEOREM MemoryHasOneUse == MachineSpec => []FrameHasOneUse
<1>1. VP!TypeOK /\ VP!FrameHasOneUse => FrameHasOneUse
  BY SameStates DEF FrameHasOneUse
<1> QED BY <1>1, MemoryIsVirtual, SameConstants, VP!TypeCorrect, VP!OneUseForEveryFrame, PTL

\* virt_mem_create_table: a new table translates nothing that nobody mapped.
THEOREM MemoryHasNoStrays == MachineSpec => []NoStrayEntries
<1>1. VP!NoStrayEntries => NoStrayEntries
  BY SameStates DEF NoStrayEntries
<1> QED BY <1>1, MemoryIsVirtual, SameConstants, VP!TablesAreCleared, PTL

\* alloc_perm and virt_mem_free_page: while calls do not overlap, every frame is
\* free or used.
THEOREM MemoryLosesNoFrame == MachineSpec => []NoFrameLost
<1>1. VP!NoFrameLost => NoFrameLost
  BY SameStates DEF NoFrameLost
<1> QED BY <1>1, MemoryIsVirtual, SameConstants, VP!FramesAreAccounted, PTL

\* virt_mem_create_address_space: each address space is its own, with the
\* kernel's tables.
THEOREM MemorySharesKernel == MachineSpec => []SpacesShareKernel
<1>1. VP!SpacesShareKernel => SpacesShareKernel
  BY SameStates DEF SpacesShareKernel
<1> QED BY <1>1, MemoryIsVirtual, SameConstants, VP!SpacesSeeTheKernel, PTL

\* alloc_perm, virt_mem_map_page and virt_mem_free_page implement AddressSpace
\* while calls do not overlap.
THEOREM MemoryKeepsPromise == MachineSpec => SpaceKeepsPromise
BY MemoryIsVirtual, SameConstants, SamePromise, VP!SpaceIsKept, PTL DEF SpaceKeepsPromise

-----------------------------------------------------------------------------
CP == INSTANCE ConsoleProofs WITH lock <- print_lock, pc <- printer

LEMMA SameScreen == CP!ConsoleAssumption
<1>1. Screen!ConsoleAssumption
  BY MachineAssumption
<1> QED BY <1>1, Zenon DEF Screen!ConsoleAssumption, CP!ConsoleAssumption, Screen!Processors, CP!Processors

LEMMA SameScreenInit == Screen!Init => CP!Init
BY Zenon DEF
     Screen!Init, CP!Init, Screen!Cells, CP!Cells, Screen!Processors, CP!Processors

LEMMA SameScreenNext == Screen!Next => CP!Next
BY Zenon DEF
     Screen!Next, CP!Next, Screen!Processors, CP!Processors, Screen!Printch, CP!Printch,
     Screen!Character, CP!Character, Screen!WriteCell, CP!WriteCell, Screen!Newline,
     CP!Newline, Screen!LoadX, CP!LoadX, Screen!StoreX, CP!StoreX, Screen!LoadY,
     CP!LoadY, Screen!StoreY, CP!StoreY, Screen!TestX, CP!TestX, Screen!Wrap, CP!Wrap,
     Screen!NewLineCheck, CP!NewLineCheck, Screen!ClearLines, CP!ClearLines,
     Screen!HomeY, CP!HomeY, Screen!HomeX, CP!HomeX, Screen!Return, CP!Return,
     Screen!Prints, CP!Prints, Screen!AtNewline, CP!AtNewline, Screen!Shown, CP!Shown,
     Screen!Length, CP!Length, Screen!After, CP!After, Screen!Access, CP!Access,
     Screen!Load, CP!Load, Screen!Cells, CP!Cells, Screen!Overlaps, CP!Overlaps,
     Screen!Busy, CP!Busy, Screen!Borrows, CP!Borrows, Screen!Goto, CP!Goto,
     Screen!locals, CP!locals, Screen!Acquire, CP!Acquire, Screen!InOrder, CP!InOrder,
     Screen!OnScreen, CP!OnScreen, Screen!SaveX, CP!SaveX, Screen!SaveY, CP!SaveY,
     Screen!Clock, CP!Clock, Screen!MoveToClock, CP!MoveToClock, Screen!ClockRow,
     CP!ClockRow, Screen!RestoreCursor, CP!RestoreCursor, Screen!Release, CP!Release

LEMMA SameScreenStates ==
    /\ CP!TypeOK => Screen!TypeOK
    /\ CP!CursorOnScreen => Screen!CursorOnScreen
BY Zenon DEF
     Screen!TypeOK, CP!TypeOK, Screen!CursorOnScreen, CP!CursorOnScreen, Screen!Cells,
     CP!Cells, Screen!Processors, CP!Processors, Screen!Prints, CP!Prints,
     Screen!OnScreen, CP!OnScreen

LEMMA SameScreenPromise == CP!KeepsPromise => Screen!KeepsPromise
<1>1. Screen!Place = CP!Place /\ Screen!Processors = CP!Processors /\ Screen!Cells = CP!Cells
  BY Zenon DEF
     Screen!Place, CP!Place, Screen!End, CP!End, Screen!Processors, CP!Processors,
     Screen!Borrows, CP!Borrows, Screen!Cells, CP!Cells
<1>2. CP!Promise!Init => Screen!Promise!Init
  BY <1>1, Zenon DEF
     Screen!Promise!Init, CP!Promise!Init, Screen!Promise!Cells, CP!Promise!Cells,
     Screen!Promise!Cleared, CP!Promise!Cleared, Screen!ClockRow, CP!ClockRow
<1>3. [mixed' \/ CP!Promise!Next]_(CP!Promise!vars)
         => [mixed' \/ Screen!Promise!Next]_(Screen!Promise!vars)
  BY <1>1, Zenon DEF
     Screen!Promise!Next, CP!Promise!Next, Screen!Promise!vars, CP!Promise!vars,
     Screen!Promise!Say, CP!Promise!Say, Screen!Promise!NewLine, CP!Promise!NewLine,
     Screen!Promise!Show, CP!Promise!Show, Screen!Promise!GoTo, CP!Promise!GoTo,
     Screen!Promise!Cells, CP!Promise!Cells, Screen!Promise!Cleared, CP!Promise!Cleared,
     Screen!ClockRow, CP!ClockRow, Screen!Place, CP!Place, Screen!End, CP!End,
     Screen!Processors, CP!Processors, Screen!Borrows, CP!Borrows, Screen!Cells,
     CP!Cells
<1> QED BY <1>2, <1>3, PTL DEF Screen!KeepsPromise, CP!KeepsPromise

\* A step of another part changes nothing of Console.
LEMMA ScreenIsConsole == MachineSpec => CP!Spec
<1>1. MachineInit => CP!Init
  BY SameScreenInit, Zenon DEF MachineInit
<1>2. [MachineNext]_all_vars => [CP!Next]_(CP!vars)
  BY SameScreenNext, Zenon DEF MachineNext, all_vars, screen_vars, CP!vars, CP!locals
<1> QED BY <1>1, <1>2, PTL DEF MachineSpec, CP!Spec

\* Printch and clock_task_entry_point: unless a message printed without the lock
\* overlaps with what another processor prints, Console implements ConsoleSpec and
\* every character is written on the screen.
THEOREM ScreenIsShared == MachineSpec => MessagesGoOn
<1>1. (CP!TypeOK => Screen!TypeOK) /\ (CP!CursorOnScreen => Screen!CursorOnScreen)
  BY SameScreenStates
<1> QED
  BY <1>1, ScreenIsConsole, SameScreen, SameScreenPromise, CP!TypeCorrect,
     CP!CursorStaysOnScreen, CP!ConsoleIsShared, PTL DEF MessagesGoOn

-----------------------------------------------------------------------------
TP == INSTANCE TimeOfDayProofs

LEMMA SameTime == TP!TimeAssumption
<1>1. Time!TimeAssumption
  BY MachineAssumption
<1> QED BY <1>1, Zenon DEF Time!TimeAssumption, TP!TimeAssumption, Time!Times, TP!Times

LEMMA SameTimeInit == Time!Init => TP!Init
BY Zenon DEF Time!Init, TP!Init, Time!NoTime, TP!NoTime

\* The operators of TimeOfDay.
LEMMA SameCalendar ==
    /\ \A t : Time!NextSecond(t) = TP!NextSecond(t)
    /\ \A t : Time!Weekday(t) = TP!Weekday(t)
<1>1. \A m, y : Time!DaysIn(m, y) = TP!DaysIn(m, y)
  BY DEF Time!DaysIn, TP!DaysIn
<1>2. \A t : Time!NextDay(t) = TP!NextDay(t)
  BY <1>1, Zenon DEF Time!NextDay, TP!NextDay
<1>3. \A t : Time!NextSecond(t) = TP!NextSecond(t)
  BY <1>2, Zenon DEF Time!NextSecond, TP!NextSecond
<1>4. Time!DaysBeforeYear = TP!DaysBeforeYear
  BY Zenon DEF Time!DaysBeforeYear, TP!DaysBeforeYear
<1>5. \A m, y : Time!DaysBeforeMonth(m, y) = TP!DaysBeforeMonth(m, y)
  BY Zenon DEF Time!DaysBeforeMonth, TP!DaysBeforeMonth, Time!DaysIn, TP!DaysIn
<1>6. \A t : Time!Weekday(t) = TP!Weekday(t)
  BY <1>4, <1>5, Zenon DEF Time!Weekday, TP!Weekday
<1> QED BY <1>3, <1>6

LEMMA SameClock ==
    \A t : Time!AddSecond(t) = TP!AddSecond(t)
<1>1. \A t : Time!AddDay(t) = TP!AddDay(t)
  BY SMT DEF Time!AddDay, TP!AddDay
<1>2. \A t : Time!AddHour(t) = TP!AddHour(t)
  BY <1>1 DEF Time!AddHour, TP!AddHour
<1>3. \A t : Time!AddMinute(t) = TP!AddMinute(t)
  BY <1>2 DEF Time!AddMinute, TP!AddMinute
<1> QED BY <1>3 DEF Time!AddSecond, TP!AddSecond

LEMMA SameTimeNext == Time!Next => TP!Next
<1>1. Time!ChipUpdates => TP!ChipUpdates
  BY SameCalendar, Zenon DEF Time!ChipUpdates, TP!ChipUpdates
<1>2. Time!WaitForUpdate => TP!WaitForUpdate
  BY Zenon DEF Time!WaitForUpdate, TP!WaitForUpdate
<1>3. Time!ReadRegister => TP!ReadRegister
  BY Zenon DEF
     Time!ReadRegister, TP!ReadRegister, Time!Register, TP!Register, Time!Fields,
     TP!Fields, Time!Encoded, TP!Encoded, Time!Bcd, TP!Bcd, Time!PM, TP!PM
<1>4. Time!EndPass => TP!EndPass
  BY Zenon DEF
     Time!EndPass, TP!EndPass, Time!SameTwice, TP!SameTwice, Time!Fields, TP!Fields
<1>5. Time!Convert => TP!Convert
  <2>1. \A n : Time!to_binary(n) = TP!to_binary(n)
    BY Zenon DEF Time!to_binary, TP!to_binary
  <2>2. \A y, m, d : Time!time_get_weekday(y, m, d) = TP!time_get_weekday(y, m, d)
    BY DEF Time!time_get_weekday, TP!time_get_weekday
  <2>3. Time!PM = TP!PM
    BY DEF Time!PM, TP!PM
  <2> QED BY <2>1, <2>2, <2>3 DEF Time!Convert, TP!Convert
<1>6. Time!update_system_time => TP!update_system_time
  BY SameClock DEF Time!update_system_time, TP!update_system_time
<1> QED BY <1>1, <1>2, <1>3, <1>4, <1>5, <1>6, Zenon DEF Time!Next, TP!Next

LEMMA SameTimeStates == TP!TypeOK /\ TP!TimeIsRight => Time!TypeOK /\ Time!TimeIsRight
<1>1. TP!TypeOK => Time!TypeOK
  BY Zenon DEF Time!TypeOK, TP!TypeOK, Time!Fields, TP!Fields
<1>2. TP!TimeIsWhole => Time!TimeIsWhole
  BY SameCalendar, Zenon DEF Time!TimeIsWhole, TP!TimeIsWhole
<1>3. TP!ClockFollowsTicks => Time!ClockFollowsTicks
  <2>1. \A t : Time!Msec(t) = TP!Msec(t)
    BY DEF Time!Msec, TP!Msec
  <2> QED BY <2>1 DEF Time!ClockFollowsTicks, TP!ClockFollowsTicks
<1> QED BY <1>1, <1>2, <1>3, Zenon DEF Time!TimeIsRight, TP!TimeIsRight

\* A step of another part changes nothing of TimeOfDay.
LEMMA TimeIsTimeOfDay == MachineSpec => TP!Spec
<1>1. MachineInit => TP!Init
  BY SameTimeInit, Zenon DEF MachineInit
<1>2. [MachineNext]_all_vars => [TP!Next]_(TP!vars)
  BY SameTimeNext, Zenon DEF MachineNext, all_vars, time_vars, TP!vars
<1> QED BY <1>1, <1>2, PTL DEF MachineSpec, TP!Spec

\* rtc_read_time, time_get_weekday and update_system_time: the time read from the
\* chip is whole, with its weekday, and the clock follows the ticks.
THEOREM MachineTellsTime == MachineSpec => []TimeIsRight
<1>1. TP!TypeOK /\ TP!TimeIsRight => TimeIsRight
  BY SameTimeStates, Zenon DEF TimeIsRight
<1> QED BY <1>1, TimeIsTimeOfDay, SameTime, TP!TimeTypes, TP!TimeStaysRight, PTL
=============================================================================
