------------------------------- MODULE History -------------------------------
(***************************************************************************)
(* What undo and redo promise: the versions of a text lie on one line of   *)
(* time and the editor is at one of them.  Undo and redo only move along   *)
(* the line, so either takes back the other; a change cuts off what was    *)
(* ahead.  At most Limit versions lie behind.  Where memory is short, the  *)
(* version that could not be kept is missing from the line and no other.   *)
(***************************************************************************)
EXTENDS Naturals, SequencesExt

CONSTANTS Limit

VARIABLES
  timeline,   \* the versions, the oldest first
  now         \* the place of the one that is shown

historyVars == <<timeline, now>>

HistoryInit == timeline = <<<< <<>> >>>> /\ now = 1

\* A version is added behind those that are kept.
ShowNew(kept) ==
  /\ now' = Len(kept) + 1
  /\ timeline' = Append(kept, Last(timeline'))

Behind == SubSeq(timeline, 1, now - 1)
Newest(s) == IF Len(s) > Limit THEN Tail(s) ELSE s

Change  == ShowNew(Newest(Append(Behind, timeline[now])))
ChangeUnkept == ShowNew(Behind)

Undo == now > 1 /\ now' = now - 1 /\ UNCHANGED timeline
Redo == now < Len(timeline) /\ now' = now + 1 /\ UNCHANGED timeline

UndoUnkept == now > 1 /\ now' = now - 1 /\ timeline' = RemoveAt(timeline, now)
RedoUnkept == now < Len(timeline) /\ timeline' = RemoveAt(timeline, now) /\ UNCHANGED now

\* A change that fails may have made room for its version already.
ForgetOldest == now > Limit /\ now' = now - 1 /\ timeline' = Tail(timeline)

Reopen == ShowNew(<<>>)

HistoryNext == \/ Change \/ ChangeUnkept \/ Undo \/ Redo \/ UndoUnkept \/ RedoUnkept
               \/ ForgetOldest \/ Reopen

HistorySpec == HistoryInit /\ [][HistoryNext]_historyVars
=============================================================================
