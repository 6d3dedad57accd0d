----------------------------- MODULE TextTracks -----------------------------
(***************************************************************************)
(* The text tracks of media elements and their cues                        *)
(* (crates/script/js/30_html.js).  A media element reads its list of       *)
(* tracks from its children when it is told that they changed, and         *)
(* announces those that came or went; but it also reads it, in silence,    *)
(* when the page looks.                                                    *)
(***************************************************************************)
EXTENDS Naturals, Sequences, SequencesExt, FiniteSets

CONSTANTS
  Medias, Tracks,   \* media elements and track elements
  Cues, Times,
  MaxTrackOps,
  None

VARIABLES
  trackKids,   \* the track children of every media element
  listed,      \* #elems of its list, None before the page has asked for one
  added,       \* how many tracks addTextTrack() has made for it
  trackModes,  \* of the tracks that are disabled no list of cues is shown
  cues,        \* #cues of every track, in cue order
  owner,       \* #track of every cue
  span,        \* the times of every cue
  changing,    \* changePending
  trackTasks,  \* the events that are posted
  heardOf,     \* the tracks the page was or will be told of
  unseen,      \* media elements that lost a track and were not told
  slipped,     \* those that found out when the page looked
  trackOps

trackVars == <<trackKids, listed, added, trackModes, cues, owner, span, changing, trackTasks, heardOf, unseen, slipped, trackOps>>
list == <<listed, added, changing, trackTasks, heardOf, unseen, slipped>>
cueLists == <<cues, owner, span>>

MediaOf(t) == LET in == {m \in Medias : t \in Range(trackKids[m])} IN IF in = {} THEN None ELSE CHOOSE m \in in : TRUE

Init ==
  /\ trackKids = [m \in Medias |-> << >>] /\ listed = [m \in Medias |-> None] /\ added = [m \in Medias |-> 0]
  /\ trackModes = [t \in Tracks |-> "disabled"]
  /\ cues = [t \in Tracks |-> << >>] /\ owner = [c \in Cues |-> None] /\ span = [c \in Cues |-> <<0, 1>>]
  /\ changing = {} /\ trackTasks = << >> /\ heardOf = [m \in Medias |-> {}] /\ unseen = {} /\ slipped = {} /\ trackOps = 0

Act == trackOps < MaxTrackOps /\ trackOps' = trackOps + 1
Task(type, m, t) == [type |-> type, at |-> m, track |-> t]

-----------------------------------------------------------------------------
(* TTL.tracks(list, notify) of a media element whose children are now      *)
(* kids; lost: the one a child was taken from, which is not told.          *)
Announce(m, kids) ==
  LET gone == SelectSeq(listed[m], LAMBDA t : t \notin Range(kids))
      come == SelectSeq(kids, LAMBDA t : t \notin Range(listed[m]))
  IN  [i \in DOMAIN gone |-> Task("removetrack", m, gone[i])] \o [i \in DOMAIN come |-> Task("addtrack", m, come[i])]

\* mutant of ChildrenChanged
ChildrenChangedSilently(m, kids, lost) ==
  /\ unseen' = (unseen \ {m}) \union lost
  /\ listed' = IF listed[m] = None THEN listed ELSE [listed EXCEPT ![m] = kids]
  /\ UNCHANGED <<trackTasks, heardOf>>
ChildrenChanged(m, kids, lost) ==
  /\ unseen' = (unseen \ {m}) \union lost
  /\ IF listed[m] = None THEN UNCHANGED <<listed, trackTasks, heardOf>>
     ELSE /\ listed' = [listed EXCEPT ![m] = kids]
          /\ trackTasks' = trackTasks \o Announce(m, kids)
          /\ heardOf' = [heardOf EXCEPT ![m] = (@ \ Range(listed[m])) \union Range(kids)]

(* insertBefore(): of the move only the new parent is told (preInsert()).  *)
InsertTrack(t, m, at) ==
  LET left == [x \in Medias |-> SelectSeq(trackKids[x], LAMBDA u : u # t)]
  IN  /\ Act /\ at \in 0..Len(left[m])
      /\ trackKids' = [left EXCEPT ![m] = InsertAt(@, at + 1, t)]
      /\ ChildrenChanged(m, trackKids'[m], {MediaOf(t)} \ {m, None})
      /\ UNCHANGED <<added, trackModes, cueLists, changing, slipped>>

RemoveTrack(t) ==
  /\ Act /\ MediaOf(t) # None
  /\ trackKids' = [trackKids EXCEPT ![MediaOf(t)] = SelectSeq(@, LAMBDA u : u # t)]
  /\ ChildrenChanged(MediaOf(t), trackKids'[MediaOf(t)], {})
  /\ UNCHANGED <<added, trackModes, cueLists, changing, slipped>>

(* textTracksOf(): the page looks for the first time, and a list is made.  *)
Made(m) ==
  IF listed[m] # None THEN UNCHANGED <<listed, heardOf>>
  ELSE listed' = [listed EXCEPT ![m] = trackKids[m]] /\ heardOf' = [heardOf EXCEPT ![m] = Range(trackKids[m])]
(* It looks again: the list is read from the tree, and nothing is told.    *)
Look(m) ==
  /\ IF listed[m] = None THEN Made(m) /\ UNCHANGED slipped
     ELSE /\ listed[m] # trackKids[m] /\ listed' = [listed EXCEPT ![m] = trackKids[m]]
          /\ slipped' = IF m \in unseen THEN slipped \union {m} ELSE slipped
          /\ UNCHANGED heardOf
  /\ unseen' = unseen \ {m}
  /\ UNCHANGED <<trackKids, added, trackModes, cueLists, changing, trackTasks, trackOps>>

AddTextTrack(m) ==
  /\ Act /\ Made(m)
  /\ added' = [added EXCEPT ![m] = @ + 1]
  /\ trackTasks' = Append(trackTasks, Task("addtrack", m, added'[m]))
  /\ UNCHANGED <<trackKids, trackModes, cueLists, changing, unseen, slipped>>

(* mode =, and textTrackModeChanged().                                     *)
ModeChanged(m) ==
  IF m \notin {x \in Medias : listed[x] # None} \ changing THEN UNCHANGED <<trackTasks, changing>>
  ELSE trackTasks' = Append(trackTasks, Task("change", m, None)) /\ changing' = changing \union {m}
SetMode(t, mode) ==
  /\ Act /\ mode # trackModes[t]
  /\ trackModes' = [trackModes EXCEPT ![t] = mode]
  /\ ModeChanged(MediaOf(t))
  /\ UNCHANGED <<trackKids, listed, added, cueLists, heardOf, unseen, slipped>>

-----------------------------------------------------------------------------
(* Cues: by start time, the longer one first, equal ones as they came.     *)
CueBefore(s, c, d) == s[c][1] < s[d][1] \/ (s[c][1] = s[d][1] /\ s[c][2] > s[d][2])
Sorted(s, sequence, c) ==
  LET behind == {i \in DOMAIN sequence : CueBefore(s, c, sequence[i])}
      at == IF behind = {} THEN Len(sequence) + 1 ELSE CHOOSE i \in behind : \A j \in behind : i <= j
  IN  InsertAt(sequence, at, c)
Dropped(c) == IF owner[c] = None THEN cues ELSE [cues EXCEPT ![owner[c]] = SelectSeq(@, LAMBDA d : d # c)]
CueAct == Act /\ UNCHANGED <<trackKids, trackModes, list>>

AddCue(t, c) ==
  /\ CueAct /\ owner' = [owner EXCEPT ![c] = t]
  /\ cues' = [Dropped(c) EXCEPT ![t] = Sorted(span, @, c)]
  /\ UNCHANGED span
RemoveCue(c) ==
  /\ CueAct /\ owner[c] # None
  /\ cues' = Dropped(c) /\ owner' = [owner EXCEPT ![c] = None]
  /\ UNCHANGED span
SetTimes(c, times) ==
  /\ CueAct /\ span' = [span EXCEPT ![c] = times]
  /\ cues' = IF owner[c] = None THEN cues ELSE [Dropped(c) EXCEPT ![owner[c]] = Sorted(span', @, c)]
  /\ UNCHANGED owner

(* The attribute src of a track element: its cues go away.                 *)
SetSrc(t) ==
  /\ CueAct
  /\ cues' = [cues EXCEPT ![t] = << >>]
  /\ owner' = [c \in Cues |-> IF c \in Range(cues[t]) THEN None ELSE owner[c]]
  /\ UNCHANGED span

-----------------------------------------------------------------------------
RunTrackTask ==
  /\ trackTasks # << >>
  /\ trackTasks' = Tail(trackTasks)
  /\ changing' = IF Head(trackTasks).type = "change" THEN changing \ {Head(trackTasks).at} ELSE changing
  /\ UNCHANGED <<trackKids, listed, added, trackModes, cueLists, heardOf, unseen, slipped, trackOps>>

Page ==
  \/ \E t \in Tracks : RemoveTrack(t) \/ SetSrc(t) \/ \E mode \in {"disabled", "hidden", "showing"} : SetMode(t, mode)
  \/ \E t \in Tracks, m \in Medias, at \in 0..1 : InsertTrack(t, m, at)
  \/ \E m \in Medias : Look(m) \/ AddTextTrack(m)
  \/ \E c \in Cues : RemoveCue(c) \/ \E t \in Tracks : AddCue(t, c)
  \/ \E c \in Cues, times \in Times : SetTimes(c, times)
Next == Page \/ RunTrackTask
Spec == Init /\ [][Next]_trackVars

-----------------------------------------------------------------------------
(* A cue is in the list of its track and no other, once and in its place,  *)
(* whichever times change and whichever track it is moved to.              *)
CuesInPlace ==
  /\ \A t \in Tracks : IsInjective(cues[t]) /\ Range(cues[t]) = {c \in Cues : owner[c] = t}
  /\ \A t \in Tracks : \A i, j \in DOMAIN cues[t] : i < j => ~CueBefore(span, cues[t][j], cues[t][i])

(* The page that has a list of tracks hears of each that comes or goes,    *)
(* unless it was moved to another media element: then of that it hears     *)
(* with the next change, if it does not look before.                       *)
TracksAnnounced ==
  \A m \in Medias \ (unseen \union slipped) : listed[m] # None => heardOf[m] = Range(trackKids[m])

(* One change event is on its way for all the modes that change before it. *)
OneChange ==
  \A m \in Medias : Len(SelectSeq(trackTasks, LAMBDA e : e.type = "change" /\ e.at = m)) = IF m \in changing THEN 1 ELSE 0
=============================================================================
